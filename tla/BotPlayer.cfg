SPECIFICATION BotSpec
CONSTANTS
  TableSeats = {0, 1} BotSeat = 1 UsesAI = FALSE
PROPERTIES BotStartsPlaying
CHECK_DEADLOCK FALSE
