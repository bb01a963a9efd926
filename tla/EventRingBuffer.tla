--------------------------- MODULE EventRingBuffer ---------------------------
(***************************************************************************)
(* The last events of a table, kept for agents who come back                *)
(* (game-server/src/event-ring-buffer.ts), and what handleHello sends them. *)
(* An operator named for a mistake stands before the one it resembles;      *)
(* nothing uses it.                                                         *)
(***************************************************************************)
EXTENDS Integers, Sequences

CONSTANTS
  Events,     \* what happens at the table
  MaxSize,    \* how many events are kept: 1000
  MaxEvents   \* bound: how many events happen between two clears

ASSUME BufferAssumption == MaxSize \in Nat \ {0} /\ MaxEvents \in Nat

VARIABLES
  buffer,      \* the events that are kept, oldest first: [eventId, event]
  nextEventId,
  happened     \* history: every event since the buffer was new or cleared

ringVars == <<buffer, nextEventId, happened>>

RingInit == buffer = <<>> /\ nextEventId = 1 /\ happened = <<>>

Trimmed(kept) == IF Len(kept) > MaxSize THEN Tail(kept) ELSE kept

Push(event) ==
  /\ buffer' = Trimmed(Append(buffer, [eventId |-> nextEventId, event |-> event]))
  /\ nextEventId' = nextEventId + 1
  /\ happened' = Append(happened, event)

\* Clearing the buffer, and losing the table and its buffer to an error, start
\* the numbers again at 1.
Clear == buffer' = <<>> /\ nextEventId' = 1 /\ happened' = <<>>

NeverTooOld(lastSeen) == FALSE

\* null: the caller needs a full resync.  It is said also of the event just
\* before the oldest one kept, whose successors are all there.
TooOld(lastSeen) == buffer # <<>> /\ lastSeen < buffer[1].eventId

\* The events after the one last seen; their ids order them.
EventsSince(lastSeen) ==
  {buffer[i] : i \in {j \in 1..Len(buffer) : buffer[j].eventId > lastSeen}}

LatestEventId == IF buffer = <<>> THEN 0 ELSE buffer[Len(buffer)].eventId

RingNext ==
  \/ nextEventId <= MaxEvents /\ \E event \in Events : Push(event)
  \/ Clear

RingSpec == RingInit /\ [][RingNext]_ringVars

-----------------------------------------------------------------------------
EventsAfter(lastSeen) ==
  {[eventId |-> n, event |-> happened[n]] : n \in (lastSeen + 1)..Len(happened)}

\* Fewer than MaxSize events behind: one fewer than SKILL.md promises, which counts the
\* agent that is MaxSize behind too.
IsCloseBehind(lastSeen) == Len(happened) - lastSeen < MaxSize

\* Who has seen the events up to lastSeen gets just those that have happened since,
\* each with its number, if he is close behind and has seen any, or if there are none;
\* everyone else is told to resync, and never gets a part of what he has missed.
DeltaIsComplete == \A lastSeen \in 0..Len(happened) :
  \/ /\ happened = <<>> \/ (lastSeen > 0 /\ IsCloseBehind(lastSeen))
     /\ ~TooOld(lastSeen) /\ EventsSince(lastSeen) = EventsAfter(lastSeen)
  \/ /\ happened # <<>> /\ (lastSeen = 0 \/ ~IsCloseBehind(lastSeen))
     /\ TooOld(lastSeen)
=============================================================================
