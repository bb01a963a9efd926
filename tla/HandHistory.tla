----------------------------- MODULE HandHistory -----------------------------
(***************************************************************************)
(* The log of one hand in memory (hand-history/src/memory-store.ts) and its *)
(* hash chain (hash-chain.ts).  SHA-256 is taken to have no collisions: a   *)
(* hash is the value that was hashed.  Damaged logs and chains stand for    *)
(* whatever verifyHashChain may be shown.                                   *)
(* Operators named for a mistake stand before the one they resemble;        *)
(* nothing uses them.                                                       *)
(***************************************************************************)
EXTENDS Filtering

CONSTANTS
  Types, Payloads,  \* of an event: what it is, and what it says
  MaxSeq,           \* bound: the numbers of events
  MaxLog            \* bound: how long a log becomes

ASSUME LogAssumption == MaxSeq \in Nat /\ MaxLog \in Nat

Genesis == "0"

\* The engine numbers the events of each call from 0.
Seqs == 0..MaxSeq

Event == [seq : Seqs, type : Types, payload : Payloads]

VARIABLES
  stored,  \* what the store has of the hand
  shown,   \* the events verifyHashChain is shown
  chain    \* the chain it is shown

historyVars == <<stored, shown, chain>>

Batches == UNION {[1..n -> Event] : n \in 1..2}

-----------------------------------------------------------------------------
\* The list sorted by seq; the sort is stable.
InOrder(log) ==
  FlattenSeq([n \in 1..(MaxSeq + 1) |-> Those(log, {e \in ToSet(log) : e.seq = n - 1})])

\* The events of a list whose numbers another list does not have.
NewTo(events, log) ==
  Those(events, {e \in ToSet(events) : ~ \E old \in ToSet(log) : old.seq = e.seq})

MergedNewFirst(events) == InOrder(events \o NewTo(stored, events))

\* A number that is stored already is not stored again; a number twice in one
\* batch is.
Merged(events) == InOrder(stored \o NewTo(events, stored))

AppendEvents(events) ==
  /\ stored' = Merged(events)
  /\ UNCHANGED <<shown, chain>>

-----------------------------------------------------------------------------
HashAll(event) == <<event.seq, event.type, event.payload>>

\* The list of keys given to JSON.stringify is that of the event, and it is applied
\* to the payload too: none of the payload's own keys is in it.
HashEvent(event) == <<event.seq, event.type>>

ComputeChainHash(previousHash, eventHash) == <<previousHash, eventHash>>

\* The chain hash of the first n events.
ChainHash(events) ==
  LET hash[n \in 0..Len(events)] ==
        IF n = 0 THEN Genesis
        ELSE ComputeChainHash(hash[n - 1], HashEvent(events[n]))
  IN hash

BuildHashChain(events) ==
  [n \in 1..Len(events) |->
     [seq |-> events[n].seq, eventHash |-> HashEvent(events[n]),
      previousHash |-> ChainHash(events)[n - 1], chainHash |-> ChainHash(events)[n]]]

UnlinkedEntryHolds(event, entry, previous) ==
  /\ event.seq = entry.seq
  /\ HashEvent(event) = entry.eventHash
  /\ entry.chainHash = ComputeChainHash(entry.previousHash, entry.eventHash)

EntryHolds(event, entry, previous) ==
  /\ event.seq = entry.seq
  /\ HashEvent(event) = entry.eventHash
  /\ entry.previousHash = previous
  /\ entry.chainHash = ComputeChainHash(entry.previousHash, entry.eventHash)

\* The chain hash of the last entry, the terminal hash.
TerminalHash(entries) == IF entries = <<>> THEN Genesis ELSE Last(entries).chainHash

VerifyHashChain(events, entries) ==
  /\ Len(events) = Len(entries)
  /\ \A n \in 1..Len(events) :
       EntryHolds(events[n], entries[n], TerminalHash(SubSeq(entries, 1, n - 1)))

-----------------------------------------------------------------------------
HistoryInit == stored = <<>> /\ shown = <<>> /\ chain = <<>>

Seal ==
  /\ shown' = stored
  /\ chain' = BuildHashChain(stored)
  /\ UNCHANGED stored

\* Damage: an event is altered, added or lost, or an entry comes from the chain of
\* another log.
AlterEvent(n, event) ==
  /\ shown' = [shown EXCEPT ![n] = event]
  /\ UNCHANGED <<stored, chain>>

LoseEvent(n) ==
  /\ shown' = RemoveAt(shown, n)
  /\ UNCHANGED <<stored, chain>>

GraftEntry(n, other) ==
  /\ chain' = [chain EXCEPT ![n] = BuildHashChain(other)[n]]
  /\ UNCHANGED <<stored, shown>>

HistoryNext ==
  \/ \E events \in Batches : Len(stored) + Len(events) <= MaxLog /\ AppendEvents(events)
  \/ Seal
  \/ \E n \in 1..Len(shown) : LoseEvent(n) \/ \E event \in Event : AlterEvent(n, event)
  \/ \E n \in 1..Len(chain), other \in Batches : n <= Len(other) /\ GraftEntry(n, other)

HistorySpec == HistoryInit /\ [][HistoryNext]_historyVars

-----------------------------------------------------------------------------
\* Of all the chains one can be shown with a list of events, only the one that
\* buildHashChain makes of it is accepted: an event that is moved, lost, renumbered
\* or of another type is noticed, and so is an entry of another chain.  What the event
\* says, its payload, is in no hash.
OnlyItsChainIsAccepted ==
  VerifyHashChain(shown, chain) <=> chain = BuildHashChain(shown)

\* SKILL.md: "Event hash: SHA-256(canonicalJSON(event))".  The chain of the log is
\* accepted with no other events than those of the log.
LogIsSealed == VerifyHashChain(shown, BuildHashChain(stored)) => shown = stored

\* The log is kept: an append neither replaces nor drops a stored event, whatever
\* numbers the events it is given have, and it stays sorted.
LogIsKept ==
  [][/\ ToSet(stored) \subseteq ToSet(stored')
     /\ \A m, n \in 1..Len(stored') : m < n => stored'[m].seq <= stored'[n].seq]_stored
=============================================================================
