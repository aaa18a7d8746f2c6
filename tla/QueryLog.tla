------------------------------ MODULE QueryLog ------------------------------
(***************************************************************************)
(* The log of the queries (resolver/query_logging_resolver.go) and the     *)
(* writer for databases (querylog/database_writer.go).  A query puts its   *)
(* entry in a channel and does not wait; a goroutine takes the entries     *)
(* from the channel to the writer, which collects them, and another one    *)
(* writes what is collected in bulks at every tick.  Collecting and        *)
(* writing exclude each other, so that a slow database stops the first     *)
(* goroutine and, in the end, fills the channel.                           *)
(***************************************************************************)
EXTENDS Naturals, Sequences, Functions

CONSTANTS
  LogChanCap,   \* logChanCap
  BulkSize      \* bulkSize

ASSUME LogAssumption == LogChanCap \in Nat \ {0} /\ BulkSize \in Nat \ {0}

VARIABLES
  writer,     \* "database", or one that writes at once; fixed at the start
  logChan,    \* entries in the channel
  inHand,     \* entry that the first goroutine has taken, at most one
  pending,    \* pendingEntries
  flushed,    \* 0, or 1 more than the entries of a running doDBWrite
  written,    \* history: entries that were written, with or without success
  accepted,   \* history: entries that the channel took, in this order
  dropped     \* history: entries that the channel had no room for

logVars == <<writer, logChan, inHand, pending, flushed, written, accepted, dropped>>

LogInit ==
  /\ writer \in {"database", "console"}
  /\ logChan = <<>> /\ inHand = <<>> /\ pending = <<>>
  /\ flushed = 0
  /\ written = <<>> /\ accepted = <<>> /\ dropped = {}

-----------------------------------------------------------------------------
(* Mistake: the query waits until there is room. *)
LogEntryWaits(e) ==
  /\ Len(logChan) < LogChanCap
  /\ logChan' = Append(logChan, e)
  /\ accepted' = Append(accepted, e)
  /\ UNCHANGED <<writer, inHand, pending, flushed, written, dropped>>

(* The select at the end of Resolve. *)
LogEntry(e) ==
  /\ IF Len(logChan) < LogChanCap
     THEN /\ logChan' = Append(logChan, e)
          /\ accepted' = Append(accepted, e)
          /\ UNCHANGED dropped
     ELSE /\ dropped' = dropped \cup {e}
          /\ UNCHANGED <<logChan, accepted>>
  /\ UNCHANGED <<writer, inHand, pending, flushed, written>>

(* writeLog *)
TakeEntry ==
  /\ inHand = <<>> /\ logChan # <<>>
  /\ inHand' = <<Head(logChan)>>
  /\ logChan' = Tail(logChan)
  /\ UNCHANGED <<writer, pending, flushed, written, accepted, dropped>>

(* Write: the database writer takes its lock. *)
WriteEntry ==
  /\ inHand # <<>>
  /\ IF writer = "database"
     THEN flushed = 0 /\ pending' = pending \o inHand /\ UNCHANGED written
     ELSE written' = written \o inHand /\ UNCHANGED pending
  /\ inHand' = <<>>
  /\ UNCHANGED <<writer, logChan, flushed, accepted, dropped>>

(* doDBWrite, with the lock until its end. *)
StartDBWrite ==
  /\ flushed = 0 /\ pending # <<>>
  /\ flushed' = 1
  /\ UNCHANGED <<writer, logChan, inHand, pending, written, accepted, dropped>>

(* Mistake: the last entry of a full bulk is also the first of the next. *)
WriteBulkOverlapping ==
  LET last == IF flushed + BulkSize > Len(pending) THEN Len(pending)
                                                   ELSE flushed + BulkSize
  IN  /\ flushed \in DOMAIN pending
      /\ written' = written \o SubSeq(pending, flushed, last)
      /\ flushed' = flushed + BulkSize
      /\ UNCHANGED <<writer, logChan, inHand, pending, accepted, dropped>>

(* A bulk; the next one is tried also if this one fails. *)
WriteBulk ==
  LET last == IF flushed + BulkSize - 1 > Len(pending) THEN Len(pending)
                                                       ELSE flushed + BulkSize - 1
  IN  /\ flushed \in DOMAIN pending
      /\ written' = written \o SubSeq(pending, flushed, last)
      /\ flushed' = last + 1
      /\ UNCHANGED <<writer, logChan, inHand, pending, accepted, dropped>>

EndDBWrite ==
  /\ flushed > Len(pending)
  /\ pending' = <<>>
  /\ flushed' = 0
  /\ UNCHANGED <<writer, logChan, inHand, written, accepted, dropped>>

WriterStep == TakeEntry \/ WriteEntry \/ StartDBWrite \/ WriteBulk \/ EndDBWrite

-----------------------------------------------------------------------------
(* Entries of pendingEntries that are still to be written. *)
Unwritten == IF flushed = 0 THEN pending ELSE SubSeq(pending, flushed, Len(pending))

(* An entry that the channel took is in exactly one place and is tried     *)
(* exactly once, in the order of the answers: what was written, what is    *)
(* collected, what is in hand and what is in the channel make up what was  *)
(* taken.                                                                  *)
LogAccounted == accepted = written \o Unwritten \o inHand \o logChan
=============================================================================
