-------------------------------- MODULE Wal ---------------------------------
(***************************************************************************)
(* The write-ahead log byte by byte: appending encoded records, replaying  *)
(* the file, and what a crash in the middle of an append leaves behind.    *)
(* LsmDB takes a log to be a sequence of records; this module is about     *)
(* when that is so.                                                        *)
(*                                                                         *)
(*   file, synced  wal.log and the length of its prefix known to be on disk *)
(*   up            the log is open for appending                           *)
(*   history       the records of the log, as its user knows them          *)
(*   durable       how many of them were synced                            *)
(*   owed          after a crash: how many of them must be recovered       *)
(*   spoiled       the log was opened with a torn record at its end        *)
(***************************************************************************)
EXTENDS Integers, Sequences, SequencesExt

CONSTANTS
  LenSize,     \* kLenSize, the bytes of a length field
  WalKeys, WalValues,  \* byte strings
  MaxRecords, MaxWalCrashes  \* bounds of the model

Byte == 0 .. 255

ASSUME WalAssumption ==
  /\ LenSize \in Nat \ {0}
  /\ WalKeys \subseteq Seq(Byte) /\ WalValues \subseteq Seq(Byte)
  /\ MaxRecords \in Nat /\ MaxWalCrashes \in Nat

VARIABLES file, synced, up, history, durable, owed, spoiled, walcrashes

walvars == <<file, synced, up, history, durable, owed, spoiled, walcrashes>>

OpPut == 0
OpDelete == 1

WalRecords ==
  [op : {OpPut}, key : WalKeys, value : WalValues]
    \cup [op : {OpDelete}, key : WalKeys, value : {<<>>}]

-----------------------------------------------------------------------------
\* The record format.

\* n shifted right by 0, 1, ... LenSize bytes.
Shifts(n) ==
  LET s[i \in 0 .. LenSize] == IF i = 0 THEN n ELSE s[i - 1] \div 256
  IN  s

\* As PutLE, but one too small.
PutLEShort(n) == [i \in 1 .. LenSize |-> Shifts(n)[i - 1] - 1]

\* put_u32_le: the lowest byte first.
PutLE(n) == [i \in 1 .. LenSize |-> Shifts(n)[i - 1] % 256]

\* read_u32_le: every byte counts 256 times the one before it.
ReadLE(data, p) ==
  LET v[i \in 0 .. LenSize] ==
        IF i = LenSize THEN 0 ELSE data[p + i] + 256 * v[i + 1]
  IN  v[0]

\* append throws if a length does not fit its field.
Fits(r) ==
  Shifts(Len(r.key))[LenSize] = 0 /\ Shifts(Len(r.value))[LenSize] = 0

Encode(r) ==
  <<r.op>> \o PutLE(Len(r.key)) \o r.key \o PutLE(Len(r.value)) \o r.value

\* Where the fields of the record that starts at pos begin, and the record
\* after it; each makes sense only if the bytes before it are there.
KeyAt(data, pos)      == pos + 1 + LenSize
ValueLenAt(data, pos) == KeyAt(data, pos) + ReadLE(data, pos + 1)
ValueAt(data, pos)    == ValueLenAt(data, pos) + LenSize
NextAt(data, pos)     == ValueAt(data, pos) + ReadLE(data, ValueLenAt(data, pos))

\* As IsComplete, but the last record needs a byte after it.
IsFollowed(data, pos) ==
  /\ KeyAt(data, pos) - 1 <= Len(data)
  /\ ValueLenAt(data, pos) - 1 <= Len(data)
  /\ ValueAt(data, pos) - 1 <= Len(data)
  /\ NextAt(data, pos) <= Len(data)

\* None of replay's checks for a torn record fires.
IsComplete(data, pos) ==
  /\ KeyAt(data, pos) - 1 <= Len(data)
  /\ ValueLenAt(data, pos) - 1 <= Len(data)
  /\ ValueAt(data, pos) - 1 <= Len(data)
  /\ NextAt(data, pos) - 1 <= Len(data)

RecordAt(data, pos) ==
  [op    |-> data[pos],
   key   |-> SubSeq(data, KeyAt(data, pos), ValueLenAt(data, pos) - 1),
   value |-> SubSeq(data, ValueAt(data, pos), NextAt(data, pos) - 1)]

\* replay, if it started at pos: the records up to the first incomplete one, and
\* where that starts.
ReplayFrom(data) ==
  LET from[pos \in 1 .. Len(data) + 1] ==
        IF pos > Len(data) \/ ~IsComplete(data, pos)
        THEN [records |-> <<>>, end |-> pos]
        ELSE LET rest == from[NextAt(data, pos)]
             IN  [rest EXCEPT !.records = <<RecordAt(data, pos)>> \o @]
  IN  from

Replayed(data) == ReplayFrom(data)[1]

IsTorn(data) == Replayed(data).end <= Len(data)

-----------------------------------------------------------------------------
WalInit ==
  /\ file = <<>> /\ synced = 0 /\ up = FALSE
  /\ history = <<>> /\ durable = 0 /\ owed = 0
  /\ spoiled = FALSE /\ walcrashes = 0

\* The constructor without truncate: what is in the file stays, a torn record
\* included, and the next append goes after it.
WalOpen ==
  /\ ~up
  /\ up' = TRUE
  /\ history' = Replayed(file).records
  /\ durable' = Len(Replayed(SubSeq(file, 1, synced)).records)
  /\ spoiled' = (spoiled \/ IsTorn(file))
  /\ UNCHANGED <<file, synced, owed, walcrashes>>

\* append, in full.
WalAppend(r, sync) ==
  /\ up /\ Len(history) < MaxRecords /\ Fits(r)
  /\ file' = file \o Encode(r)
  /\ history' = Append(history, r)
  /\ synced' = IF sync THEN Len(file') ELSE synced
  /\ durable' = IF sync THEN Len(history') ELSE durable
  /\ UNCHANGED <<up, owed, spoiled, walcrashes>>

WalSync ==
  /\ up
  /\ synced' = Len(file)
  /\ durable' = Len(history)
  /\ UNCHANGED <<file, up, history, owed, spoiled, walcrashes>>

\* The log starts afresh after a flush: the constructor with truncate.
WalTruncate ==
  /\ up
  /\ file' = <<>> /\ synced' = 0
  /\ history' = <<>> /\ durable' = 0
  /\ spoiled' = FALSE
  /\ UNCHANGED <<up, owed, walcrashes>>

WalMayCrash == walcrashes < MaxWalCrashes /\ walcrashes' = walcrashes + 1

\* The process ends between two calls, or in write_all with n bytes written.
WalExit ==
  /\ up /\ WalMayCrash
  /\ up' = FALSE
  /\ owed' = Len(history)
  /\ \/ UNCHANGED <<file, history>>
     \/ \E r \in {s \in WalRecords : Fits(s)} : \E n \in 1 .. Len(Encode(r)) :
          /\ file' = file \o SubSeq(Encode(r), 1, n)
          /\ history' = IF n = Len(Encode(r)) THEN Append(history, r) ELSE history
  /\ UNCHANGED <<synced, durable, spoiled>>

\* The power goes: any prefix may survive that holds what was synced.
WalPowerLoss ==
  /\ WalMayCrash
  /\ up' = FALSE
  /\ owed' = durable
  /\ \E n \in synced .. Len(file) : file' = SubSeq(file, 1, n) /\ synced' = n
  /\ UNCHANGED <<history, durable, spoiled>>

WalNext ==
  \/ WalOpen
  \/ \E r \in WalRecords, sync \in BOOLEAN : WalAppend(r, sync)
  \/ WalSync
  \/ WalTruncate
  \/ WalExit
  \/ WalPowerLoss

WalSpec == WalInit /\ [][WalNext]_walvars

-----------------------------------------------------------------------------
\* The types of the variables.
WalTypeOK ==
  /\ file \in Seq(Byte) /\ synced \in 0 .. Len(file)
  /\ up \in BOOLEAN /\ spoiled \in BOOLEAN
  /\ durable \in Nat /\ owed \in Nat /\ walcrashes \in Nat

\* Every acknowledged record survives a crash: replay returns it, in its place.
AcknowledgedSurvive ==
  ~up => IsPrefix(SubSeq(history, 1, owed), Replayed(file).records)

\* A log that had no torn end when it was opened is recovered well: replay
\* returns every acknowledged record, in order, and nothing that was not
\* appended; dropping the partial record at the end is all it has to do.
CleanLogRecovered ==
  ~spoiled => /\ AcknowledgedSurvive
              /\ ~up => IsPrefix(Replayed(file).records, history)
=============================================================================
