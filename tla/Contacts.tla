------------------------------ MODULE Contacts -----------------------------
(***************************************************************************)
(* The owners' contacts (src/gateway/contacts.py): each record an owner      *)
(* signs carries a nonce above the pool's last, and is one line of an        *)
(* append-only file, on the disk before it is answered.  Two threads may     *)
(* write at once, the chain is read outside the lock, a write may fail        *)
(* part-way, and the process may end in the middle of one.  One pool: the     *)
(* book keeps pools apart by name.                                           *)
(***************************************************************************)
EXTENDS Naturals, Sequences, FiniteSets, FiniteSetsExt

CONSTANTS
  Records,      \* the records its owner signs, each by its nonce
  MaxStops   \* bound: ends of the process

ASSUME ContactsAssumption == Records \subseteq Nat \ {0} /\ MaxStops \in Nat

VARIABLES
  lines,    \* contacts.jsonl: whole lines, each a record's nonce, 0 for one nobody can read
  torn,     \* whether part of a line follows the last whole one
  end,      \* _end: how many whole lines the process counts
  last,     \* _last: the nonce of the record it serves, 0 for none
  writer,   \* each record: where its request is
  kept,     \* records answered as kept
  stops     \* ends of the process so far; it refuses to start on a file it cannot read

contactsVars == <<lines, torn, end, last, writer, kept, stops>>

ContactsInit ==
  /\ lines = <<>> /\ torn = FALSE /\ end = 0 /\ last = 0
  /\ writer = [r \in Records |-> "none"]
  /\ kept = {} /\ stops = 0

\* parse_message and _fresh, then the owner's address read from the chain outside the lock.
Write(r) ==
  /\ writer[r] = "none"
  /\ writer' = [writer EXCEPT ![r] = IF r > last THEN "checked" ELSE "refused"]
  /\ UNCHANGED <<lines, torn, end, last, kept, stops>>

\* Not the owner's signature, or a read that failed.
RefuseWrite(r) ==
  /\ writer[r] = "checked"
  /\ writer' = [writer EXCEPT ![r] = "refused"]
  /\ UNCHANGED <<lines, torn, end, last, kept, stops>>

\* The file once the line is written right after the last whole one the process counts, what was
\* there written over.
\* Fault: the line is put after whatever the file ends with, so it joins a torn one.
Joined(r) == IF torn THEN Append(lines, 0) ELSE Append(lines, r)
Placed(r) == Append(SubSeq(lines, 1, end), r)

\* Under the lock: the nonce once more, the line, and only then what is served.
Keep(r) ==
  /\ writer[r] = "checked" /\ r > last
  /\ lines' = Placed(r) /\ torn' = FALSE /\ end' = end + 1 /\ last' = r
  /\ kept' = kept \cup {r} /\ writer' = [writer EXCEPT ![r] = "kept"]
  /\ UNCHANGED stops

RefuseStale(r) ==
  /\ writer[r] = "checked" /\ r <= last
  /\ writer' = [writer EXCEPT ![r] = "refused"]
  /\ UNCHANGED <<lines, torn, end, last, kept, stops>>

\* The disk is full: part of a line is cut off again, or stays if that fails too.
KeepFails(r) ==
  /\ writer[r] = "checked" /\ r > last
  /\ lines' = SubSeq(lines, 1, end) /\ torn' \in BOOLEAN
  /\ writer' = [writer EXCEPT ![r] = "refused"]
  /\ UNCHANGED <<end, last, kept, stops>>

\* What a process finds at its start: the whole lines; the highest nonce is served.
Start(file) ==
  /\ end' = Len(file)
  /\ last' = Max({0} \cup {file[i] : i \in DOMAIN file})
  /\ writer' = [r \in Records |-> IF writer[r] = "checked" THEN "refused" ELSE writer[r]]

\* The process ends, in the middle of a write perhaps: the line is whole, or not, and nobody is
\* told.  It starts again unless a whole line is no record.
StopAndStart ==
  /\ stops < MaxStops /\ stops' = stops + 1
  /\ UNCHANGED kept
  /\ \/ /\ UNCHANGED <<lines, torn>> /\ Start(lines)
     \/ \E r \in Records :
          /\ writer[r] = "checked" /\ r > last
          /\ \/ lines' = Placed(r) /\ torn' = FALSE
             \/ lines' = SubSeq(lines, 1, end) /\ torn' = TRUE
          /\ Start(lines')

ContactsSteps ==
  \E r \in Records : Write(r) \/ RefuseWrite(r) \/ Keep(r) \/ RefuseStale(r) \/ KeepFails(r)

ContactsNext == ContactsSteps \/ StopAndStart

ContactsSpec == ContactsInit /\ [][ContactsNext]_contactsVars

----------------------------------------------------------------------------
(* A record answered as kept is never lost behind an older one: what is        *)
(* served is the newest answered, or one newer still that was written before   *)
(* a crash, and every line of the file can be read at the next start.          *)
KeptIsServed ==
  /\ \A r \in kept : r <= last
  /\ \A i \in DOMAIN lines : lines[i] # 0
  /\ last = Max({0} \cup {lines[i] : i \in 1..end})
=============================================================================
