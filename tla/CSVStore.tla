------------------------------- MODULE CSVStore -------------------------------
(***************************************************************************)
(* The history of one dimension: store.Append adds a row to its CSV file,  *)
(* store.RotateCSVs moves the file and its backups one place on, LoadCSV   *)
(* (graph/graph.go) reads the file for the graph.  Errors of Append are    *)
(* dropped by appendCSV; a write that fails may have written a part; the   *)
(* daemon may die between any two system calls and is then started again.  *)
(*                                                                         *)
(* A row is known by the number of its sample.  A line is what lies        *)
(* between two newlines: the number of its fields, whether the newline is  *)
(* there, and the sample its second field is the time of, 0 if it is the   *)
(* time of none.                                                           *)
(***************************************************************************)
EXTENDS Integers, Sequences, FiniteSets, SequencesExt, FiniteSetsExt

CONSTANTS Backups,    \* backups rotateFile keeps (3)
          Samples     \* bound: samples of a behaviour

ASSUME CSVStoreAssumption == /\ Backups \in Nat \ {0}
                             /\ Samples \in Nat

VARIABLES call,        \* the next system call, "idle" outside Append and RotateCSVs
          needHeader,
          place,       \* the backup rotateFile moves next
          file,        \* the CSV file
          backup,      \* the files .1, .2, .3
          sample,      \* history: the number of the last sample
          torn         \* history: whether a write to the file has stopped part of the way

storeVars == <<call, needHeader, place, file, backup, sample, torn>>

Width == 3  \* fields of a row, and of the header

NoFile == [exists |-> FALSE, lines |-> << >>]
Line(fields, row, ended) == [fields |-> fields, row |-> row, ended |-> ended]

\* Which sample a line is read as once text follows its torn part: only a first field
\* that was torn leaves the second one to what follows.
Joined(part, l) == Line(part.fields + l.fields - 1,
                        CASE part.fields = 1 -> l.row
                          [] part.fields = 2 -> 0
                          [] OTHER -> part.row,
                        l.ended)

\* Text added at the end of a file continues a line without a newline.
Add(f, l) ==
  [f EXCEPT !.lines = IF @ # << >> /\ ~Last(@).ended
                        THEN Append(Front(@), Joined(Last(@), l)) ELSE Append(@, l)]

Header == Line(Width, 0, TRUE)
Row(n) == Line(Width, n, TRUE)

\* What a failed write has written of a line: its first k fields, the last one perhaps
\* in part.
Torn(l, k) == Line(k, IF k = Width THEN l.row ELSE 0, FALSE)

\* One write: whole, or failed after some part of it.
Written(l) == file' = Add(file, l) /\ UNCHANGED torn
Failed(l) == \/ UNCHANGED <<file, torn>>
             \/ /\ torn' = TRUE
                /\ \E k \in 1 .. Width : file' = Add(file, Torn(l, k))

StoreInit == /\ call = "idle" /\ needHeader = FALSE /\ place = 0
             /\ file = NoFile /\ backup = [i \in 1 .. Backups |-> NoFile]
             /\ sample = 0 /\ torn = FALSE

-----------------------------------------------------------------------------
(* store.Append *)

Stat == /\ call = "idle" /\ call' = "open"
        /\ sample < Samples /\ sample' = sample + 1
        /\ needHeader' = ~file.exists
        /\ UNCHANGED <<place, file, backup, torn>>

Open == /\ call = "open" /\ call' = IF needHeader THEN "header" ELSE "row"
        /\ file' = [file EXCEPT !.exists = TRUE]
        /\ UNCHANGED <<needHeader, place, backup, sample, torn>>

WriteHeader == /\ call = "header"
               /\ \/ Written(Header) /\ call' = "row"
                  \/ Failed(Header) /\ call' = "idle"
               /\ UNCHANGED <<needHeader, place, backup, sample>>

WriteRow == /\ call = "row" /\ call' = "idle"
            /\ Written(Row(sample)) \/ Failed(Row(sample))
            /\ UNCHANGED <<needHeader, place, backup, sample>>

\* The daemon dies, or the file cannot be opened.
Abandon == /\ call # "idle" /\ call' = "idle"
           /\ UNCHANGED <<needHeader, place, file, backup, sample, torn>>

-----------------------------------------------------------------------------
(* store.RotateCSVs: the oldest backup goes, the others move up, then the file. *)

\* Mutant of DropOldest: the loop starts one backup too low.
DropOldestFromLow ==
  /\ call = "idle" /\ call' = "shift" /\ place' = Backups - 2
  /\ file.exists
  /\ backup' = [backup EXCEPT ![Backups] = NoFile]
  /\ UNCHANGED <<needHeader, file, sample, torn>>

DropOldest == /\ call = "idle" /\ call' = "shift" /\ place' = Backups - 1
              /\ file.exists   \* the glob csv_*.csv finds it
              /\ backup' = [backup EXCEPT ![Backups] = NoFile]
              /\ UNCHANGED <<needHeader, file, sample, torn>>

\* os.Rename of backup i, which fails when there is none.
Moved(i) == IF backup[i].exists THEN [backup EXCEPT ![i + 1] = backup[i], ![i] = NoFile]
            ELSE backup

Shift == /\ call = "shift" /\ place > 0 /\ place' = place - 1
         /\ backup' = Moved(place)
         /\ UNCHANGED <<call, needHeader, file, sample, torn>>

\* Mutant of MoveFile: the file is copied, not renamed.
MoveFileCopied == /\ call = "shift" /\ place = 0 /\ call' = "idle"
                  /\ backup' = [backup EXCEPT ![1] = file]
                  /\ UNCHANGED <<needHeader, place, file, sample, torn>>

MoveFile == /\ call = "shift" /\ place = 0 /\ call' = "idle"
            /\ backup' = [backup EXCEPT ![1] = file]
            /\ file' = NoFile /\ torn' = FALSE
            /\ UNCHANGED <<needHeader, place, sample>>

StoreNext == \/ Stat \/ Open \/ WriteHeader \/ WriteRow \/ Abandon
             \/ DropOldest \/ Shift \/ MoveFile

StoreSpec == StoreInit /\ [][StoreNext]_storeVars

-----------------------------------------------------------------------------
(* LoadCSV: the first record sets the number of fields and is skipped, and the first  *)
(* record of another length ends the reading.                                         *)

\* The entries of a sequence at some of its positions, in order: the loop that appends
\* those it does not `continue` at.
Chosen(s, P) ==
  LET kept[i \in 0 .. Len(s)] ==
        IF i = 0 THEN << >>
        ELSE IF i \in P THEN Append(kept[i - 1], s[i]) ELSE kept[i - 1]
  IN  kept[Len(s)]

\* The samples read of the lines before end, in the order of the file.
Read(f, end) ==
  Chosen([i \in 1 .. Len(f.lines) |-> f.lines[i].row],
         {i \in 2 .. end - 1 : f.lines[i].fields >= Width /\ f.lines[i].row # 0})

Odd(f) == {i \in 1 .. Len(f.lines) : f.lines[i].fields # f.lines[1].fields}

\* Mutant of LoadCSV: the last record is taken for the end.
LoadCSVShort(f) == Read(f, IF Odd(f) = {} THEN Len(f.lines) ELSE Min(Odd(f)))

LoadCSV(f) == Read(f, IF Odd(f) = {} THEN Len(f.lines) + 1 ELSE Min(Odd(f)))

-----------------------------------------------------------------------------
(* Properties. *)

Rows(f) == {f.lines[i].row : i \in 1 .. Len(f.lines)} \ {0}
Stored == Rows(file) \cup UNION {Rows(backup[i]) : i \in 1 .. Backups}

Calls == {"idle", "open", "header", "row", "shift"}
Lines == [fields : Nat, row : Nat, ended : BOOLEAN]
Files == [exists : BOOLEAN, lines : Seq(Lines)]

StoreTypeOK == /\ call \in Calls /\ place \in 0 .. Backups - 1 /\ needHeader \in BOOLEAN
               /\ file \in Files /\ backup \in [1 .. Backups -> Files]
               /\ \A f \in {file} \cup {backup[i] : i \in 1 .. Backups} :
                    ~f.exists => f.lines = << >>
               /\ sample \in Nat /\ torn \in BOOLEAN

\* The backups are in order: what is further back is older, also after a rotation that
\* a crash has cut short.
InOrder ==
  /\ \A i \in 1 .. Backups : \A m \in Rows(backup[i]), n \in Rows(file) : m < n
  /\ \A i, j \in 1 .. Backups :
       i < j => \A m \in Rows(backup[j]), n \in Rows(backup[i]) : m < n

\* A row is only dropped with the last backup, so when every row that stays is newer: a
\* rotation never overwrites a backup that is still to be kept (csv.go:59-66), also after
\* one that a crash has cut short.
OldestGoFirst ==
  [][\A m \in Stored \ Stored' : /\ m \in Rows(backup[Backups])
                                 /\ \A n \in Stored' : m < n]_storeVars

\* While no write has stopped half-way, crashes and failed writes cost the graph at most
\* the first row of a file: every other row of it is shown.
AtMostFirstHidden == ~torn => Cardinality(Rows(file) \ Range(LoadCSV(file))) <= 1

=============================================================================
