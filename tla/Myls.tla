-------------------------------- MODULE Myls --------------------------------
(***************************************************************************)
(* myls.  Without an argument it lists the directory: it counts the entries, *)
(* opens the directory again to read as many names, sorts them and looks     *)
(* each of them up, while other processes create and remove files.  With a   *)
(* name it describes the file and prints the first two lines of it.          *)
(*                                                                         *)
(* Names are numbers, in the order of strcmp().                             *)
(***************************************************************************)
EXTENDS Integers, Sequences, FiniteSets

CONSTANTS
  Names,       \* names of files
  Directories, \* sets of names the directory starts with
  Orphans,     \* names whose owner is not in the table of users
  Age,         \* age of each file in hours, negative for the future
  Contents,    \* contents of the file described: "x" and "\n"
  MaxChanges,  \* bound: files created and removed meanwhile
  MaxEof       \* bound: bytes recorded in out past the end of the file

ASSUME MylsAssumption ==
  /\ Names \subseteq Nat /\ Orphans \subseteq Names
  /\ Directories \subseteq SUBSET Names
  /\ \A d \in Directories : IsFiniteSet(d)
  /\ Age \in [Names -> Int]
  /\ Contents \subseteq Seq({"x", "\n"})
  /\ MaxChanges \in Nat /\ MaxEof \in Nat

VARIABLES
  pc,
  dir,         \* kernel: the names in the directory
  todo, maybe, \* kernel: what readdir() has to return yet, what it may return
  changes,     \* bound
  stayed,      \* history: names that were there all the time
  created, removed,  \* history: whether a file was created, removed
  count, filenames, i, j,
  listed,      \* history: the lines of the listing
  err,         \* how the program ended
  file,        \* the file described
  pos,         \* characters of it that getc() returned
  znak, counter,
  out          \* history: what was printed of it

outside == <<dir, changes, stayed, created, removed>>
stream == <<todo, maybe>>
array == <<count, filenames, i, j>>
detail == <<file, pos, znak, counter, out>>
vars == <<pc, outside, stream, array, listed, err, detail>>

Kinds == {"none", "link", "regular", "directory"}
File == [kind : Kinds, executable : BOOLEAN, readable : BOOLEAN, content : Contents]

Init ==
  /\ pc \in {"open", "lstat", "usage"}
  /\ dir \in (IF pc = "open" THEN Directories ELSE {{}})
  /\ file \in (IF pc = "lstat" THEN File ELSE {<<>>})
  /\ todo = {} /\ maybe = {}
  /\ changes = 0 /\ stayed = dir /\ created = FALSE /\ removed = FALSE
  /\ count = 0 /\ filenames = <<>> /\ i = 0 /\ j = 0
  /\ listed = <<>> /\ err = "running"
  /\ pos = 0 /\ znak = "none" /\ counter = 0 /\ out = <<>>

Ends(how) ==
  /\ pc' = "ended" /\ err' = how

-----------------------------------------------------------------------------
(* Other processes, and readdir(): a name that is in the directory all the   *)
(* time is returned once, one that comes or goes may be returned or not.     *)

Listing == pc \in {"open", "count", "reopen", "fill", "sort", "show"}

Create(n) ==
  /\ Listing /\ changes < MaxChanges /\ n \notin dir
  /\ dir' = dir \cup {n} /\ maybe' = maybe \cup {n}
  /\ changes' = changes + 1 /\ created' = TRUE
  /\ UNCHANGED <<pc, todo, stayed, removed, array, listed, err, detail>>

Unlink(n) ==
  /\ Listing /\ changes < MaxChanges /\ n \in dir
  /\ dir' = dir \ {n} /\ stayed' = stayed \ {n}
  /\ todo' = todo \ {n} /\ maybe' = maybe \cup (todo \cap {n})
  /\ changes' = changes + 1 /\ removed' = TRUE
  /\ UNCHANGED <<pc, created, array, listed, err, detail>>

Opendir == todo' = dir /\ maybe' = {}

Readdir(n) ==
  /\ n \in todo \cup maybe
  /\ todo' = todo \ {n} /\ maybe' = maybe \ {n}

\* readdir() returns NULL.
AtEnd == todo = {}

-----------------------------------------------------------------------------
(* display_dir(). *)

Open ==
  /\ pc = "open"
  /\ Opendir /\ pc' = "count"
  /\ UNCHANGED <<outside, array, listed, err, detail>>

OpenFails ==
  /\ pc = "open" /\ Ends("opendir")
  /\ UNCHANGED <<outside, stream, array, listed, detail>>

Count(n) ==
  /\ pc = "count"
  /\ Readdir(n) /\ count' = count + 1
  /\ UNCHANGED <<pc, outside, filenames, i, j, listed, err, detail>>

CountDone ==
  /\ pc = "count" /\ AtEnd
  /\ pc' = "reopen"
  /\ UNCHANGED <<outside, stream, array, listed, err, detail>>

Reopen ==
  /\ pc = "reopen"
  /\ Opendir /\ pc' = "fill"
  /\ UNCHANGED <<outside, array, listed, err, detail>>

\* The result is not tested: readdir(NULL).
ReopenCrashes ==
  /\ pc = "reopen" /\ Ends("crash")
  /\ UNCHANGED <<outside, stream, array, listed, detail>>

Fill(n) ==
  /\ pc = "fill" /\ i < count
  /\ Readdir(n)
  /\ filenames' = Append(filenames, n) /\ i' = i + 1
  /\ UNCHANGED <<pc, outside, count, j, listed, err, detail>>

FillFails ==
  /\ pc = "fill" /\ i < count /\ AtEnd
  /\ Ends("readdir")
  /\ UNCHANGED <<outside, stream, array, listed, detail>>

FillDone ==
  /\ pc = "fill" /\ i = count
  /\ pc' = "sort" /\ i' = 0 /\ j' = 0
  /\ UNCHANGED <<outside, stream, count, filenames, listed, err, detail>>

\* A variant with a bug: no temp.
SwappedLost == [filenames EXCEPT ![j + 1] = filenames[j + 2]]

\* filenames[j] and filenames[j+1]; a sequence starts at 1.
Swapped == [filenames EXCEPT ![j + 1] = filenames[j + 2], ![j + 2] = filenames[j + 1]]

Sort ==
  /\ pc = "sort" /\ i < count - 1 /\ j < count - 1 - i
  /\ filenames' = IF filenames[j + 1] > filenames[j + 2] THEN Swapped ELSE filenames
  /\ j' = j + 1
  /\ UNCHANGED <<pc, outside, stream, count, i, listed, err, detail>>

\* Variants with a bug: the pass after this one is a pair too short, or there
\* is always one more.
SortPassShort ==
  /\ pc = "sort" /\ i < count - 1 /\ j = count - 1 - i
  /\ i' = i + 2 /\ j' = 0
  /\ UNCHANGED <<pc, outside, stream, count, filenames, listed, err, detail>>

SortPassAgain ==
  /\ pc = "sort" /\ i < count - 1 /\ j = count - 1 - i
  /\ j' = 0
  /\ UNCHANGED <<pc, outside, stream, count, filenames, i, listed, err, detail>>

SortPass ==
  /\ pc = "sort" /\ i < count - 1 /\ j = count - 1 - i
  /\ i' = i + 1 /\ j' = 0
  /\ UNCHANGED <<pc, outside, stream, count, filenames, listed, err, detail>>

\* The chdir() is to the current directory.
SortDone ==
  /\ pc = "sort" /\ i >= count - 1
  /\ pc' = "show" /\ i' = 0
  /\ UNCHANGED <<outside, stream, count, filenames, j, listed, err, detail>>

\* date_format(): the limits are in milliseconds, the difference in seconds.
DateFormat(age) == IF age > 4383000 \/ age < -1000 THEN "year" ELSE "hour"

\* lstat() fails for a name that has gone; pw_name of an owner that is not
\* found is read through NULL.
Show ==
  /\ pc = "show" /\ i < count
  /\ LET n == filenames[i + 1] IN
       CASE n \notin dir -> Ends("stat") /\ UNCHANGED <<i, listed>>
         [] n \in dir \cap Orphans -> Ends("crash") /\ UNCHANGED <<i, listed>>
         [] OTHER -> /\ listed' = Append(listed, [name |-> n, date |-> DateFormat(Age[n])])
                     /\ i' = i + 1
                     /\ UNCHANGED <<pc, err>>
  /\ UNCHANGED <<outside, stream, count, filenames, j, detail>>

ShowDone ==
  /\ pc = "show" /\ i = count
  /\ Ends("done")
  /\ UNCHANGED <<outside, stream, array, listed, detail>>

-----------------------------------------------------------------------------
(* display_attribute_detailed(). *)

\* getc() of a directory fails.
Text == IF file.kind = "regular" THEN file.content ELSE <<>>
Getc(p) == IF p < Len(Text) THEN Text[p + 1] ELSE "EOF"
After(p) == IF p < Len(Text) THEN p + 1 ELSE p

\* The path of a link is freed twice; fopen() is not tested.
Lstat ==
  /\ pc = "lstat"
  /\ CASE file.kind = "none" -> Ends("stat") /\ UNCHANGED <<pos, znak>>
       [] file.kind = "link" -> Ends("crash") /\ UNCHANGED <<pos, znak>>
       [] file.kind \in {"regular", "directory"} /\ file.executable ->
            Ends("done") /\ UNCHANGED <<pos, znak>>
       [] file.kind \in {"regular", "directory"} /\ ~file.executable /\ ~file.readable ->
            Ends("crash") /\ UNCHANGED <<pos, znak>>
       [] OTHER -> /\ pc' = "body" /\ znak' = Getc(0) /\ pos' = After(0)
                   /\ UNCHANGED err
  /\ UNCHANGED <<outside, stream, array, listed, file, counter, out>>

\* The character that is looked at for a newline: the next one, when the
\* first branch of the loop was taken.
Seen == IF znak = "\n" THEN "\n" ELSE Getc(pos)
SeenAt == IF znak = "\n" THEN pos ELSE After(pos)

\* The history is full; the loop prints on.
Recorded == Len(out) = Len(Text) + MaxEof

\* A variant with a bug: the character is read before the last one is printed.
PrintedLate ==
  IF Seen = "\n" \/ Recorded THEN out ELSE Append(out, Seen)

\* What getc() returned is printed before any test for the end of the file,
\* EOF as the byte 0xFF.
Printed ==
  IF znak = "\n" \/ Recorded THEN out ELSE Append(out, znak)

\* One round of the loop.
Body ==
  /\ pc = "body"
  /\ IF Seen = "\n"
     THEN /\ out' = Append(Printed, "\n")
          /\ counter' = counter + 1
          /\ znak' = Getc(SeenAt) /\ pos' = After(SeenAt)
     ELSE /\ out' = Printed
          /\ znak' = Seen /\ pos' = SeenAt
          /\ UNCHANGED counter
  /\ IF counter' = 2 THEN Ends("done") ELSE UNCHANGED <<pc, err>>
  /\ UNCHANGED <<outside, stream, array, listed, file>>

\* main() with more arguments.
Usage ==
  /\ pc = "usage" /\ Ends("done")
  /\ UNCHANGED <<outside, stream, array, listed, detail>>

Program ==
  \/ Open \/ OpenFails \/ CountDone \/ Reopen \/ ReopenCrashes
  \/ FillFails \/ FillDone \/ Sort \/ SortPass \/ SortDone \/ Show \/ ShowDone
  \/ \E n \in Names : Count(n) \/ Fill(n)
  \/ Lstat \/ Body \/ Usage

Next == Program \/ \E n \in Names : Create(n) \/ Unlink(n)

Spec == Init /\ [][Next]_vars

\* The program runs; nothing is asked of other processes.
FairSpec == Spec /\ WF_vars(Program)

-----------------------------------------------------------------------------
(* Properties. *)

TypeOK ==
  /\ pc \in {"open", "count", "reopen", "fill", "sort", "show",
             "lstat", "body", "usage", "ended"}
  /\ dir \subseteq Names /\ todo \subseteq dir /\ maybe \subseteq Names
  /\ stayed \subseteq dir
  /\ changes \in 0 .. MaxChanges
  /\ created \in BOOLEAN /\ removed \in BOOLEAN
  /\ count \in Nat /\ i \in Nat /\ j \in Nat
  /\ filenames \in Seq(Names) /\ Len(filenames) <= count
  /\ listed \in Seq([name : Names, date : {"year", "hour"}])
  /\ err \in {"running", "done", "opendir", "readdir", "stat", "crash"}
  /\ counter \in 0 .. 2

\* How often a name is in the listing.
Lines(n) == {k \in 1 .. Len(listed) : listed[k].name = n}

\* The listing is in the order of strcmp(), as far as it goes (lines 180-188).
SortedShown ==
  \A k, m \in 1 .. Len(listed) : k <= m => listed[k].name <= listed[m].name

\* A listing that is completed while files were only removed shows every file
\* that stayed, once: two passes over the directory are enough then.  And files
\* that are only created never stop a listing in the middle: readdir() and
\* lstat() fail only for what was removed (lines 57, 172).
NothingForgotten ==
  /\ err = "done" /\ ~created => \A n \in stayed : \E k \in Lines(n) : Lines(n) = {k}
  /\ err \in {"readdir", "stat"} /\ file = <<>> => removed

\* The first two lines of a text: up to its second newline.
Newlines(t, k) == {m \in 1 .. k : t[m] = "\n"}
Head2(t) ==
  {SubSeq(t, 1, k) : k \in {m \in 1 .. Len(t) : t[m] = "\n" /\
                              \E a \in Newlines(t, m - 1) : Newlines(t, m - 1) = {a}}}

\* The loop over the content prints all that getc() returns, once and in order,
\* nothing of it past the second newline, and when it ends it has printed the
\* first two lines (lines 278-292).  Of a text of fewer than two lines that is
\* the text and then, without end, the byte of EOF.
HeadShown ==
  /\ \A k \in 1 .. Len(out) : out[k] = Getc(k - 1)
  /\ pc = "body" => \A h \in Head2(Text) : Len(out) < Len(h)
  /\ pc = "ended" /\ out # <<>> => out \in Head2(Text)

\* The listing ends, and so does the printing of a file that has two lines.
Terminates ==
  /\ pc = "open" ~> pc = "ended"
  /\ pc = "body" /\ Head2(Text) # {} ~> pc = "ended"

-----------------------------------------------------------------------------
(* Properties that this code does not have. *)

\* The listing shows every file that stayed: false when a file created between
\* the passes takes the place of another one.
StayedShown == err = "done" => \A n \in stayed : Lines(n) # {}

\* "Dla plików z czasem, który jest wysunięty więcej niż 6 miesięcy w przeszłość
\* lub 1 godzinę w przyszłość, timestamp zawiera określenie roku" (lines 34-35:
\* a time more than 6 months past or 1 hour ahead is shown with its year):
\* false, the constants are milliseconds and the difference is seconds.
YearShown ==
  \A k \in 1 .. Len(listed) :
    Age[listed[k].name] > 4383 \/ Age[listed[k].name] < -1 => listed[k].date = "year"

\* "Poczatek zawartosci" (the beginning of the content, line 273): false for a
\* file of fewer than two lines, after whose content line 280 prints 0xFF.
BeginningShown == out # <<>> => Len(out) <= Len(Text)

\* And it ends: false for such a file, getc() returns EOF for ever.
ContentEnds == pc = "body" ~> pc = "ended"
=============================================================================
