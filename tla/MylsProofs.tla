----------------------------- MODULE MylsProofs -----------------------------
(***************************************************************************)
(* Theorems about Myls, for any directory that is finite, any number of      *)
(* changes and any text: the listing is sorted, it is complete when files    *)
(* were only removed, and of a file is printed what getc() returns of it, up to *)
(* the end of its second line.                                               *)
(***************************************************************************)
EXTENDS Myls, FiniteSetTheorems, TLAPS

Entry == [name : Names, date : {"year", "hour"}]
Looking == {"open", "count", "reopen", "fill", "sort", "show"}

\* The names of the array, as far as display_dir() has filled it.
Phases ==
  /\ pc \in Looking => file = <<>> /\ out = <<>>
  /\ pc \in {"open", "count", "reopen"} => filenames = <<>> /\ i = 0
  /\ pc = "open" => count = 0
  /\ pc = "fill" => Len(filenames) = i /\ i <= count
  /\ pc \in {"sort", "show"} => Len(filenames) = count
  /\ pc \in {"open", "count", "reopen", "fill", "sort"} => listed = <<>>
  /\ pc = "show" => /\ Len(listed) = i /\ i <= count
                    /\ \A k \in 1 .. i : listed[k].name = filenames[k]
  /\ pc \in {"lstat", "body"} => file \in File
  /\ pc \in {"lstat", "body", "usage"} => listed = <<>> /\ stayed = {}
  /\ pc = "body" => counter \in 0 .. 1
  /\ pc \in {"lstat", "usage"} => counter = 0 /\ out = <<>>
  /\ pc = "ended" <=> err # "running"

Typed == TypeOK /\ Phases

LEMMA SwapTyped ==
  ASSUME NEW S, NEW f \in Seq(S), NEW a \in 1 .. Len(f), NEW b \in 1 .. Len(f)
  PROVE  LET g == [f EXCEPT ![a] = f[b], ![b] = f[a]] IN
         /\ g \in Seq(S) /\ Len(g) = Len(f)
         /\ g[b] = f[a] /\ (a # b => g[a] = f[b])
         /\ \A k \in 1 .. Len(f) : k # a /\ k # b => g[k] = f[k]
OBVIOUS

LEMMA TypedInit == Init => Typed
<1> SUFFICES ASSUME Init PROVE Typed
  OBVIOUS
<1>1. TypeOK
  <2>1. dir \subseteq Names
    BY MylsAssumption DEF Init
  <2>2. filenames \in Seq(Names) /\ Len(filenames) = 0
        /\ listed \in Seq([name : Names, date : {"year", "hour"}])
    BY DEF Init
  <2>3. changes \in 0 .. MaxChanges /\ count \in Nat /\ i \in Nat /\ j \in Nat /\ Len(filenames) <= count
        /\ counter \in 0 .. 2
    BY <2>2, MylsAssumption DEF Init
  <2>4. pc \in {"open", "lstat", "usage"} /\ err = "running" /\ created = FALSE /\ removed = FALSE
        /\ todo = {} /\ maybe = {} /\ stayed = dir
    BY DEF Init
  <2> QED BY <2>1, <2>2, <2>3, <2>4 DEF TypeOK
<1>2. Phases
  BY DEF Init, Phases, Looking
<1> QED BY <1>1, <1>2 DEF Typed

LEMMA TypedNext == Typed /\ [Next]_vars => Typed'
<1> SUFFICES ASSUME Typed, [Next]_vars PROVE Typed'
  OBVIOUS
<1> USE DEF Typed
<1>1. CASE Open
  BY <1>1 DEF Open, Opendir, TypeOK, Phases, Looking, outside, array, detail
<1>2. CASE OpenFails
  BY <1>2 DEF OpenFails, Ends, TypeOK, Phases, Looking, outside, stream, array, detail
<1>3. CASE CountDone
  BY <1>3 DEF CountDone, TypeOK, Phases, Looking, outside, stream, array, detail
<1>4. CASE Reopen
  BY <1>4 DEF Reopen, Opendir, TypeOK, Phases, Looking, outside, array, detail
<1>5. CASE ReopenCrashes
  BY <1>5 DEF ReopenCrashes, Ends, TypeOK, Phases, Looking, outside, stream, array, detail
<1>6. CASE FillFails
  BY <1>6 DEF FillFails, Ends, TypeOK, Phases, Looking, outside, stream, array, detail
<1>7. CASE FillDone
  BY <1>7 DEF FillDone, TypeOK, Phases, Looking, outside, stream, detail
<1>8. CASE Sort
  <2>1. filenames' \in Seq(Names) /\ Len(filenames') = Len(filenames)
    <3>1. j + 1 \in 1 .. Len(filenames) /\ j + 2 \in 1 .. Len(filenames)
      BY <1>8 DEF Sort, TypeOK, Phases
    <3> QED BY <1>8, <3>1, SwapTyped DEF Sort, Swapped, TypeOK
  <2>2. j' \in Nat
    BY <1>8 DEF Sort, TypeOK
  <2> QED BY <1>8, <2>1, <2>2 DEF Sort, TypeOK, Phases, Looking, outside, stream, detail
<1>9. CASE SortPass
  BY <1>9 DEF SortPass, TypeOK, Phases, Looking, outside, stream, detail
<1>10. CASE SortDone
  BY <1>10 DEF SortDone, TypeOK, Phases, Looking, outside, stream, detail
<1>11. CASE Show
  <2> DEFINE n == filenames[i + 1]
             e == [name |-> n, date |-> DateFormat(Age[n])]
  <2>1. i + 1 \in 1 .. Len(filenames) /\ n \in Names /\ i \in Nat
    BY <1>11 DEF Show, TypeOK, Phases
  <2>2. CASE UNCHANGED <<i, listed>> /\ pc' = "ended" /\ err' \in {"stat", "crash"}
    BY <1>11, <2>2 DEF Show, TypeOK, Phases, Looking, outside, stream, detail
  <2>3. CASE listed' = Append(listed, e) /\ i' = i + 1 /\ UNCHANGED <<pc, err>>
    <3>1. e \in Entry /\ e.name = n
      BY <2>1 DEF Entry, DateFormat
    <3>2. listed \in Seq(Entry) /\ Len(listed) = i
      BY <1>11 DEF Show, TypeOK, Phases, Entry
    <3> HIDE DEF e
    <3>3. listed' \in Seq(Entry) /\ Len(listed') = i + 1 /\ listed'[i + 1] = e
          /\ \A k \in 1 .. i : listed'[k] = listed[k]
      BY <2>3, <3>1, <3>2
    <3>4. \A k \in 1 .. i + 1 : listed'[k].name = filenames[k]
      <4>1. \A k \in 1 .. i : listed[k].name = filenames[k]
        BY <1>11 DEF Show, Phases
      <4>2. \A k \in 1 .. i + 1 : k \in 1 .. i \/ k = i + 1
        BY <2>1
      <4> QED BY <3>1, <3>3, <4>1, <4>2
    <3>5. TypeOK'
      BY <1>11, <2>1, <2>3, <3>3 DEF Show, TypeOK, Entry, outside, stream, detail
    <3>6. i' <= count
      BY <1>11, <2>1, <2>3 DEF Show, TypeOK
    <3>7. Phases'
      BY <1>11, <2>3, <3>3, <3>4, <3>6 DEF Show, Phases, Looking, outside, stream, detail
    <3> QED BY <3>5, <3>7
  <2> QED BY <1>11, <2>2, <2>3 DEF Show, Ends
<1>12. CASE ShowDone
  BY <1>12 DEF ShowDone, Ends, TypeOK, Phases, Looking, outside, stream, array, detail
<1>13. ASSUME NEW n \in Names, Count(n) PROVE Typed'
  BY <1>13 DEF Count, Readdir, TypeOK, Phases, Looking, outside, detail
<1>14. ASSUME NEW n \in Names, Fill(n) PROVE Typed'
  <2>1. filenames' \in Seq(Names) /\ Len(filenames') = i + 1 /\ i + 1 <= count
    BY <1>14 DEF Fill, TypeOK, Phases
  <2> QED BY <1>14, <2>1 DEF Fill, Readdir, TypeOK, Phases, Looking, outside, detail
<1>15. CASE Lstat
  BY <1>15 DEF Lstat, Ends, TypeOK, Phases, Looking, outside, stream, array
<1>16. CASE Body
  <2>1. counter' \in 0 .. 2 /\ (counter' # 2 => counter' \in 0 .. 1)
    BY <1>16 DEF Body, Phases
  <2>2. CASE counter' = 2
    BY <1>16, <2>1, <2>2 DEF Body, Ends, TypeOK, Phases, Looking, outside, stream, array
  <2>3. CASE counter' # 2
    BY <1>16, <2>1, <2>3 DEF Body, TypeOK, Phases, Looking, outside, stream, array
  <2> QED BY <2>2, <2>3
<1>17. CASE Usage
  BY <1>17 DEF Usage, Ends, TypeOK, Phases, Looking, outside, stream, array, detail
<1>18. ASSUME NEW n \in Names, Create(n) PROVE Typed'
  BY <1>18, MylsAssumption DEF Create, Listing, TypeOK, Phases, Looking, array, detail
<1>19. ASSUME NEW n \in Names, Unlink(n) PROVE Typed'
  BY <1>19, MylsAssumption DEF Unlink, Listing, TypeOK, Phases, Looking, array, detail
<1>20. CASE UNCHANGED vars
  BY <1>20 DEF vars, outside, stream, array, detail, TypeOK, Phases
<1> QED BY <1>1, <1>2, <1>3, <1>4, <1>5, <1>6, <1>7, <1>8, <1>9, <1>10, <1>11, <1>12, <1>13,
           <1>14, <1>15, <1>16, <1>17, <1>18, <1>19, <1>20 DEF Next, Program

LEMMA TypedAlways == Spec => []Typed
BY TypedInit, TypedNext, PTL DEF Spec

\* The counters, the array, the listing and the streams keep their types.
THEOREM TypeCorrect == Spec => []TypeOK
<1>1. Typed => TypeOK
  BY DEF Typed
<1> QED BY <1>1, TypedAlways, PTL

-----------------------------------------------------------------------------
(* The order of the listing. *)

\* Within a pass the largest name so far is at j; the passes before have put
\* the largest names at the end.
Sorting ==
  /\ pc = "sort" =>
       /\ j = 0 \/ j <= count - 1 - i
       /\ \A k, m \in 1 .. count : k < m /\ count - i < m => filenames[k] <= filenames[m]
       /\ \A k \in 1 .. j : filenames[k] <= filenames[j + 1]
  /\ pc = "show" => \A k, m \in 1 .. count : k <= m => filenames[k] <= filenames[m]
  /\ SortedShown

LEMMA NumbersOnly ==
  ASSUME NEW f \in Seq(Names)
  PROVE  f \in Seq(Nat)
<1>1. f \in [1 .. Len(f) -> Names] /\ Len(f) \in Nat
  OBVIOUS
<1>2. f \in [1 .. Len(f) -> Nat]
  BY <1>1, MylsAssumption
<1> QED BY <1>1, <1>2

LEMMA SortKeeps ==
  ASSUME Typed, Typed', Sorting, Sort PROVE Sorting'
<1> DEFINE f == filenames
           g == filenames'
           n == count
<1>1. f \in Seq(Nat) /\ Len(f) = n /\ n \in Nat /\ i \in Nat /\ j \in Nat
      /\ j + 1 <= n - 1 - i /\ j' = j + 1 /\ i' = i /\ count' = n /\ pc' = "sort" /\ listed' = <<>>
  <2>1. f \in Seq(Names) /\ Len(f) = n /\ n \in Nat /\ i \in Nat /\ j \in Nat
    BY DEF Typed, TypeOK, Phases, Sort
  <2>2. j < n - 1 - i /\ j' = j + 1 /\ i' = i /\ count' = n /\ pc' = "sort" /\ listed' = <<>>
    BY DEF Typed, Phases, Sort
  <2>3. f \in Seq(Nat)
    BY <2>1, NumbersOnly
  <2> HIDE DEF f, n
  <2> QED BY <2>1, <2>2, <2>3
<1>2. g \in Seq(Nat)
  BY NumbersOnly DEF Typed, TypeOK
<1>3. g = IF f[j + 1] > f[(j + 1) + 1]
          THEN [f EXCEPT ![j + 1] = f[(j + 1) + 1], ![(j + 1) + 1] = f[j + 1]] ELSE f
  <2>1. (j + 1) + 1 = j + 2
    BY <1>1
  <2> QED BY <2>1 DEF Sort, Swapped
<1>4. \A k, m \in 1 .. n : k < m /\ n - i < m => f[k] <= f[m]
  BY DEF Sorting, Sort
<1>5. \A k \in 1 .. j : f[k] <= f[j + 1]
  BY DEF Sorting, Sort
<1> HIDE DEF f, g, n
<1>6. /\ Len(g) = n
      /\ \A m \in 1 .. n : m # j + 1 /\ m # j + 2 => g[m] = f[m]
      /\ \/ g[j + 1] = f[j + 1] /\ g[j + 2] = f[j + 2]
         \/ g[j + 1] = f[j + 2] /\ g[j + 2] = f[j + 1]
      /\ g[j + 1] <= g[j + 2] /\ f[j + 1] <= g[j + 2]
  <2> DEFINE a == j + 1
  <2>1. a \in Nat /\ 1 <= a /\ a + 1 <= Len(f) /\ a + 1 = j + 2
    BY <1>1
  <2>2. a \in 1 .. Len(f) /\ a + 1 \in 1 .. Len(f) /\ a # a + 1 /\ f[a] \in Nat /\ f[a + 1] \in Nat
    BY <1>1, <2>1
  <2>3. CASE f[a] > f[a + 1]
    <3>1. g = [f EXCEPT ![a] = f[a + 1], ![a + 1] = f[a]]
      BY <1>3, <2>3
    <3> HIDE DEF a
    <3>2. Len(g) = Len(f) /\ g[a + 1] = f[a] /\ g[a] = f[a + 1]
          /\ \A m \in 1 .. Len(f) : m # a /\ m # a + 1 => g[m] = f[m]
      BY <1>1, <2>2, <3>1, SwapTyped
    <3> QED BY <1>1, <2>1, <2>2, <2>3, <3>2 DEF a
  <2>4. CASE ~(f[a] > f[a + 1])
    <3>1. g = f
      BY <1>3, <2>4
    <3> QED BY <1>1, <2>1, <2>2, <2>4, <3>1
  <2> QED BY <2>3, <2>4
<1>7. \A k \in 1 .. n : f[k] \in Nat /\ g[k] \in Nat
  <2>1. Len(g) = n
    BY <1>6
  <2> QED BY <1>1, <1>2, <2>1
<1>8. ASSUME NEW k \in 1 .. n, NEW m \in 1 .. n, k < m, n - i < m
      PROVE  g[k] <= g[m]
  <2>1. m # j + 1 /\ m # j + 2 /\ j + 1 < m /\ j + 2 < m /\ j + 1 \in 1 .. n /\ j + 2 \in 1 .. n
    BY <1>1, <1>8
  <2>2. g[m] = f[m] /\ f[j + 1] <= f[m] /\ f[j + 2] <= f[m] /\ f[k] <= f[m]
    BY <1>4, <1>6, <1>8, <2>1
  <2>3. g[k] = f[k] \/ g[k] = f[j + 1] \/ g[k] = f[j + 2]
    BY <1>6
  <2> QED BY <2>2, <2>3
<1>9. ASSUME NEW k \in 1 .. j + 1
      PROVE  g[k] <= g[j + 2]
  <2>1. CASE k = j + 1
    BY <1>6, <2>1
  <2>2. CASE k # j + 1
    <3>1. k \in 1 .. j /\ k \in 1 .. n /\ k # j + 2 /\ j + 1 \in 1 .. n /\ j + 2 \in 1 .. n
      BY <1>1, <2>2
    <3>2. g[k] = f[k] /\ f[k] <= f[j + 1]
      BY <1>5, <1>6, <2>2, <3>1
    <3> QED BY <1>6, <1>7, <3>1, <3>2
  <2> QED BY <2>1, <2>2
<1>10. j' <= count' - 1 - i'
  BY <1>1
<1>11. \A k, m \in 1 .. count' : k < m /\ count' - i' < m => g[k] <= g[m]
  BY <1>1, <1>8
<1>12. \A k \in 1 .. j' : g[k] <= g[j' + 1]
  <2>1. j' + 1 = j + 2
    BY <1>1
  <2> QED BY <1>1, <1>9, <2>1
<1>13. SortedShown'
  BY <1>1 DEF SortedShown
<1> QED BY <1>1, <1>10, <1>11, <1>12, <1>13 DEF Sorting, g

LEMMA SortingNext == Typed /\ Typed' /\ Sorting /\ [Next]_vars => Sorting'
<1> SUFFICES ASSUME Typed, Typed', Sorting, [Next]_vars PROVE Sorting'
  OBVIOUS
<1>1. CASE Sort
  BY <1>1, SortKeeps
<1>2. CASE FillDone
  BY <1>2 DEF FillDone, Sorting, SortedShown, Typed, TypeOK
<1>3. CASE SortPass
  <2>1. filenames \in Seq(Nat) /\ Len(filenames) = count /\ count \in Nat /\ i \in Nat /\ j \in Nat
        /\ j = count - 1 - i /\ i < count - 1 /\ i' = i + 1 /\ j' = 0 /\ count' = count
        /\ filenames' = filenames /\ listed' = listed /\ pc' = "sort"
    <3>1. filenames \in Seq(Names) /\ Len(filenames) = count /\ count \in Nat /\ i \in Nat /\ j \in Nat
      BY <1>3 DEF SortPass, Typed, TypeOK, Phases
    <3>2. filenames \in Seq(Nat)
      BY <3>1, NumbersOnly
    <3> QED BY <1>3, <3>1, <3>2 DEF SortPass
  <2>2. /\ \A k, m \in 1 .. count : k < m /\ count - i < m => filenames[k] <= filenames[m]
        /\ \A k \in 1 .. j : filenames[k] <= filenames[j + 1]
    BY <1>3 DEF SortPass, Sorting
  <2>3. ASSUME NEW k \in 1 .. count, NEW m \in 1 .. count, k < m, count - (i + 1) < m
        PROVE  filenames[k] <= filenames[m]
    <3>1. CASE count - i < m
      BY <2>2, <2>3, <3>1
    <3>2. CASE ~(count - i < m)
      <4>1. m = j + 1 /\ k \in 1 .. j
        BY <2>1, <2>3, <3>2
      <4> QED BY <2>2, <4>1
    <3> QED BY <3>1, <3>2
  <2>4. SortedShown'
    BY <2>1 DEF Sorting, SortedShown
  <2> QED BY <2>1, <2>3, <2>4 DEF Sorting
<1>4. CASE SortDone
  <2>1. filenames \in Seq(Nat) /\ Len(filenames) = count /\ count \in Nat /\ i \in Nat
        /\ i >= count - 1 /\ count' = count /\ filenames' = filenames /\ listed' = listed
        /\ pc = "sort" /\ pc' = "show"
    <3>1. filenames \in Seq(Names) /\ Len(filenames) = count /\ count \in Nat /\ i \in Nat
      BY <1>4 DEF SortDone, Typed, TypeOK, Phases
    <3>2. filenames \in Seq(Nat)
      BY <3>1, NumbersOnly
    <3> QED BY <1>4, <3>1, <3>2 DEF SortDone
  <2>2. \A k, m \in 1 .. count : k < m /\ count - i < m => filenames[k] <= filenames[m]
    BY <2>1 DEF Sorting
  <2>3. ASSUME NEW k \in 1 .. count, NEW m \in 1 .. count, k <= m
        PROVE  filenames[k] <= filenames[m]
    <3>1. CASE k = m
      <4>1. filenames[k] \in Nat
        BY <2>1
      <4> QED BY <3>1, <4>1
    <3>2. CASE k < m
      <4>1. count - i < m
        BY <2>1, <3>2
      <4> QED BY <2>2, <3>2, <4>1
    <3> QED BY <2>3, <3>1, <3>2
  <2>4. SortedShown'
    BY <2>1 DEF Sorting, SortedShown
  <2> QED BY <2>1, <2>3, <2>4 DEF Sorting
<1>5. CASE Show
  <2>1. \A k, m \in 1 .. count : k <= m => filenames[k] <= filenames[m]
    BY <1>5 DEF Show, Sorting
  <2>2. count' = count /\ filenames' = filenames
    BY <1>5 DEF Show
  <2>3. CASE pc' = "ended" /\ listed' = listed
    BY <2>3 DEF Sorting, SortedShown
  <2>4. CASE pc' = "show"
    <3>1. /\ Len(listed') = i' /\ i' <= count' /\ i' \in Nat /\ count' \in Nat
          /\ \A k \in 1 .. i' : listed'[k].name = filenames'[k]
      BY <2>4 DEF Typed, Phases, TypeOK
    <3>2. \A k \in 1 .. i' : k \in 1 .. count'
      BY <3>1
    <3>3. SortedShown'
      BY <2>1, <2>2, <3>1, <3>2 DEF SortedShown
    <3> QED BY <2>1, <2>2, <2>4, <3>3 DEF Sorting
  <2> QED BY <1>5, <2>3, <2>4 DEF Show, Ends
<1>6. CASE pc' \notin {"sort", "show"} /\ listed' = listed
  BY <1>6 DEF Sorting, SortedShown
<1>7. CASE UNCHANGED <<pc, array, listed>>
  BY <1>7 DEF Sorting, SortedShown, array
<1>8. Open \/ OpenFails \/ CountDone \/ Reopen \/ ReopenCrashes \/ FillFails \/ ShowDone \/ Lstat
      \/ Body \/ Usage \/ (\E n \in Names : Count(n) \/ Fill(n))
      => pc' \notin {"sort", "show"} /\ listed' = listed
  BY DEF Open, OpenFails, CountDone, Reopen, ReopenCrashes, FillFails, ShowDone, Lstat, Body, Usage,
         Count, Fill, Ends, outside, stream, array
<1>9. (\E n \in Names : Create(n) \/ Unlink(n)) \/ UNCHANGED vars => UNCHANGED <<pc, array, listed>>
  BY DEF Create, Unlink, vars
<1> QED BY <1>1, <1>2, <1>3, <1>4, <1>5, <1>6, <1>7, <1>8, <1>9 DEF Next, Program

\* The listing is in the order of strcmp(), as far as it goes (lines 180-188).
THEOREM ListingSorted == Spec => []SortedShown
<1>1. Init => Sorting
  BY DEF Init, Sorting, SortedShown
<1>2. Sorting => SortedShown
  BY DEF Sorting
<1> QED BY <1>1, <1>2, SortingNext, TypedAlways, PTL DEF Spec

-----------------------------------------------------------------------------
(* The completeness of the listing. *)

Finites == IsFiniteSet(dir) /\ IsFiniteSet(todo) /\ IsFiniteSet(maybe)

Distinct(f) == \A k, m \in 1 .. Len(f) : f[k] = f[m] => k = m

\* While no file has been created there is room in the array for every name
\* that readdir() may still return, and each is returned once.
Enough ==
  /\ pc = "count" => Cardinality(dir) <= count + Cardinality(todo)
  /\ pc = "reopen" => Cardinality(dir) <= count
  /\ pc = "fill" => /\ i + Cardinality(todo \cup maybe) <= count
                    /\ \A n \in stayed : n \in todo \/ \E k \in 1 .. i : filenames[k] = n
                    /\ \A k \in 1 .. i : filenames[k] \notin todo \cup maybe
  /\ pc \in {"fill", "sort", "show"} => Distinct(filenames)
  /\ pc \in {"sort", "show"} => \A n \in stayed : \E k \in 1 .. count : filenames[k] = n
  /\ err = "done" => \A n \in stayed : \E k \in Lines(n) : Lines(n) = {k}

\* While no file has been removed there is a name for every place in the array,
\* and it is in the directory.
Present ==
  /\ maybe \subseteq dir
  /\ pc = "count" => count + Cardinality(todo \cup maybe) <= Cardinality(dir)
  /\ pc = "reopen" => count <= Cardinality(dir)
  /\ pc = "fill" => count <= i + Cardinality(todo)
  /\ \A k \in 1 .. Len(filenames) : filenames[k] \in dir
  /\ err \in {"readdir", "stat"} => file # <<>>

LEMMA FinitesInit == Init => Finites
<1> SUFFICES ASSUME Init PROVE Finites
  OBVIOUS
<1>1. IsFiniteSet({})
  BY FS_EmptySet
<1> QED BY <1>1, MylsAssumption DEF Init, Finites

LEMMA FinitesNext == Finites /\ [Next]_vars => Finites'
<1> SUFFICES ASSUME Finites, [Next]_vars PROVE Finites'
  OBVIOUS
<1>1. ASSUME NEW n, NEW S, IsFiniteSet(S)
      PROVE  IsFiniteSet(S \cup {n}) /\ IsFiniteSet(S \ {n})
  BY <1>1, FS_AddElement, FS_RemoveElement
<1>2. IsFiniteSet({})
  BY FS_EmptySet
<1>3. CASE Open \/ Reopen
  BY <1>2, <1>3 DEF Open, Reopen, Opendir, Finites, outside
<1>4. ASSUME NEW n \in Names, Count(n) \/ Fill(n) PROVE Finites'
  <2>1. dir' = dir /\ todo' = todo \ {n} /\ maybe' = maybe \ {n}
    BY <1>4 DEF Count, Fill, Readdir, outside
  <2> QED BY <1>1, <2>1 DEF Finites
<1>5. ASSUME NEW n \in Names, Create(n) PROVE Finites'
  BY <1>1, <1>5 DEF Create, Finites
<1>6. ASSUME NEW n \in Names, Unlink(n) PROVE Finites'
  <2>1. dir' = dir \ {n} /\ todo' = todo \ {n} /\ (maybe' = maybe \cup {n} \/ maybe' = maybe)
    <3>1. todo \cap {n} = {n} \/ todo \cap {n} = {}
      OBVIOUS
    <3> QED BY <1>6, <3>1 DEF Unlink
  <2> QED BY <1>1, <2>1 DEF Finites
<1>7. CASE UNCHANGED <<dir, todo, maybe>>
  BY <1>7 DEF Finites
<1>8. OpenFails \/ CountDone \/ ReopenCrashes \/ FillFails \/ FillDone \/ Sort \/ SortPass \/ SortDone
      \/ Show \/ ShowDone \/ Lstat \/ Body \/ Usage \/ UNCHANGED vars => UNCHANGED <<dir, todo, maybe>>
  BY DEF OpenFails, CountDone, ReopenCrashes, FillFails, FillDone, Sort, SortPass, SortDone, Show,
         ShowDone, Lstat, Body, Usage, vars, outside, stream
<1> QED BY <1>3, <1>4, <1>5, <1>6, <1>7, <1>8 DEF Next, Program

LEMMA SortPermutes ==
  ASSUME Typed, Sort
  PROVE  /\ Len(filenames') = Len(filenames) /\ Len(filenames) = count
         /\ Distinct(filenames) => Distinct(filenames')
         /\ \A k \in 1 .. count : \E m \in 1 .. count : filenames'[m] = filenames[k]
         /\ \A m \in 1 .. count : \E k \in 1 .. count : filenames'[m] = filenames[k]
<1>1. filenames \in Seq(Names) /\ Len(filenames) = count
  BY DEF Typed, TypeOK, Phases, Sort
<1>2. CASE filenames' = filenames
  BY <1>1, <1>2
<1>3. CASE filenames' = Swapped
  <2> DEFINE a == j + 1
             b == j + 2
  <2>1. a \in 1 .. Len(filenames) /\ b \in 1 .. Len(filenames) /\ a # b
    BY <1>1 DEF Sort, Typed, TypeOK
  <2>2. filenames' = [filenames EXCEPT ![a] = filenames[b], ![b] = filenames[a]]
    BY <1>3 DEF Swapped
  <2> DEFINE f == filenames
             g == filenames'
  <2>3. f \in Seq(Names) /\ a \in 1 .. Len(f) /\ b \in 1 .. Len(f) /\ g = [f EXCEPT ![a] = f[b], ![b] = f[a]]
    BY <1>1, <2>1, <2>2
  <2> HIDE DEF a, b, f, g
  <2>4. /\ Len(g) = Len(f) /\ g[b] = f[a] /\ g[a] = f[b]
        /\ \A k \in 1 .. Len(f) : k # a /\ k # b => g[k] = f[k]
    BY <2>1, <2>3, SwapTyped
  <2>5. ASSUME NEW k \in 1 .. Len(f) PROVE \E m \in 1 .. Len(f) : g[m] = f[k]
    BY <2>3, <2>4
  <2>6. ASSUME NEW m \in 1 .. Len(f) PROVE \E k \in 1 .. Len(f) : g[m] = f[k]
    BY <2>3, <2>4
  <2>7. Distinct(f) => Distinct(g)
    <3> SUFFICES ASSUME Distinct(f), NEW k \in 1 .. Len(f), NEW m \in 1 .. Len(f), g[k] = g[m]
                 PROVE  k = m
      BY <2>4 DEF Distinct
    <3> QED BY <2>3, <2>4 DEF Distinct
  <2>8. Len(f) = count
    BY <1>1 DEF f
  <2> QED BY <2>4, <2>5, <2>6, <2>7, <2>8 DEF f, g
<1> QED BY <1>2, <1>3 DEF Sort

LEMMA PresentNext ==
  ASSUME Typed, Typed', Finites, Finites', ~removed => Present, [Next]_vars, ~removed'
  PROVE  Present'
<1>1. ~removed
  BY DEF Next, Program, Open, OpenFails, CountDone, Reopen, ReopenCrashes, FillFails, FillDone, Sort,
         SortPass, SortDone, Show, ShowDone, Lstat, Body, Usage, Count, Fill, Create, Unlink, vars, outside
<1>2. Present
  BY <1>1
<1>3. ASSUME NEW S, IsFiniteSet(S), NEW n
      PROVE  /\ Cardinality(S) \in Nat
             /\ Cardinality(S \cup {n}) = IF n \in S THEN Cardinality(S) ELSE Cardinality(S) + 1
             /\ Cardinality(S \ {n}) = IF n \in S THEN Cardinality(S) - 1 ELSE Cardinality(S)
  BY <1>3, FS_CardinalityType, FS_AddElement, FS_RemoveElement
<1>4. IsFiniteSet(dir) /\ IsFiniteSet(todo) /\ IsFiniteSet(todo \cup maybe)
  BY FS_Union DEF Finites
<1>5. CASE Open \/ Reopen
  <2>1. todo' = dir /\ maybe' = {} /\ dir' = dir /\ filenames' = <<>> /\ count' = count /\ i' = 0 /\ err' = err
        /\ (pc = "open" => pc' = "count" /\ count = 0) /\ (pc = "reopen" => pc' = "fill") /\ file' = file
        /\ pc \in {"open", "reopen"} /\ err = "running"
    BY <1>5 DEF Open, Reopen, Opendir, outside, array, detail, Typed, Phases
  <2>2. todo' \cup maybe' = dir
    BY <2>1
  <2>3. Cardinality(dir) \in Nat
    BY <1>3, <1>4
  <2> QED BY <1>2, <2>1, <2>2, <2>3 DEF Present
<1>6. CASE CountDone
  <2>1. todo = {} /\ pc = "count" /\ pc' = "reopen" /\ UNCHANGED <<dir, todo, maybe, count, filenames, err, file>>
    BY <1>6 DEF CountDone, AtEnd, outside, stream, array, detail
  <2>2. count + Cardinality(todo \cup maybe) <= Cardinality(dir)
    BY <1>2, <2>1 DEF Present
  <2>3. Cardinality(todo \cup maybe) \in Nat /\ Cardinality(dir) \in Nat /\ count \in Nat
    BY <1>3, <1>4 DEF Typed, TypeOK
  <2> QED BY <1>2, <2>1, <2>2, <2>3 DEF Present
<1>7. ASSUME NEW n \in Names, Count(n) PROVE Present'
  <2>1. /\ pc = "count" /\ n \in todo \cup maybe /\ count' = count + 1
        /\ todo' \cup maybe' = (todo \cup maybe) \ {n} /\ maybe' \subseteq maybe
        /\ UNCHANGED <<pc, dir, filenames, err, file>>
    BY <1>7 DEF Count, Readdir, outside, detail
  <2>2. count + Cardinality(todo \cup maybe) <= Cardinality(dir)
    BY <1>2, <2>1 DEF Present
  <2>3. Cardinality((todo \cup maybe) \ {n}) = Cardinality(todo \cup maybe) - 1
        /\ Cardinality(todo \cup maybe) \in Nat /\ Cardinality(dir) \in Nat /\ count \in Nat
    BY <1>3, <1>4, <2>1 DEF Typed, TypeOK
  <2>4. count' + Cardinality(todo' \cup maybe') <= Cardinality(dir')
    BY <2>1, <2>2, <2>3
  <2> QED BY <1>2, <2>1, <2>4 DEF Present
<1>8. ASSUME NEW n \in Names, Fill(n) PROVE Present'
  <2>1. /\ pc = "fill" /\ n \in todo \cup maybe /\ i' = i + 1 /\ filenames' = Append(filenames, n)
        /\ todo' = todo \ {n} /\ maybe' \subseteq maybe
        /\ UNCHANGED <<pc, dir, count, err, file>>
    BY <1>8 DEF Fill, Readdir, outside, detail
  <2>2. count <= i + Cardinality(todo) /\ n \in dir
    BY <1>2, <2>1 DEF Present, Typed, TypeOK
  <2>3. Cardinality(todo') >= Cardinality(todo) - 1 /\ Cardinality(todo) \in Nat /\ Cardinality(todo') \in Nat
    <3>1. /\ Cardinality(todo) \in Nat
          /\ Cardinality(todo \ {n}) = IF n \in todo THEN Cardinality(todo) - 1 ELSE Cardinality(todo)
      BY <1>3, <1>4
    <3>2. Cardinality(todo') \in Nat
      BY FS_CardinalityType DEF Finites
    <3> QED BY <2>1, <3>1, <3>2
  <2>4. count' <= i' + Cardinality(todo')
    <3>1. i \in Nat /\ count \in Nat
      BY DEF Typed, TypeOK
    <3>2. count' = count /\ i' = i + 1
      BY <2>1
    <3> QED BY <2>2, <2>3, <3>1, <3>2
  <2>5. \A k \in 1 .. Len(filenames') : filenames'[k] \in dir'
    <3>1. filenames \in Seq(Names)
      BY DEF Typed, TypeOK
    <3>2. \A k \in 1 .. Len(filenames) : filenames[k] \in dir
      BY <1>2 DEF Present
    <3>3. dir' = dir /\ Len(filenames') = Len(filenames) + 1 /\ filenames'[Len(filenames) + 1] = n
          /\ \A k \in 1 .. Len(filenames) : filenames'[k] = filenames[k]
      BY <2>1, <3>1
    <3>4. \A k \in 1 .. Len(filenames) + 1 : k \in 1 .. Len(filenames) \/ k = Len(filenames) + 1
      BY <3>1
    <3> QED BY <2>2, <3>2, <3>3, <3>4
  <2> QED BY <1>2, <2>1, <2>4, <2>5 DEF Present
<1>9. CASE FillFails
  <2>1. count <= i + Cardinality(todo) /\ todo = {} /\ i < count /\ i \in Nat
    BY <1>2, <1>9 DEF FillFails, AtEnd, Present, Typed, TypeOK
  <2> QED BY <2>1, FS_EmptySet DEF Typed, TypeOK
<1>10. CASE Sort
  <2>1. \A k \in 1 .. Len(filenames') : filenames'[k] \in dir
    BY <1>2, <1>10, SortPermutes DEF Present
  <2> QED BY <1>2, <1>10, <2>1 DEF Sort, Present, outside, stream, detail
<1>11. CASE Show
  <2>1. i + 1 \in 1 .. Len(filenames)
    BY <1>11 DEF Show, Typed, TypeOK, Phases
  <2>2. filenames[i + 1] \in dir
    BY <1>2, <2>1 DEF Present
  <2>3. UNCHANGED <<dir, maybe, filenames, file>> /\ pc' \in {"show", "ended"} /\ (err' = err \/ err' = "crash")
    BY <1>11, <2>2 DEF Show, Ends, outside, stream, detail
  <2> QED BY <1>2, <2>3 DEF Present
<1>12. CASE Lstat
  <2>1. file \in File /\ file' = file /\ pc' \in {"ended", "body"} /\ UNCHANGED <<dir, maybe, filenames>>
    BY <1>12 DEF Lstat, Ends, Typed, Phases, outside, stream, array
  <2>2. file # <<>>
    BY <2>1 DEF File
  <2> QED BY <1>2, <2>1, <2>2 DEF Present
<1>13. ASSUME NEW n \in Names, Create(n) PROVE Present'
  <2>1. /\ dir' = dir \cup {n} /\ n \notin dir /\ todo' = todo /\ maybe' = maybe \cup {n}
        /\ UNCHANGED <<pc, count, filenames, i, err, file>>
    BY <1>13 DEF Create, array, detail
  <2>2. todo' \cup maybe' = (todo \cup maybe) \cup {n}
    BY <2>1
  <2>3. Cardinality(dir') = Cardinality(dir) + 1 /\ Cardinality(dir) \in Nat /\ count \in Nat
        /\ Cardinality(todo \cup maybe) \in Nat
        /\ Cardinality(todo' \cup maybe') \in Nat
        /\ Cardinality(todo' \cup maybe') <= Cardinality(todo \cup maybe) + 1
    <3> DEFINE U == todo \cup maybe
               V == todo' \cup maybe'
    <3>1. V = U \cup {n} /\ IsFiniteSet(U)
      BY <1>4, <2>2
    <3> HIDE DEF U, V
    <3>2. /\ Cardinality(U) \in Nat
          /\ Cardinality(V) = IF n \in U THEN Cardinality(U) ELSE Cardinality(U) + 1
      BY <1>3, <3>1
    <3>3. Cardinality(dir') = Cardinality(dir) + 1 /\ Cardinality(dir) \in Nat
      BY <1>3, <1>4, <2>1
    <3>4. count \in Nat
      BY DEF Typed, TypeOK
    <3>5. Cardinality(V) \in Nat /\ Cardinality(V) <= Cardinality(U) + 1
      BY <3>2
    <3> QED BY <3>2, <3>3, <3>4, <3>5 DEF U, V
  <2>4. pc' = "count" => count' + Cardinality(todo' \cup maybe') <= Cardinality(dir')
    BY <1>2, <2>1, <2>3 DEF Present
  <2>5. pc' = "reopen" => count' <= Cardinality(dir')
    BY <1>2, <2>1, <2>3 DEF Present
  <2> QED BY <1>2, <2>1, <2>4, <2>5 DEF Present
<1>14. ASSUME NEW n \in Names, Unlink(n) PROVE Present'
  BY <1>14 DEF Unlink
<1>15. CASE /\ UNCHANGED <<dir, maybe, filenames, file>>
            /\ \/ pc' \notin {"count", "reopen", "fill"}
               \/ UNCHANGED <<pc, todo, count, i>>
            /\ err' \in {"opendir", "crash", "done"} \/ err' = err
  BY <1>2, <1>15 DEF Present
<1>16. OpenFails \/ ReopenCrashes \/ FillDone \/ SortPass \/ SortDone \/ ShowDone \/ Body \/ Usage
       \/ UNCHANGED vars =>
         /\ UNCHANGED <<dir, maybe, filenames, file>>
         /\ \/ pc' \notin {"count", "reopen", "fill"}
            \/ UNCHANGED <<pc, todo, count, i>>
         /\ err' \in {"opendir", "crash", "done"} \/ err' = err
  BY DEF OpenFails, ReopenCrashes, FillDone, SortPass, SortDone, ShowDone, Body, Usage, Ends, vars,
         outside, stream, array, detail
<1> QED BY <1>5, <1>6, <1>7, <1>8, <1>9, <1>10, <1>11, <1>12, <1>13, <1>14, <1>15, <1>16
        DEF Next, Program

LEMMA EnoughNext ==
  ASSUME Typed, Typed', Finites, Finites', ~created => Enough, [Next]_vars, ~created'
  PROVE  Enough'
<1>1. ~created
  BY DEF Next, Program, Open, OpenFails, CountDone, Reopen, ReopenCrashes, FillFails, FillDone, Sort,
         SortPass, SortDone, Show, ShowDone, Lstat, Body, Usage, Count, Fill, Create, Unlink, vars, outside
<1>2. Enough
  BY <1>1
<1>3. ASSUME NEW S, IsFiniteSet(S), NEW n
      PROVE  /\ Cardinality(S) \in Nat
             /\ Cardinality(S \ {n}) = IF n \in S THEN Cardinality(S) - 1 ELSE Cardinality(S)
  BY <1>3, FS_CardinalityType, FS_RemoveElement
<1>4. IsFiniteSet(dir) /\ IsFiniteSet(todo) /\ IsFiniteSet(todo \cup maybe)
  BY FS_Union DEF Finites
<1>5. Cardinality(dir) \in Nat /\ Cardinality(todo) \in Nat /\ Cardinality(todo \cup maybe) \in Nat
  BY <1>3, <1>4
<1>6. CASE Open
  <2>1. pc' = "count" /\ todo' = dir /\ dir' = dir /\ count' = 0 /\ err' = "running"
    BY <1>6 DEF Open, Opendir, outside, array, Typed, Phases
  <2> QED BY <1>5, <2>1 DEF Enough
<1>7. ASSUME NEW n \in Names, Count(n) PROVE Enough'
  <2>1. pc = "count" /\ todo' = todo \ {n} /\ count' = count + 1 /\ UNCHANGED <<pc, dir, err>> /\ err = "running"
    BY <1>7 DEF Count, Readdir, outside, Typed, Phases
  <2>2. Cardinality(dir) <= count + Cardinality(todo) /\ count \in Nat
    BY <1>2, <2>1 DEF Enough, Typed, TypeOK
  <2>3. Cardinality(todo') >= Cardinality(todo) - 1 /\ Cardinality(todo') \in Nat
    <3>1. Cardinality(todo \ {n}) = IF n \in todo THEN Cardinality(todo) - 1 ELSE Cardinality(todo)
      BY <1>3, <1>4
    <3>2. Cardinality(todo') \in Nat
      BY FS_CardinalityType DEF Finites
    <3> QED BY <1>5, <2>1, <3>1, <3>2
  <2>4. Cardinality(dir') <= count' + Cardinality(todo')
    BY <1>5, <2>1, <2>2, <2>3
  <2> QED BY <2>1, <2>4 DEF Enough
<1>8. CASE CountDone
  <2>1. pc = "count" /\ pc' = "reopen" /\ todo = {} /\ UNCHANGED <<dir, count, err>> /\ err = "running"
    BY <1>8 DEF CountDone, AtEnd, outside, array, Typed, Phases
  <2>2. Cardinality(todo) = 0 /\ count \in Nat
    BY <2>1, FS_EmptySet DEF Typed, TypeOK
  <2> QED BY <1>2, <1>5, <2>1, <2>2 DEF Enough
<1>9. CASE Reopen
  <2>1. /\ pc = "reopen" /\ pc' = "fill" /\ todo' = dir /\ maybe' = {} /\ i' = 0 /\ filenames' = <<>>
        /\ UNCHANGED <<dir, stayed, count, err>> /\ err = "running" /\ stayed \subseteq dir
    BY <1>9 DEF Reopen, Opendir, outside, array, Typed, TypeOK, Phases
  <2>2. todo' \cup maybe' = dir
    BY <2>1
  <2>3. Cardinality(dir) <= count /\ Distinct(filenames')
    BY <1>2, <2>1 DEF Enough, Distinct
  <2> QED BY <1>5, <2>1, <2>2, <2>3 DEF Enough
<1>10. ASSUME NEW n \in Names, Fill(n) PROVE Enough'
  <2> DEFINE U == todo \cup maybe
             V == todo' \cup maybe'
  <2>1. /\ pc = "fill" /\ n \in U /\ i' = i + 1 /\ filenames' = Append(filenames, n)
        /\ todo' = todo \ {n} /\ V = U \ {n}
        /\ UNCHANGED <<pc, stayed, count, err>> /\ err = "running"
    BY <1>10 DEF Fill, Readdir, outside, Typed, Phases
  <2>2. /\ i + Cardinality(U) <= count
        /\ \A m \in stayed : m \in todo \/ \E k \in 1 .. i : filenames[k] = m
        /\ \A k \in 1 .. i : filenames[k] \notin U
        /\ Distinct(filenames)
    BY <1>2, <2>1 DEF Enough
  <2>3. filenames \in Seq(Names) /\ Len(filenames) = i /\ i \in Nat /\ count \in Nat
    BY <2>1 DEF Typed, TypeOK, Phases
  <2>4. i' + Cardinality(V) <= count'
    <3>1. IsFiniteSet(U)
      BY <1>4
    <3> HIDE DEF U, V
    <3>2. Cardinality(U \ {n}) = Cardinality(U) - 1 /\ Cardinality(U) \in Nat
      BY <1>3, <2>1, <3>1
    <3> QED BY <2>1, <2>2, <2>3, <3>2
  <2> HIDE DEF U, V
  <2>5. /\ Len(filenames') = i + 1 /\ filenames'[i + 1] = n
        /\ \A k \in 1 .. i : filenames'[k] = filenames[k]
        /\ \A k \in 1 .. i + 1 : k \in 1 .. i \/ k = i + 1
    BY <2>1, <2>3
  <2>6. ASSUME NEW m \in stayed', m \notin todo'
        PROVE  \E k \in 1 .. i' : filenames'[k] = m
    <3>1. CASE m = n
      <4>1. i + 1 \in 1 .. i'
        BY <2>1, <2>3
      <4> QED BY <2>5, <3>1, <4>1
    <3>2. CASE m # n
      <4>1. PICK k \in 1 .. i : filenames[k] = m
        BY <2>1, <2>2, <2>6, <3>2
      <4>2. k \in 1 .. i'
        BY <2>1, <2>3
      <4> QED BY <2>5, <4>1, <4>2
    <3> QED BY <3>1, <3>2
  <2>7. ASSUME NEW k \in 1 .. i' PROVE filenames'[k] \notin V
    BY <2>1, <2>2, <2>5
  <2>8. Distinct(filenames')
    <3> SUFFICES ASSUME NEW k \in 1 .. i + 1, NEW m \in 1 .. i + 1, filenames'[k] = filenames'[m]
                 PROVE  k = m
      BY <2>5 DEF Distinct
    <3> QED BY <2>1, <2>2, <2>3, <2>5 DEF Distinct
  <2> QED BY <2>1, <2>4, <2>6, <2>7, <2>8 DEF Enough, V
<1>11. CASE FillDone
  <2>1. /\ pc = "fill" /\ i = count /\ pc' = "sort" /\ i \in Nat /\ err = "running"
        /\ UNCHANGED <<stayed, count, filenames, err>>
    BY <1>11 DEF FillDone, outside, Typed, TypeOK, Phases
  <2>2. Cardinality(todo \cup maybe) = 0
    BY <1>2, <1>5, <2>1 DEF Enough
  <2>3. todo = {}
    BY <1>4, <2>2, FS_EmptySet
  <2>4. \A n \in stayed : \E k \in 1 .. count : filenames[k] = n
    BY <1>2, <2>1, <2>3 DEF Enough
  <2> QED BY <1>2, <2>1, <2>4 DEF Enough
<1>12. CASE Sort
  <2>1. pc = "sort" /\ pc' = "sort" /\ UNCHANGED <<stayed, count, err>> /\ err = "running"
    BY <1>12 DEF Sort, outside, Typed, Phases
  <2>2. /\ Distinct(filenames) => Distinct(filenames')
        /\ \A k \in 1 .. count : \E m \in 1 .. count : filenames'[m] = filenames[k]
    BY <1>12, SortPermutes
  <2>3. ASSUME NEW n \in stayed PROVE \E m \in 1 .. count : filenames'[m] = n
    <3>1. PICK k \in 1 .. count : filenames[k] = n
      BY <1>2, <2>1 DEF Enough
    <3> QED BY <2>2, <3>1
  <2> QED BY <1>2, <2>1, <2>2, <2>3 DEF Enough
<1>13. CASE SortPass \/ SortDone \/ Show
  <2>1. /\ pc \in {"sort", "show"} /\ pc' \in {"sort", "show", "ended"}
        /\ UNCHANGED <<stayed, count, filenames>> /\ err' # "done"
    BY <1>13 DEF SortPass, SortDone, Show, Ends, outside, Typed, Phases
  <2> QED BY <1>2, <2>1 DEF Enough
<1>14. CASE ShowDone
  <2>1. /\ pc = "show" /\ pc' = "ended" /\ i = count /\ UNCHANGED <<stayed, listed>>
        /\ Len(listed) = i /\ Len(filenames) = count /\ \A k \in 1 .. i : listed[k].name = filenames[k]
    BY <1>14 DEF ShowDone, Ends, outside, Typed, Phases
  <2>2. Distinct(filenames) /\ \A n \in stayed : \E k \in 1 .. count : filenames[k] = n
    BY <1>2, <2>1 DEF Enough
  <2>3. ASSUME NEW n \in stayed' PROVE \E k \in Lines(n)' : Lines(n)' = {k}
    <3>1. PICK k \in 1 .. count : filenames[k] = n
      BY <2>1, <2>2
    <3>2. ASSUME NEW m \in 1 .. count, filenames[m] = n PROVE m = k
      BY <2>1, <2>2, <3>1, <3>2 DEF Distinct
    <3>3. Lines(n)' = {m \in 1 .. count : filenames[m] = n}
      BY <2>1 DEF Lines
    <3> QED BY <3>1, <3>2, <3>3
  <2> QED BY <2>1, <2>3 DEF Enough
<1>15. CASE Lstat \/ Body \/ Usage
  <2>1. stayed' = {} /\ pc' \in {"body", "ended"}
    BY <1>15 DEF Lstat, Body, Usage, Ends, outside, Typed, Phases
  <2> QED BY <2>1 DEF Enough
<1>16. ASSUME NEW n \in Names, Create(n) PROVE Enough'
  BY <1>16 DEF Create
<1>17. ASSUME NEW n \in Names, Unlink(n) PROVE Enough'
  <2>1. /\ n \in dir /\ dir' = dir \ {n} /\ stayed' = stayed \ {n} /\ todo' = todo \ {n}
        /\ maybe' = maybe \cup (todo \cap {n}) /\ todo' \cup maybe' = todo \cup maybe
        /\ UNCHANGED <<pc, count, filenames, i, err>> /\ err = "running"
    BY <1>17 DEF Unlink, Listing, array, Typed, Phases
  <2>2. Cardinality(dir') = Cardinality(dir) - 1 /\ Cardinality(todo') >= Cardinality(todo) - 1
        /\ Cardinality(todo') \in Nat /\ Cardinality(dir') \in Nat
    <3>1. Cardinality(todo \ {n}) = IF n \in todo THEN Cardinality(todo) - 1 ELSE Cardinality(todo)
      BY <1>3, <1>4
    <3>2. Cardinality(dir \ {n}) = Cardinality(dir) - 1
      BY <1>3, <1>4, <2>1
    <3>3. Cardinality(todo') \in Nat /\ Cardinality(dir') \in Nat
      BY FS_CardinalityType DEF Finites
    <3> QED BY <1>5, <2>1, <3>1, <3>2, <3>3
  <2>3. count \in Nat
    BY DEF Typed, TypeOK
  <2>4. pc' = "count" => Cardinality(dir') <= count' + Cardinality(todo')
    BY <1>2, <1>5, <2>1, <2>2, <2>3 DEF Enough
  <2>5. pc' = "reopen" => Cardinality(dir') <= count'
    BY <1>2, <1>5, <2>1, <2>2, <2>3 DEF Enough
  <2>6. pc' = "fill" => \A m \in stayed' : m \in todo' \/ \E k \in 1 .. i' : filenames'[k] = m
    BY <1>2, <2>1 DEF Enough
  <2>7. pc' = "fill" => /\ i' + Cardinality(todo' \cup maybe') <= count'
                       /\ \A k \in 1 .. i' : filenames'[k] \notin todo' \cup maybe'
    BY <1>2, <2>1 DEF Enough
  <2>8. pc' \in {"sort", "show"} => \A m \in stayed' : \E k \in 1 .. count' : filenames'[k] = m
    BY <1>2, <2>1 DEF Enough
  <2>9. pc' \in {"fill", "sort", "show"} => Distinct(filenames')
    BY <1>2, <2>1 DEF Enough
  <2> QED BY <2>1, <2>4, <2>5, <2>6, <2>7, <2>8, <2>9 DEF Enough
<1>18. CASE OpenFails \/ ReopenCrashes \/ FillFails
  <2>1. pc' = "ended" /\ err' # "done"
    BY <1>18 DEF OpenFails, ReopenCrashes, FillFails, Ends
  <2> QED BY <2>1 DEF Enough
<1>19. CASE UNCHANGED vars
  BY <1>2, <1>19 DEF vars, outside, stream, array, Enough, Lines
<1> QED BY <1>6, <1>7, <1>8, <1>9, <1>10, <1>11, <1>12, <1>13, <1>14, <1>15, <1>16, <1>17, <1>18, <1>19
        DEF Next, Program

\* A listing that is completed while files were only removed shows every file
\* that stayed, once; files that are only created never stop it (lines 57, 172).
THEOREM ListingComplete == Spec => []NothingForgotten
<1> DEFINE K == (~created => Enough) /\ (~removed => Present)
<1>1. Init => K
  <2> SUFFICES ASSUME Init PROVE Enough /\ Present
    OBVIOUS
  <2>1. Enough
    BY DEF Init, Enough
  <2>2. Present
    BY DEF Init, Present
  <2> QED BY <2>1, <2>2
<1>2. Typed /\ Typed' /\ Finites /\ Finites' /\ K /\ [Next]_vars => K'
  BY EnoughNext, PresentNext
<1>3. K => NothingForgotten
  BY DEF Enough, Present, NothingForgotten
<1> HIDE DEF K
<1> QED BY <1>1, <1>2, <1>3, FinitesInit, FinitesNext, TypedAlways, PTL DEF Spec

-----------------------------------------------------------------------------
(* The beginning of a file. *)

\* After c newlines the loop of lines 281-293 has printed the first k characters of t.
Counts(t, k, c) ==
  /\ c = 0 => Newlines(t, k) = {}
  /\ c = 1 => \E a \in Newlines(t, k) : Newlines(t, k) = {a}

\* The character z was read at position p and is the next to print, after k.
Reads(t, z, p, k) ==
  /\ p \in 0 .. Len(t)
  /\ IF z = "EOF" THEN p = Len(t) /\ k = p ELSE p \in 1 .. Len(t) /\ z = t[p] /\ k = p - 1

\* The first k characters of t are printed, and at its end maybe bytes of EOF.
Prints(t, o, z, k) ==
  IF z = "EOF" THEN Len(o) \in Nat /\ Len(o) >= k /\ \A q \in 1 .. Len(o) : o[q] = Getc(q - 1)
               ELSE o = SubSeq(t, 1, k)

Reading ==
  /\ out \in Seq({"x", "\n", "EOF"})
  /\ pc = "body" => \E k \in 0 .. Len(Text) : /\ Prints(Text, out, znak, k)
                                             /\ Reads(Text, znak, pos, k)
                                             /\ Counts(Text, k, counter)
  /\ pc = "ended" /\ out # <<>> => out \in Head2(Text) /\ file \in File

LEMMA TextTyped ==
  ASSUME file \in File PROVE Text \in Seq({"x", "\n"})
BY MylsAssumption DEF Text, File

LEMMA Extend ==
  ASSUME NEW S, NEW t \in Seq(S), NEW k \in Nat, k < Len(t)
  PROVE  /\ Append(SubSeq(t, 1, k), t[k + 1]) = SubSeq(t, 1, k + 1)
         /\ t[k + 1] # "\n" => Newlines(t, k + 1) = Newlines(t, k)
         /\ t[k + 1] = "\n" => Newlines(t, k + 1) = Newlines(t, k) \cup {k + 1}
<1>1. SubSeq(t, 1, k) \in Seq(S) /\ SubSeq(t, 1, k + 1) \in Seq(S) /\ t[k + 1] \in S
      /\ Len(SubSeq(t, 1, k)) = k /\ Len(SubSeq(t, 1, k + 1)) = k + 1
  OBVIOUS
<1>2. Append(SubSeq(t, 1, k), t[k + 1]) = SubSeq(t, 1, k + 1)
  OBVIOUS
<1>3. \A m \in 1 .. k + 1 : m \in 1 .. k \/ m = k + 1
  OBVIOUS
<1>4. \A m \in 1 .. k : m \in 1 .. k + 1
  OBVIOUS
<1>5. k + 1 \in 1 .. k + 1
  OBVIOUS
<1> QED BY <1>2, <1>3, <1>4, <1>5 DEF Newlines

\* What getc() leaves for the next round.
LEMMA NextChar ==
  ASSUME NEW t \in Seq({"x", "\n"}), Text = t, NEW p \in 0 .. Len(t)
  PROVE  Reads(t, Getc(p), After(p), p)
<1>1. CASE p < Len(t)
  <2>1. Getc(p) = t[p + 1] /\ After(p) = p + 1
    BY <1>1 DEF Getc, After
  <2>2. t[p + 1] # "EOF" /\ p + 1 \in 1 .. Len(t)
    BY <1>1
  <2> QED BY <2>1, <2>2 DEF Reads
<1>2. CASE ~(p < Len(t))
  <2>1. Getc(p) = "EOF" /\ After(p) = p /\ p = Len(t)
    BY <1>2 DEF Getc, After
  <2> QED BY <2>1 DEF Reads
<1> QED BY <1>1, <1>2

\* A beginning of the text is what getc() returned.
LEMMA BeginningRead ==
  ASSUME NEW t \in Seq({"x", "\n"}), Text = t, NEW k \in 0 .. Len(t)
  PROVE  /\ Len(SubSeq(t, 1, k)) = k /\ SubSeq(t, 1, k) \in Seq({"x", "\n", "EOF"})
         /\ \A q \in 1 .. k : SubSeq(t, 1, k)[q] = Getc(q - 1)
<1>1. Len(SubSeq(t, 1, k)) = k /\ SubSeq(t, 1, k) \in Seq({"x", "\n", "EOF"})
  OBVIOUS
<1>2. ASSUME NEW q \in 1 .. k PROVE SubSeq(t, 1, k)[q] = Getc(q - 1)
  <2>1. SubSeq(t, 1, k)[q] = t[q] /\ q - 1 < Len(t) /\ (q - 1) + 1 = q
    OBVIOUS
  <2> QED BY <2>1 DEF Getc
<1> QED BY <1>1, <1>2

\* Before the second newline the text printed is shorter than the first two lines.
LEMMA Shorter ==
  ASSUME NEW t \in Seq({"x", "\n"}), NEW k \in 0 .. Len(t), NEW c \in 0 .. 1, Counts(t, k, c),
         NEW h \in Head2(t)
  PROVE  k < Len(h) /\ Len(h) <= Len(t)
<1>1. PICK m \in 1 .. Len(t) : /\ t[m] = "\n" /\ h = SubSeq(t, 1, m)
                               /\ \E a \in Newlines(t, m - 1) : Newlines(t, m - 1) = {a}
  BY DEF Head2
<1>2. Len(h) = m
  BY <1>1
<1>3. PICK a \in 1 .. m - 1 : t[a] = "\n"
  BY <1>1 DEF Newlines
<1>4. ASSUME m <= k PROVE FALSE
  <2>1. a \in Newlines(t, k) /\ m \in Newlines(t, k) /\ a # m
    BY <1>1, <1>3, <1>4 DEF Newlines
  <2> QED BY <2>1 DEF Counts
<1> QED BY <1>2, <1>4

\* A round that prints a newline after the first k characters.
LEMMA NewlinePrinted ==
  ASSUME NEW t \in Seq({"x", "\n"}), NEW k \in Nat, k < Len(t), t[k + 1] = "\n",
         NEW c \in 0 .. 1, Counts(t, k, c)
  PROVE  /\ Counts(t, k + 1, c + 1)
         /\ c + 1 = 2 => SubSeq(t, 1, k + 1) \in Head2(t)
<1>1. Newlines(t, k + 1) = Newlines(t, k) \cup {k + 1}
  BY Extend
<1>2. c = 0 => Newlines(t, k + 1) = {k + 1}
  BY <1>1 DEF Counts
<1>3. ASSUME c = 1 PROVE SubSeq(t, 1, k + 1) \in Head2(t)
  <2>1. k + 1 \in 1 .. Len(t) /\ (k + 1) - 1 = k
    OBVIOUS
  <2>2. \E a \in Newlines(t, k) : Newlines(t, k) = {a}
    BY <1>3 DEF Counts
  <2> QED BY <2>1, <2>2 DEF Head2
<1> QED BY <1>2, <1>3 DEF Counts

LEMMA BodyReads ==
  ASSUME Typed, Typed', Reading, Body PROVE Reading'
<1> DEFINE t == Text
<1>1. file' = file /\ t' = t /\ file \in File /\ file' \in File /\ counter \in 0 .. 1 /\ pc = "body"
  BY DEF Body, Text, Typed, Phases
<1>2. t \in Seq({"x", "\n"})
  BY <1>1, TextTyped
<1>3. PICK k \in 0 .. Len(t) : Prints(t, out, znak, k) /\ Reads(t, znak, pos, k) /\ Counts(t, k, counter)
  BY <1>1 DEF Reading
<1>7. out \in Seq({"x", "\n", "EOF"})
  BY DEF Reading
<1>8. Head2(t)' = Head2(t) /\ Text' = t /\ \A q : Getc(q)' = Getc(q)
  BY <1>1 DEF Head2, Newlines, Getc
<1>4. ASSUME NEW q \in Nat, q < Len(t), t[q + 1] = "\n", Counts(t, q, counter),
             out' = SubSeq(t, 1, q + 1), counter' = counter + 1,
             znak' = Getc(q + 1), pos' = After(q + 1)
      PROVE  Reading'
  <2>1. q + 1 \in 0 .. Len(t)
    BY <1>2, <1>4
  <2>2. Reads(t, znak', pos', q + 1)
    BY <1>2, <1>4, <2>1, NextChar
  <2>3. Counts(t, q + 1, counter') /\ (counter' = 2 => out' \in Head2(t))
    BY <1>1, <1>2, <1>4, NewlinePrinted
  <2>4. pc' = "ended" => counter' = 2
    BY <1>1 DEF Body
  <2>5. /\ out' \in Seq({"x", "\n", "EOF"}) /\ Len(out') = q + 1
        /\ \A r \in 1 .. q + 1 : out'[r] = Getc(r - 1)
    BY <1>2, <1>4, <2>1, BeginningRead
  <2>6. Prints(t, out, znak, q + 1)'
    BY <1>4, <1>8, <2>5 DEF Prints
  <2>7. t' = t
    BY <1>1
  <2> HIDE DEF t
  <2>8. Reads(t, znak, pos, q + 1)' /\ (pc' = "body" => Counts(t, q + 1, counter)')
    BY <2>2, <2>3, <2>7 DEF Reads, Counts, Newlines
  <2> QED BY <1>1, <1>8, <2>1, <2>3, <2>4, <2>5, <2>6, <2>8 DEF Reading
<1>5. CASE znak = "\n"
  <2>1. pos \in 1 .. Len(t) /\ t[pos] = "\n" /\ k = pos - 1 /\ pos = k + 1 /\ k < Len(t) /\ k \in Nat
        /\ out = SubSeq(t, 1, k)
    BY <1>2, <1>3, <1>5 DEF Reads, Prints
  <2>2. out' = Append(out, "\n") /\ counter' = counter + 1 /\ znak' = Getc(pos) /\ pos' = After(pos)
    BY <1>5 DEF Body, Seen, SeenAt, Printed
  <2>3. out' = SubSeq(t, 1, k + 1)
    BY <1>2, <1>3, <2>1, <2>2, Extend
  <2> QED BY <1>3, <1>4, <2>1, <2>2, <2>3
<1>6. CASE znak # "\n"
  <2>2. Seen = Getc(pos) /\ SeenAt = After(pos)
    BY <1>6 DEF Seen, SeenAt
  <2>1. CASE znak # "EOF"
    <3>1. pos \in 1 .. Len(t) /\ t[pos] = znak /\ pos = k + 1 /\ k < Len(t) /\ k \in Nat
          /\ out = SubSeq(t, 1, k)
      BY <1>2, <1>3, <2>1 DEF Reads, Prints
    <3>2. Len(out) = k /\ ~Recorded
      BY <1>2, <3>1, MylsAssumption DEF Recorded
    <3>3. Printed = Append(out, znak)
      BY <1>6, <3>2 DEF Printed
    <3>4. Newlines(t, k + 1) = Newlines(t, k) /\ Append(SubSeq(t, 1, k), t[k + 1]) = SubSeq(t, 1, k + 1)
      BY <1>2, <1>6, <3>1, Extend
    <3>5. Printed = SubSeq(t, 1, pos) /\ Counts(t, pos, counter) /\ pos \in 0 .. Len(t)
      BY <1>3, <3>1, <3>3, <3>4 DEF Counts
    <3>6. CASE Seen = "\n"
      <4>1. pos < Len(t) /\ t[pos + 1] = "\n" /\ After(pos) = pos + 1 /\ pos \in Nat
        BY <1>2, <2>2, <3>5, <3>6 DEF Getc, After
      <4>2. out' = Append(Printed, "\n") /\ counter' = counter + 1
            /\ znak' = Getc(pos + 1) /\ pos' = After(pos + 1)
        BY <2>2, <3>6, <4>1 DEF Body
      <4>3. out' = SubSeq(t, 1, pos + 1)
        BY <1>2, <3>5, <4>1, <4>2, Extend
      <4> QED BY <1>4, <3>5, <4>1, <4>2, <4>3
    <3>7. CASE Seen # "\n"
      <4>1. out' = Printed /\ znak' = Getc(pos) /\ pos' = After(pos) /\ counter' = counter
        BY <2>2, <3>7 DEF Body
      <4>2. pc' = "body"
        BY <1>1, <4>1 DEF Body
      <4>3. Reads(t, znak', pos', pos)
        BY <1>2, <3>5, <4>1, NextChar
      <4>4. /\ out' \in Seq({"x", "\n", "EOF"}) /\ Len(out') = pos
            /\ \A r \in 1 .. pos : out'[r] = Getc(r - 1)
        BY <1>2, <3>5, <4>1, BeginningRead
      <4>7. PICK p \in 0 .. Len(t) : p = pos
        BY <3>5
      <4>5. Prints(t, out, znak, p)'
        <5>1. Len(out') \in Nat /\ Len(out') >= p /\ out' = SubSeq(t, 1, p)
          BY <1>2, <3>5, <4>1, <4>4, <4>7
        <5>2. \A r \in 1 .. Len(out') : out'[r] = Getc(r - 1)'
          BY <1>8, <4>4
        <5>3. t' = t
          BY <1>1
        <5> HIDE DEF t
        <5> QED BY <5>1, <5>2, <5>3 DEF Prints
      <4>6. Reads(t, znak, pos, p)' /\ Counts(t, p, counter)'
        <5>1. t' = t
          BY <1>1
        <5> HIDE DEF t
        <5> QED BY <3>5, <4>1, <4>3, <4>7, <5>1 DEF Reads, Counts, Newlines
      <4> HIDE DEF t
      <4> QED BY <1>1, <1>8, <3>5, <4>2, <4>4, <4>5, <4>6 DEF Reading
    <3> QED BY <3>6, <3>7
  <2>3. CASE znak = "EOF"
    <3>1. pos = Len(t) /\ k = pos /\ Len(out) >= k /\ \A r \in 1 .. Len(out) : out[r] = Getc(r - 1)
      BY <1>3, <2>3 DEF Reads, Prints
    <3>2. Seen = "EOF" /\ SeenAt = pos
      BY <2>2, <3>1 DEF Getc, After
    <3>3. out' = Printed /\ znak' = "EOF" /\ pos' = pos /\ counter' = counter /\ pc' = "body"
      BY <1>1, <3>2 DEF Body
    <3>4. /\ Printed \in Seq({"x", "\n", "EOF"}) /\ Len(Printed) >= k
          /\ \A r \in 1 .. Len(Printed) : Printed[r] = Getc(r - 1)
      <4>1. CASE Printed = out
        BY <1>7, <3>1, <4>1
      <4>2. CASE Printed = Append(out, "EOF")
        <5>1. Len(Printed) = Len(out) + 1 /\ Len(out) \in Nat /\ Printed \in Seq({"x", "\n", "EOF"})
          BY <1>7, <4>2
        <5>2. Printed[Len(out) + 1] = "EOF" /\ Getc(Len(out)) = "EOF"
          BY <1>7, <3>1, <4>2 DEF Getc
        <5>3. ASSUME NEW r \in 1 .. Len(out) + 1 PROVE Printed[r] = Getc(r - 1)
          <6>1. CASE r = Len(out) + 1
            BY <5>1, <5>2, <6>1
          <6>2. CASE r \in 1 .. Len(out)
            BY <1>7, <3>1, <4>2, <6>2
          <6> QED BY <5>1, <6>1, <6>2
        <5> QED BY <1>2, <3>1, <5>1, <5>3
      <4> QED BY <2>3, <4>1, <4>2 DEF Printed
    <3>5. Prints(t, out, znak, k)'
      BY <1>8, <3>3, <3>4 DEF Prints
    <3>6. Reads(t, znak', pos', k)
      BY <1>3, <2>3, <3>3
    <3> HIDE DEF t
    <3> QED BY <1>1, <1>3, <1>8, <3>3, <3>4, <3>5, <3>6 DEF Reading, Reads, Counts, Newlines
  <2> QED BY <2>1, <2>3
<1> QED BY <1>5, <1>6

LEMMA ReadingNext == Typed /\ Typed' /\ Reading /\ [Next]_vars => Reading'
<1> SUFFICES ASSUME Typed, Typed', Reading, [Next]_vars PROVE Reading'
  OBVIOUS
<1>1. CASE Body
  BY <1>1, BodyReads
<1>2. CASE Lstat
  <2>1. out' = <<>> /\ out' \in Seq({"x", "\n", "EOF"}) /\ file' = file /\ file \in File /\ counter' = 0
    BY <1>2 DEF Lstat, Typed, Phases
  <2>2. CASE pc' # "body"
    BY <2>1, <2>2 DEF Reading
  <2>3. CASE pc' = "body"
    <3>1. znak' = Getc(0) /\ pos' = After(0)
      BY <1>2, <2>3 DEF Lstat, Ends
    <3>2. Text \in Seq({"x", "\n"}) /\ Text' = Text
      BY <2>1, TextTyped DEF Text
    <3>3. Reads(Text, znak', pos', 0)
      BY <3>1, <3>2, NextChar
    <3>4. out' = SubSeq(Text, 1, 0) /\ Counts(Text, 0, counter') /\ 0 \in 0 .. Len(Text)
          /\ Len(out') = 0
      BY <2>1, <3>2 DEF Counts, Newlines
    <3>5. Prints(Text, out', znak', 0)
      BY <3>4 DEF Prints
    <3>6. Prints(Text, out, znak, 0)'
      BY <3>2, <3>4 DEF Prints
    <3> QED BY <2>1, <2>3, <3>2, <3>3, <3>4, <3>6 DEF Reading, Reads, Counts, Newlines
  <2> QED BY <2>2, <2>3
<1>3. CASE pc' # "body" /\ out' = <<>>
  BY <1>3 DEF Reading
<1>4. CASE UNCHANGED <<pc, detail>>
  <2>1. UNCHANGED <<pc, file, pos, znak, counter, out>> /\ Text' = Text
    BY <1>4 DEF detail, Text
  <2>2. Head2(Text)' = Head2(Text) /\ \A q : Getc(q)' = Getc(q)
    BY <2>1 DEF Head2, Newlines, Getc
  <2> QED BY <2>1, <2>2 DEF Reading, Prints, Reads, Counts, Newlines
<1>5. ASSUME Next, ~Body, ~Lstat PROVE pc' # "body" /\ out' = <<>>
  <2>1. pc \in Looking \cup {"usage"} /\ out' = out /\ pc' # "body"
    BY <1>5 DEF Next, Program, Open, OpenFails, CountDone, Reopen, ReopenCrashes, FillFails, FillDone, Sort,
           SortPass, SortDone, Show, ShowDone, Usage, Count, Fill, Create, Unlink, Ends, Listing, Looking,
           outside, stream, array, detail
  <2> QED BY <2>1 DEF Typed, Phases
<1>6. UNCHANGED vars => UNCHANGED <<pc, detail>>
  BY DEF vars
<1> QED BY <1>1, <1>2, <1>3, <1>4, <1>5, <1>6

\* For every text: all that getc() returns is printed, once and in order, nothing
\* of it past the second newline, and when the loop ends the first two lines are
\* out; of a text of fewer than two lines, the text and bytes of EOF (lines 278-292).
THEOREM HeadPrinted == Spec => []HeadShown
<1>1. Init => Reading
  BY DEF Init, Reading
<1>2. Typed /\ Reading => HeadShown
  <2> SUFFICES ASSUME Typed, Reading PROVE HeadShown
    OBVIOUS
  <2>1. CASE pc = "body"
    <3>1. Text \in Seq({"x", "\n"}) /\ counter \in 0 .. 1
      BY <2>1, TextTyped DEF Typed, Phases
    <3>2. PICK k \in 0 .. Len(Text) : /\ Prints(Text, out, znak, k) /\ Reads(Text, znak, pos, k)
                                      /\ Counts(Text, k, counter)
      BY <2>1 DEF Reading
    <3>3. \A q \in 1 .. Len(out) : out[q] = Getc(q - 1)
      BY <3>1, <3>2, BeginningRead DEF Prints
    <3>4. ASSUME NEW h \in Head2(Text) PROVE Len(out) < Len(h)
      <4>1. k < Len(h) /\ Len(h) <= Len(Text) /\ Len(h) \in Nat
        BY <3>1, <3>2, Shorter DEF Head2
      <4>2. znak # "EOF"
        BY <3>1, <3>2, <4>1 DEF Reads
      <4> QED BY <3>1, <3>2, <4>1, <4>2, BeginningRead DEF Prints
    <3> QED BY <2>1, <3>3, <3>4 DEF HeadShown
  <2>2. CASE pc = "ended" /\ out # <<>>
    <3>1. Text \in Seq({"x", "\n"}) /\ out \in Head2(Text)
      BY <2>2, TextTyped DEF Reading
    <3>2. PICK m \in 1 .. Len(Text) : out = SubSeq(Text, 1, m)
      BY <3>1 DEF Head2
    <3>3. \A q \in 1 .. Len(out) : out[q] = Getc(q - 1)
      BY <3>1, <3>2, BeginningRead
    <3> QED BY <2>2, <3>1, <3>3 DEF HeadShown
  <2>3. CASE pc # "body" /\ out = <<>>
    BY <2>3 DEF HeadShown
  <2>4. pc \in {"body", "ended"} \/ out = <<>>
    BY DEF Typed, TypeOK, Phases, Looking
  <2> QED BY <2>1, <2>2, <2>3, <2>4
<1> QED BY <1>1, <1>2, ReadingNext, TypedAlways, PTL DEF Spec
=============================================================================
