------------------------ MODULE DeployRestoreProofs ------------------------
(***************************************************************************)
(* The restore script removes no partition without consent, the table it    *)
(* plans for another disk can be written there, and the containers it makes *)
(* are those of the layout.                                                 *)
(*                                                                          *)
(* The clone release is the dump of a machine that was installed with some  *)
(* layout.  Its partitions lie one behind the other, so where partition i   *)
(* starts is a sum of sizes, and that they all fit is a sum of shares of    *)
(* the room: the functions that sum and that number partitions are          *)
(* recursive, and FoldLemmas says how they unfold.                          *)
(***************************************************************************)
EXTENDS DeployRestore, FoldLemmas, TLAPS

-----------------------------------------------------------------------------
(* Consent *)

\* A disk with partitions is about to be wiped only with consent.
AskedBeforeWipe == stage = "wipe" /\ disk \in parted => consent

LEMMA InitAsked == Init => AskedBeforeWipe
  BY DEF Init, AskedBeforeWipe

LEMMA NextAsked == AskedBeforeWipe /\ [Next]_vars => AskedBeforeWipe'
<1> SUFFICES ASSUME AskedBeforeWipe, [Next]_vars PROVE AskedBeforeWipe' OBVIOUS
<1> USE DEF AskedBeforeWipe
<1>1. CASE EditLayout
  BY <1>1
  DEF EditLayout, CreateEntry, UpdateEntry, DeleteEntry, ReplaceEntries, SaveLayout, target,
      attempt
<1>2. CASE InstallBuild BY <1>2 DEF InstallBuild, target, attempt
<1>3. CASE Dump BY <1>3 DEF Dump, target, attempt
<1>4. CASE Boot BY <1>4 DEF Boot, Fail
<1>5. CASE ChooseDisk BY <1>5 DEF ChooseDisk, Fail
<1>6. CASE Plan BY <1>6 DEF Plan, Fail, target
<1>7. CASE Ask BY <1>7 DEF Ask, Clears, Fail
<1>8. CASE Wipe BY <1>8 DEF Wipe
<1>9. CASE WriteTable BY <1>9 DEF WriteTable, Fail
<1>10. CASE RestoreImage BY <1>10 DEF RestoreImage, Fail
<1>11. CASE PowerOff BY <1>11 DEF PowerOff
<1>12. CASE UNCHANGED vars BY <1>12 DEF vars
<1> QED
  BY <1>1, <1>2, <1>3, <1>4, <1>5, <1>6, <1>7, <1>8, <1>9, <1>10, <1>11, <1>12 DEF Next

\* Only Wipe takes partitions away.
LEMMA OnlyWipeClears ==
    [Next]_vars /\ ~Wipe => parted \subseteq parted'
<1> SUFFICES ASSUME [Next]_vars, ~Wipe PROVE parted \subseteq parted' OBVIOUS
<1>1. CASE WriteTable BY <1>1 DEF WriteTable
<1>2. CASE ~WriteTable
  BY <1>2
  DEF Next, vars, target, EditLayout, CreateEntry, UpdateEntry, DeleteEntry,
      ReplaceEntries, SaveLayout, InstallBuild, Dump, Boot, ChooseDisk, Plan, Ask,
      RestoreImage, PowerOff
<1> QED BY <1>1, <1>2

\* Whatever the disks and layouts, partitions are removed from a disk only after the
\* operator agreed to clear that disk in this run of the script.
THEOREM ClearsWithConsent == Spec => ClearedWithConsent
<1>1. AskedBeforeWipe /\ [Next]_vars => [\A d \in parted \ parted' : d = disk /\ consent]_vars
  <2> SUFFICES ASSUME AskedBeforeWipe, [Next]_vars, NEW d \in parted \ parted'
               PROVE d = disk /\ consent
    OBVIOUS
  <2>1. CASE Wipe BY <2>1 DEF Wipe, AskedBeforeWipe
  <2>2. CASE ~Wipe BY <2>2, OnlyWipeClears
  <2> QED BY <2>1, <2>2
<1> QED BY InitAsked, NextAsked, <1>1, PTL DEF Spec, ClearedWithConsent

-----------------------------------------------------------------------------
(* The table the script writes *)

LEMMA SlotFields ==
    ASSUME NEW t \in Seq(Slots), NEW j \in DOMAIN t
    PROVE  j \in Nat /\ t[j].start \in Nat /\ t[j].size \in Nat
<1>1. t[j] \in Slots /\ j \in Nat OBVIOUS
<1> QED BY <1>1 DEF Slots

\* No partition grows past the next one.
LEMMA NewSizeStops ==
    ASSUME NEW t \in Seq(Slots), Disjoint(t), NEW grow, NEW limit \in Nat,
           CanPlace(t, grow, limit), NEW i \in DOMAIN t,
           \A k \in DOMAIN t : t[k].size > 0 /\ End(t[k]) <= limit
    PROVE  /\ NewSize(t, grow, limit, i) \in Nat
           /\ NewSize(t, grow, limit, i) >= t[i].size
           /\ t[i].start + NewSize(t, grow, limit, i) <= limit
           /\ \A j \in DOMAIN t : i < j => t[i].start + NewSize(t, grow, limit, i) <= t[j].start
<1>1. /\ t[i].start \in Nat /\ t[i].size \in Nat
      /\ \A j \in DOMAIN t : j \in Nat /\ t[j].start \in Nat /\ t[j].size \in Nat
  BY SlotFields
<1>2. CASE i \notin grow
  BY <1>1, <1>2 DEF NewSize, Disjoint, End
<1>3. CASE i \in grow
  <2>1. NewSize(t, grow, limit, i) = NextStart(t, limit, i) - t[i].start
        /\ NewSize(t, grow, limit, i) >= t[i].size
    BY <1>3 DEF NewSize, CanPlace
  <2>2. CASE i + 1 \in DOMAIN t
    <3>1. t[i + 1].start < limit BY <1>1, <2>2 DEF End
    <3>2. NextStart(t, limit, i) = t[i + 1].start BY <2>2, <3>1 DEF NextStart
    <3>3. \A j \in DOMAIN t : i < j => t[i + 1].start <= t[j].start
      <4> SUFFICES ASSUME NEW j \in DOMAIN t, i < j PROVE t[i + 1].start <= t[j].start
        OBVIOUS
      <4>1. CASE j = i + 1 BY <1>1, <4>1
      <4>2. CASE i + 1 < j BY <1>1, <2>2, <4>2 DEF Disjoint, End
      <4> QED BY <1>1, <4>1, <4>2
    <3> QED BY <1>1, <2>1, <2>2, <3>1, <3>2, <3>3
  <2>3. CASE i + 1 \notin DOMAIN t
    <3>1. NextStart(t, limit, i) = limit BY <2>3 DEF NextStart
    <3>2. \A j \in DOMAIN t : ~(i < j) BY <1>1, <2>3
    <3> QED BY <1>1, <2>1, <3>1, <3>2
  <2> QED BY <2>2, <2>3
<1> QED BY <1>2, <1>3

\* A dumped table that fits below a limit is planned, whatever partitions take the
\* remainder, as one that fits there too, in which no partition is smaller than its
\* image (the sfdisk.layout program).
THEOREM PlannedTableFits ==
    ASSUME NEW t \in Seq(Slots), NEW grow, NEW limit \in Nat,
           Writable(t, limit), CanPlace(t, grow, limit)
    PROVE  /\ Writable(NewTable(t, grow, limit), limit)
           /\ DOMAIN NewTable(t, grow, limit) = DOMAIN t
           /\ \A i \in DOMAIN t : NewTable(t, grow, limit)[i].size >= t[i].size
<1> DEFINE new == NewTable(t, grow, limit)
<1>1. DOMAIN new = DOMAIN t
      /\ \A i \in DOMAIN t : new[i].start = t[i].start /\ new[i].size = NewSize(t, grow, limit, i)
  BY DEF NewTable
<1>2. \A i \in DOMAIN t : t[i].start \in Nat /\ t[i].size \in Nat
  BY SlotFields
<1>3. Disjoint(t) /\ \A k \in DOMAIN t : t[k].size > 0 /\ End(t[k]) <= limit
  BY DEF Writable
<1>4. \A i \in DOMAIN t :
          /\ NewSize(t, grow, limit, i) \in Nat
          /\ NewSize(t, grow, limit, i) >= t[i].size
          /\ t[i].start + NewSize(t, grow, limit, i) <= limit
          /\ \A j \in DOMAIN t : i < j => t[i].start + NewSize(t, grow, limit, i) <= t[j].start
  BY <1>3, NewSizeStops
<1> HIDE DEF new
<1>5. Disjoint(new) BY <1>1, <1>4 DEF Disjoint, End
<1>6. \A i \in DOMAIN new : new[i].size > 0 /\ End(new[i]) <= limit
  BY <1>1, <1>2, <1>3, <1>4, SMTT(30) DEF End
<1>7. Writable(new, limit) BY <1>5, <1>6 DEF Writable
<1>8. \A i \in DOMAIN t : new[i].size >= t[i].size BY <1>1, <1>4
<1> QED BY <1>1, <1>7, <1>8 DEF new

-----------------------------------------------------------------------------
(* Sums *)

\* The recursion of Total, and what it comes to.
LEMMA TotalRuns ==
    ASSUME NEW sizes \in Seq(Int)
    PROVE  \E sum \in [0..Len(sizes) -> Int] :
              /\ sum[0] = 0
              /\ \A n \in 1..Len(sizes) : sum[n] = sum[n - 1] + sizes[n]
              /\ Total(sizes) = sum[Len(sizes)]
<1> DEFINE D == 0..Len(sizes)
           Rhs(f) == [n \in D |-> IF n = 0 THEN 0 ELSE f[n - 1] + sizes[n]]
           Sol == CHOOSE f : f = Rhs(f)
           step == [n \in 1..Len(sizes) |-> [a \in Int |-> a + sizes[n]]]
<1>1. Len(sizes) \in Nat /\ \A n \in 1..Len(sizes) : sizes[n] \in Int
  OBVIOUS
<1>2. step \in StepFunctions(Len(sizes), Int)
  BY <1>1 DEF StepFunctions
<1>3. PICK f \in [D -> Int] : \A n \in D : f[n] = IF n = 0 THEN 0 ELSE step[n][f[n - 1]]
  <2> HIDE DEF step
  <2> DEFINE N == Len(sizes)
             V == Int
             zero == 0
  <2>1. N \in Nat /\ zero \in V /\ step \in StepFunctions(N, V)
    BY <1>1, <1>2
  <2> HIDE DEF N, V, zero
  <2>2. Solutions(N, V, zero, step) # {}
    BY <2>1, RecursionExists
  <2> QED
    BY <2>2 DEF N, V, zero, Solutions
<1>4. ASSUME NEW n \in D
      PROVE  f[n] = IF n = 0 THEN 0 ELSE f[n - 1] + sizes[n]
  <2>1. n # 0 => n \in 1..Len(sizes) /\ f[n - 1] \in Int
    BY <1>1
  <2>2. n # 0 => step[n][f[n - 1]] = f[n - 1] + sizes[n]
    BY <2>1
  <2> QED
    BY <1>3, <2>2
<1>5. f = Rhs(f)
  BY <1>4
<1>6. Sol = Rhs(Sol)
  <2> HIDE DEF Rhs
  <2> QED
    BY <1>5
<1>7. Total(sizes) = Sol[Len(sizes)]
  BY DEF Total
<1> HIDE DEF Sol
<1>8. \A n \in D : Sol[n] = IF n = 0 THEN 0 ELSE Sol[n - 1] + sizes[n]
  BY <1>6
<1> DEFINE T == {n \in Nat : n \in D => Sol[n] \in Int}
<1>9. 0 \in T
  BY <1>8
<1>10. ASSUME NEW n \in Nat, n \in T
       PROVE  n + 1 \in T
  <2>1. n + 1 \in D => n \in D /\ n + 1 # 0 /\ (n + 1) - 1 = n /\ n + 1 \in 1..Len(sizes)
    BY <1>1
  <2>2. n + 1 \in D => Sol[n + 1] = Sol[n] + sizes[n + 1]
    BY <1>8, <2>1
  <2> QED
    BY <1>1, <1>10, <2>1, <2>2
<1>11. \A n \in D : Sol[n] \in Int
  <2>1. Nat \subseteq T
    <3> HIDE DEF T
    <3> QED
      BY <1>9, <1>10, SetInduction
  <2> QED
    BY <2>1
<1> DEFINE sum == [n \in D |-> Sol[n]]
<1>12. sum \in [D -> Int]
  BY <1>11
<1>13. sum[0] = 0 /\ Total(sizes) = sum[Len(sizes)]
  BY <1>1, <1>7, <1>8
<1>14. ASSUME NEW n \in 1..Len(sizes)
       PROVE  sum[n] = sum[n - 1] + sizes[n]
  <2>1. n \in D /\ n - 1 \in D /\ n # 0
    BY <1>1
  <2> QED
    BY <1>8, <2>1
<1> HIDE DEF sum
<1> QED
  BY <1>12, <1>13, <1>14

\* Whatever is summed up step by step is the total.
LEMMA TotalIs ==
    ASSUME NEW sizes \in Seq(Int), NEW sum \in [0..Len(sizes) -> Int], sum[0] = 0,
           \A n \in 1..Len(sizes) : sum[n] = sum[n - 1] + sizes[n]
    PROVE  Total(sizes) = sum[Len(sizes)]
<1>1. Len(sizes) \in Nat
  OBVIOUS
<1>2. PICK other \in [0..Len(sizes) -> Int] :
        /\ other[0] = 0
        /\ \A n \in 1..Len(sizes) : other[n] = other[n - 1] + sizes[n]
        /\ Total(sizes) = other[Len(sizes)]
  BY TotalRuns
<1> DEFINE T == {n \in Nat : n <= Len(sizes) => other[n] = sum[n]}
<1>3. 0 \in T
  BY <1>2
<1>4. ASSUME NEW n \in Nat, n \in T
      PROVE  n + 1 \in T
  <2>1. n + 1 <= Len(sizes) => n <= Len(sizes) /\ n + 1 \in 1..Len(sizes) /\ (n + 1) - 1 = n
    BY <1>1
  <2> QED
    BY <1>2, <1>4, <2>1
<1>5. Nat \subseteq T
  <2> HIDE DEF T
  <2> QED
    BY <1>3, <1>4, SetInduction
<1> QED
  BY <1>1, <1>2, <1>5

LEMMA TotalEmpty == Total(<<>>) = 0
<1> DEFINE sum == [n \in 0..0 |-> 0]
<1>1. <<>> \in Seq(Int) /\ Len(<<>>) = 0
  OBVIOUS
<1>2. sum \in [0..Len(<<>>) -> Int] /\ sum[0] = 0 /\ \A n \in 1..Len(<<>>) : FALSE
  BY <1>1
<1> HIDE DEF sum
<1> QED
  BY <1>1, <1>2, TotalIs

LEMMA TotalAppend ==
    ASSUME NEW sizes \in Seq(Int), NEW x \in Int
    PROVE  Total(Append(sizes, x)) = Total(sizes) + x
<1> DEFINE n == Len(sizes)
           more == Append(sizes, x)
<1>1. /\ more \in Seq(Int) /\ Len(more) = n + 1 /\ n \in Nat
      /\ more[n + 1] = x /\ \A k \in 1..n : more[k] = sizes[k]
  OBVIOUS
<1>2. PICK sum \in [0..n -> Int] :
        /\ sum[0] = 0
        /\ \A k \in 1..n : sum[k] = sum[k - 1] + sizes[k]
        /\ Total(sizes) = sum[n]
  BY TotalRuns
<1> DEFINE longer == [k \in 0..(n + 1) |-> IF k = n + 1 THEN sum[n] + x ELSE sum[k]]
<1>3. longer \in [0..(n + 1) -> Int] /\ longer[0] = 0 /\ longer[n + 1] = sum[n] + x
  BY <1>1, <1>2
<1>4. ASSUME NEW k \in 1..(n + 1)
      PROVE  longer[k] = longer[k - 1] + more[k]
  <2>1. CASE k = n + 1
    BY <1>1, <2>1
  <2>2. CASE k # n + 1
    <3>1. k \in 1..n /\ k - 1 \in 0..n /\ k - 1 # n + 1
      BY <1>1, <2>2
    <3> QED
      BY <1>1, <1>2, <3>1
  <2> QED
    BY <2>1, <2>2
<1> HIDE DEF longer, more
<1>5. Total(more) = longer[n + 1]
  BY <1>1, <1>3, <1>4, TotalIs
<1> QED
  BY <1>2, <1>3, <1>5 DEF more

\* The totals of what comes first in a sequence.
LEMMA PrefixTotals ==
    ASSUME NEW sizes \in Seq(Nat)
    PROVE  \E sum \in [0..Len(sizes) -> Nat] :
              /\ sum[0] = 0
              /\ \A n \in 1..Len(sizes) : sum[n] = sum[n - 1] + sizes[n]
              /\ \A n \in 0..Len(sizes) : Total(SubSeq(sizes, 1, n)) = sum[n]
              /\ \A m, n \in 0..Len(sizes) : m <= n => sum[m] <= sum[n]
<1> DEFINE N == Len(sizes)
<1>1. sizes \in Seq(Int) /\ N \in Nat /\ \A n \in 1..N : sizes[n] \in Nat
  OBVIOUS
<1>2. PICK sum \in [0..N -> Int] :
        sum[0] = 0 /\ \A n \in 1..N : sum[n] = sum[n - 1] + sizes[n]
  BY <1>1, TotalRuns
<1>3. ASSUME NEW n \in 0..N
      PROVE  Total(SubSeq(sizes, 1, n)) = sum[n]
  <2> DEFINE first == SubSeq(sizes, 1, n)
             upTo == [k \in 0..n |-> sum[k]]
  <2>1. first \in Seq(Int) /\ Len(first) = n /\ \A k \in 1..n : first[k] = sizes[k]
    BY <1>1
  <2>2. upTo \in [0..n -> Int] /\ upTo[0] = 0 /\ upTo[n] = sum[n]
    <3>1. 0 \in 0..n /\ n \in 0..n /\ \A k \in 0..n : k \in 0..N
      BY <1>1
    <3> HIDE DEF N
    <3> QED
      BY <1>2, <3>1
  <2>3. ASSUME NEW k \in 1..n
        PROVE  upTo[k] = upTo[k - 1] + first[k]
    <3>1. k \in 1..N /\ k \in 0..n /\ k - 1 \in 0..n
      BY <1>1
    <3> QED
      BY <1>2, <2>1, <3>1
  <2> HIDE DEF first, upTo
  <2>4. Total(first) = upTo[n]
    BY <2>1, <2>2, <2>3, TotalIs
  <2> QED
    BY <2>2, <2>4 DEF first
<1>4. ASSUME NEW m \in 0..N
      PROVE  \A n \in 0..N : m <= n => sum[m] <= sum[n]
  <2> DEFINE T == {d \in Nat : m + d <= N => sum[m] <= sum[m + d]}
  <2>1. 0 \in T
    OBVIOUS
  <2>2. ASSUME NEW d \in Nat, d \in T
        PROVE  d + 1 \in T
    <3>1. m + (d + 1) <= N =>
            /\ m + d <= N /\ m + d \in 0..N /\ m + (d + 1) \in 1..N
            /\ (m + (d + 1)) - 1 = m + d
      BY <1>1
    <3>2. m + (d + 1) <= N => sum[m + (d + 1)] = sum[m + d] + sizes[m + (d + 1)]
      BY <1>2, <3>1
    <3>3. m + (d + 1) <= N => /\ sum[m] \in Int /\ sum[m + d] \in Int /\ sizes[m + (d + 1)] \in Nat
                              /\ sum[m] <= sum[m + d]
      BY <1>1, <2>2, <3>1
    <3> QED
      BY <3>2, <3>3
  <2>3. Nat \subseteq T
    <3> HIDE DEF T
    <3> QED
      BY <2>1, <2>2, SetInduction
  <2>4. ASSUME NEW n \in 0..N, m <= n
        PROVE  sum[m] <= sum[n]
    <3>1. n - m \in T /\ m + (n - m) = n /\ n <= N
      <4>1. n - m \in Nat /\ m + (n - m) = n /\ n <= N
        BY <1>1, <2>4
      <4> HIDE DEF T
      <4> QED
        BY <2>3, <4>1
    <3> QED
      BY <3>1
  <2> QED
    BY <2>4
<1>5. sum \in [0..N -> Nat]
  <2> SUFFICES ASSUME NEW n \in 0..N PROVE sum[n] >= 0
    OBVIOUS
  <2> QED
    BY <1>1, <1>2, <1>4
<1> QED
  BY <1>2, <1>3, <1>4, <1>5

-----------------------------------------------------------------------------
(* Layouts *)

\* The recursion of Partitions, and what it comes to.
LEMMA PartitionsRun ==
    ASSUME NEW entries \in Seq(Entries)
    PROVE  \E first \in [0..Len(entries) -> Seq(Entries)] :
              /\ first[0] = <<>>
              /\ \A n \in 1..Len(entries) :
                    first[n] = IF entries[n].role = "lv" THEN first[n - 1]
                               ELSE Append(first[n - 1], entries[n])
              /\ Partitions(entries) = first[Len(entries)]
<1> DEFINE D == 0..Len(entries)
           Grow(ps, e) == IF e.role = "lv" THEN ps ELSE Append(ps, e)
           Rhs(f) == [n \in D |-> IF n = 0 THEN <<>>
                                  ELSE IF entries[n].role = "lv" THEN f[n - 1]
                                  ELSE Append(f[n - 1], entries[n])]
           Sol == CHOOSE f : f = Rhs(f)
           step == [n \in 1..Len(entries) |-> [ps \in Seq(Entries) |-> Grow(ps, entries[n])]]
<1>1. Len(entries) \in Nat /\ \A n \in 1..Len(entries) : entries[n] \in Entries
  OBVIOUS
<1>2. \A ps \in Seq(Entries), n \in 1..Len(entries) : Grow(ps, entries[n]) \in Seq(Entries)
  BY <1>1
<1>3. step \in StepFunctions(Len(entries), Seq(Entries))
  <2> HIDE DEF Grow
  <2> QED
    BY <1>2 DEF StepFunctions
<1>4. PICK f \in [D -> Seq(Entries)] :
        \A n \in D : f[n] = IF n = 0 THEN <<>> ELSE step[n][f[n - 1]]
  <2> DEFINE N == Len(entries)
             V == Seq(Entries)
             none == <<>>
  <2>1. N \in Nat /\ none \in V /\ step \in StepFunctions(N, V)
    BY <1>1, <1>3
  <2> HIDE DEF step, N, V, none
  <2>2. Solutions(N, V, none, step) # {}
    BY <2>1, RecursionExists
  <2> QED
    BY <2>2 DEF N, V, none, Solutions
<1>5. ASSUME NEW n \in D
      PROVE  f[n] = IF n = 0 THEN <<>> ELSE Grow(f[n - 1], entries[n])
  <2>1. n # 0 => n \in 1..Len(entries) /\ f[n - 1] \in Seq(Entries)
    BY <1>1
  <2> HIDE DEF Grow
  <2>2. n # 0 => step[n][f[n - 1]] = Grow(f[n - 1], entries[n])
    BY <2>1
  <2> QED
    BY <1>4, <2>2
<1>6. f = Rhs(f)
  BY <1>5
<1>7. Sol = Rhs(Sol)
  <2> HIDE DEF Rhs
  <2> QED
    BY <1>6
<1>8. Partitions(entries) = Sol[Len(entries)]
  BY DEF Partitions
<1> HIDE DEF Sol
<1>9. \A n \in D : Sol[n] = IF n = 0 THEN <<>> ELSE Grow(Sol[n - 1], entries[n])
  BY <1>7
<1> HIDE DEF Grow
<1> DEFINE T == {n \in Nat : n \in D => Sol[n] \in Seq(Entries)}
<1>10. 0 \in T
  <2>1. <<>> \in Seq(Entries)
    OBVIOUS
  <2> QED
    BY <1>9, <2>1
<1>11. ASSUME NEW n \in Nat, n \in T
       PROVE  n + 1 \in T
  <2>1. n + 1 \in D => n \in D /\ n + 1 # 0 /\ (n + 1) - 1 = n /\ n + 1 \in 1..Len(entries)
    BY <1>1
  <2>2. n + 1 \in D => Sol[n + 1] = Grow(Sol[n], entries[n + 1])
    BY <1>9, <2>1
  <2> QED
    BY <1>2, <1>11, <2>1, <2>2
<1>12. \A n \in D : Sol[n] \in Seq(Entries)
  <2>1. Nat \subseteq T
    <3> HIDE DEF T
    <3> QED
      BY <1>10, <1>11, SetInduction
  <2> QED
    BY <2>1
<1> DEFINE first == [n \in D |-> Sol[n]]
<1>13. first \in [D -> Seq(Entries)]
  BY <1>12
<1>14. first[0] = <<>> /\ Partitions(entries) = first[Len(entries)]
  BY <1>1, <1>8, <1>9
<1>15. ASSUME NEW n \in 1..Len(entries)
       PROVE  first[n] = Grow(first[n - 1], entries[n])
  <2>1. n \in D /\ n - 1 \in D /\ n # 0
    BY <1>1
  <2> QED
    BY <1>9, <2>1
<1> HIDE DEF first
<1> QED
  BY <1>13, <1>14, <1>15 DEF Grow

\* What an entry of a fixed size takes of a disk.
FixedPart(e) == IF e.mode = "fixed" THEN e.mib ELSE 0

LEMMA FixedAppend ==
    ASSUME NEW entries \in Seq(Entries), NEW e \in Entries
    PROVE  /\ FixedMib(entries) \in Int
           /\ FixedMib(Append(entries, e)) = FixedMib(entries) + FixedPart(e)
<1> DEFINE more == Append(entries, e)
           sizes == [i \in DOMAIN entries |-> FixedPart(entries[i])]
<1>1. \A x \in Entries : FixedPart(x) \in Nat
  BY DEF FixedPart, Entries
<1>2. sizes \in Seq(Int)
  <2>1. \A i \in 1..Len(entries) : FixedPart(entries[i]) \in Int
    BY <1>1
  <2> QED
    BY <2>1
<1>3. [i \in DOMAIN more |-> FixedPart(more[i])] = Append(sizes, FixedPart(e))
  <2> HIDE DEF FixedPart
  <2> QED
    OBVIOUS
<1>4. FixedMib(more) = Total([i \in DOMAIN more |-> FixedPart(more[i])])
  BY DEF FixedMib, FixedPart
<1>5. FixedMib(entries) = Total(sizes)
  BY DEF FixedMib, FixedPart
<1>6. Total(sizes) \in Int
  BY <1>2, TotalRuns
<1> HIDE DEF sizes, more
<1>7. Total(Append(sizes, FixedPart(e))) = Total(sizes) + FixedPart(e)
  BY <1>1, <1>2, TotalAppend
<1> QED
  BY <1>3, <1>4, <1>5, <1>6, <1>7 DEF more

\* The partitions of a layout are its entries that are no logical volumes, and take no
\* more than all of them.
LEMMA PartitionsOf ==
    ASSUME NEW entries \in Seq(Entries)
    PROVE  /\ Partitions(entries) \in Seq(Entries)
           /\ \A n \in DOMAIN Partitions(entries) :
                 \E i \in DOMAIN entries : entries[i] = Partitions(entries)[n]
           /\ \A i \in DOMAIN entries : entries[i].role # "lv" =>
                 \E n \in DOMAIN Partitions(entries) : Partitions(entries)[n] = entries[i]
           /\ FixedMib(Partitions(entries)) \in Nat
           /\ FixedMib(entries) \in Nat
           /\ FixedMib(Partitions(entries)) <= FixedMib(entries)
<1> DEFINE N == Len(entries)
<1>1. N \in Nat /\ DOMAIN entries = 1..N /\ \A i \in 1..N : entries[i] \in Entries
  OBVIOUS
<1>2. PICK first \in [0..N -> Seq(Entries)] :
        /\ first[0] = <<>>
        /\ \A n \in 1..N : first[n] = IF entries[n].role = "lv" THEN first[n - 1]
                                      ELSE Append(first[n - 1], entries[n])
        /\ Partitions(entries) = first[N]
  BY PartitionsRun
<1> DEFINE upTo(k) == SubSeq(entries, 1, k)
           Holds(k) ==
               /\ \A n \in DOMAIN first[k] : \E i \in 1..k : entries[i] = first[k][n]
               /\ \A i \in 1..k : entries[i].role # "lv" =>
                     \E n \in DOMAIN first[k] : first[k][n] = entries[i]
               /\ FixedMib(first[k]) \in Nat
               /\ FixedMib(upTo(k)) \in Nat
               /\ FixedMib(first[k]) <= FixedMib(upTo(k))
           T == {k \in Nat : k <= N => Holds(k)}
<1>3. Holds(0)
  <2>1. upTo(0) = <<>>
    OBVIOUS
  <2>2. FixedMib(<<>>) = 0
    <3>1. [i \in DOMAIN <<>> |-> IF <<>>[i].mode = "fixed" THEN <<>>[i].mib ELSE 0] = <<>>
      OBVIOUS
    <3> QED
      BY <3>1, TotalEmpty DEF FixedMib
  <2>3. DOMAIN first[0] = {}
    BY <1>2
  <2> HIDE DEF upTo
  <2> QED
    BY <1>2, <2>1, <2>2, <2>3
<1>4. ASSUME NEW k \in 0..(N - 1), Holds(k)
      PROVE  Holds(k + 1)
  <2> DEFINE e == entries[k + 1]
             ps == first[k]
  <2>1. k \in Nat /\ k \in 0..N /\ k + 1 \in 1..N /\ (k + 1) - 1 = k /\ k + 1 \in 0..N
    BY <1>1
  <2>2. e \in Entries /\ ps \in Seq(Entries) /\ FixedPart(e) \in Nat
    BY <1>1, <2>1 DEF FixedPart, Entries
  <2>3. first[k + 1] = IF e.role = "lv" THEN ps ELSE Append(ps, e)
    BY <1>2, <2>1
  <2>4. upTo(k) \in Seq(Entries) /\ upTo(k + 1) = Append(upTo(k), e)
    BY <1>1, <2>1
  <2>5. FixedMib(upTo(k + 1)) = FixedMib(upTo(k)) + FixedPart(e)
    <3> HIDE DEF upTo, e
    <3> QED
      BY <2>2, <2>4, FixedAppend
  <2>6. FixedMib(Append(ps, e)) = FixedMib(ps) + FixedPart(e)
    <3> HIDE DEF ps, e
    <3> QED
      BY <2>2, FixedAppend
  <2>7. \A i \in 1..(k + 1) : i = k + 1 \/ i \in 1..k
    BY <2>1
  <2>8. \A i \in 1..k : i \in 1..(k + 1)
    BY <2>1
  <2> HIDE DEF upTo, ps
  <2>9. CASE e.role = "lv"
    <3>1. first[k + 1] = ps
      BY <2>3, <2>9
    <3>2. FixedMib(first[k + 1]) \in Nat /\ FixedMib(upTo(k + 1)) \in Nat
          /\ FixedMib(first[k + 1]) <= FixedMib(upTo(k + 1))
      BY <1>4, <2>2, <2>5, <3>1 DEF ps
    <3>3. \A n \in DOMAIN ps : \E i \in 1..(k + 1) : entries[i] = ps[n]
      BY <1>4, <2>8 DEF ps
    <3>4. \A i \in 1..(k + 1) : entries[i].role # "lv" => \E n \in DOMAIN ps : ps[n] = entries[i]
      BY <1>4, <2>7, <2>9 DEF ps
    <3> QED
      BY <3>1, <3>2, <3>3, <3>4
  <2>10. CASE e.role # "lv"
    <3> DEFINE new == Append(ps, e)
    <3>1. first[k + 1] = new
      BY <2>3, <2>10
    <3>2. FixedMib(first[k + 1]) \in Nat /\ FixedMib(upTo(k + 1)) \in Nat
          /\ FixedMib(first[k + 1]) <= FixedMib(upTo(k + 1))
      <4>1. /\ FixedMib(ps) \in Nat /\ FixedMib(upTo(k)) \in Nat
            /\ FixedMib(ps) <= FixedMib(upTo(k))
        BY <1>4 DEF ps
      <4> HIDE DEF e
      <4> QED
        BY <2>2, <2>5, <2>6, <3>1, <4>1
    <3>3. /\ DOMAIN new = 1..(Len(ps) + 1) /\ Len(ps) \in Nat /\ DOMAIN ps = 1..Len(ps)
          /\ new[Len(ps) + 1] = e /\ \A n \in 1..Len(ps) : new[n] = ps[n]
      BY <2>2
    <3> HIDE DEF new
    <3>4. \A n \in DOMAIN new : \E i \in 1..(k + 1) : entries[i] = new[n]
      <4> SUFFICES ASSUME NEW n \in DOMAIN new
                   PROVE  \E i \in 1..(k + 1) : entries[i] = new[n]
        OBVIOUS
      <4>1. CASE n = Len(ps) + 1
        BY <2>1, <3>3, <4>1
      <4>2. CASE n # Len(ps) + 1
        <5>1. n \in DOMAIN ps /\ new[n] = ps[n]
          BY <3>3, <4>2
        <5> QED
          BY <1>4, <2>8, <5>1 DEF ps
      <4> QED
        BY <4>1, <4>2
    <3>5. ASSUME NEW i \in 1..(k + 1), entries[i].role # "lv"
          PROVE  \E n \in DOMAIN new : new[n] = entries[i]
      <4>1. CASE i = k + 1
        <5>1. Len(ps) + 1 \in DOMAIN new
          BY <3>3
        <5> QED
          BY <3>3, <4>1, <5>1
      <4>2. CASE i # k + 1
        <5>1. PICK n \in DOMAIN ps : ps[n] = entries[i]
          BY <1>4, <2>7, <3>5, <4>2 DEF ps
        <5>2. n \in DOMAIN new
          BY <3>3
        <5> QED
          BY <3>3, <5>1, <5>2
      <4> QED
        BY <4>1, <4>2
    <3> QED
      BY <3>1, <3>2, <3>4, <3>5
  <2> QED
    BY <2>9, <2>10
<1>5. Holds(N)
  <2> HIDE DEF Holds
  <2>1. 0 \in T
    BY <1>3
  <2>2. ASSUME NEW k \in Nat, k \in T
        PROVE  k + 1 \in T
    <3>1. k + 1 <= N => k \in 0..(N - 1)
      BY <1>1
    <3> QED
      BY <1>1, <1>4, <2>2, <3>1
  <2>3. Nat \subseteq T
    <3> HIDE DEF T
    <3> QED
      BY <2>1, <2>2, SetInduction
  <2> QED
    BY <1>1, <2>3
<1>6. upTo(N) = entries
  OBVIOUS
<1>7. first[N] \in Seq(Entries)
  BY <1>1
<1> DEFINE ps == first[N]
<1>8. /\ \A n \in DOMAIN ps : \E i \in 1..N : entries[i] = ps[n]
      /\ \A i \in 1..N : entries[i].role # "lv" => \E n \in DOMAIN ps : ps[n] = entries[i]
      /\ FixedMib(ps) \in Nat /\ FixedMib(entries) \in Nat
      /\ FixedMib(ps) <= FixedMib(entries)
  <2> HIDE DEF upTo
  <2> QED
    BY <1>5, <1>6
<1>9. Partitions(entries) = ps /\ DOMAIN entries = 1..N
  BY <1>1, <1>2
<1> HIDE DEF upTo, Holds, ps
<1> QED
  BY <1>7, <1>8, <1>9 DEF ps

-----------------------------------------------------------------------------
(* The installed disk *)

\* A layout as the editor saves it.
ALayout == [gpt : BOOLEAN, entries : Seq(Entries)]

LEMMA LargerOfTwo ==
    ASSUME NEW a \in Int, NEW b \in Int
    PROVE  /\ Max({a, b}) \in {a, b} /\ Max({a, b}) >= a /\ Max({a, b}) >= b
<1>1. {a, b} \in SUBSET Int /\ {a, b} # {} /\ {a, b} = {a} \cup {b}
  OBVIOUS
<1>2. IsFiniteSet({a, b})
  <2>1. IsFiniteSet({a}) /\ IsFiniteSet({b})
    BY FS_Singleton
  <2>2. IsFiniteSet({a} \cup {b})
    BY <2>1, FS_Union
  <2> QED
    BY <1>1, <2>2
<1>3. Max({a, b}) \in {a, b} /\ \A j \in {a, b} : j <= Max({a, b})
  BY <1>1, <1>2, LargestNumber
<1> QED
  BY <1>3

\* The disk is at least 8 GiB, has room for what is fixed, and 4 GiB more when an entry
\* takes what is left.
LEMMA DiskIsLarge ==
    ASSUME NEW l \in ALayout
    PROVE  /\ DiskMib(l.entries) \in Nat /\ DiskMib(l.entries) >= 8192
           /\ Grows(l.entries) => DiskMib(l.entries) >= FixedMib(l.entries) + 4096
<1> DEFINE fixed == FixedMib(l.entries)
           least == Max({fixed, 8192})
           more == IF Grows(l.entries) THEN 4096 ELSE 0
<1>1. fixed \in Nat
  BY PartitionsOf DEF ALayout
<1>2. least \in Int /\ least >= fixed /\ least >= 8192
  <2> DEFINE floor == 8192
  <2>1. fixed \in Int /\ floor \in Int
    BY <1>1
  <2> HIDE DEF fixed, floor
  <2>2. Max({fixed, floor}) \in {fixed, floor} /\ Max({fixed, floor}) >= fixed
        /\ Max({fixed, floor}) >= floor
    BY <2>1, LargerOfTwo
  <2> QED
    BY <2>1, <2>2 DEF floor
<1>3. more \in {0, 4096} /\ (Grows(l.entries) => more = 4096)
  OBVIOUS
<1>4. DiskMib(l.entries) = 1024 * ((least + more + 1023) \div 1024)
  BY DEF DiskMib
<1> HIDE DEF fixed, least, more
<1>5. DiskMib(l.entries) \in Int /\ DiskMib(l.entries) >= least + more
  BY <1>2, <1>3, <1>4
<1> QED
  BY <1>1, <1>2, <1>3, <1>5 DEF fixed

LEMMA DiskSize ==
    ASSUME NEW l \in ALayout
    PROVE  /\ DiskTotal(l) \in Nat /\ DiskTotal(l) > 34
           /\ UsableLimit(DiskTotal(l), l.gpt) \in Nat
           /\ Room(l) \in Int
           /\ Room(l) + Mib(1) + Mib(FixedMib(Partitions(l.entries)))
                 = UsableLimit(DiskTotal(l), l.gpt)
<1>1. DiskMib(l.entries) \in Nat /\ DiskMib(l.entries) >= 8192
  BY DiskIsLarge
<1>2. DiskTotal(l) \in Nat /\ DiskTotal(l) > 34
  BY <1>1 DEF DiskTotal, Mib
<1>3. UsableLimit(DiskTotal(l), l.gpt) \in Nat
  BY <1>2 DEF UsableLimit
<1>4. FixedMib(Partitions(l.entries)) \in Nat
  BY PartitionsOf DEF ALayout
<1> QED
  BY <1>2, <1>3, <1>4 DEF Room, Mib

LEMMA GrowersAreFinite ==
    ASSUME NEW l \in ALayout
    PROVE  IsFiniteSet(Growers(l)) /\ Cardinality(Growers(l)) \in Nat
<1> DEFINE ps == Partitions(l.entries)
           G == Growers(l)
<1>1. ps \in Seq(Entries)
  BY PartitionsOf DEF ALayout
<1>2. G \in SUBSET (1..Len(ps)) /\ Len(ps) \in Nat
  BY <1>1 DEF Growers
<1> HIDE DEF G
<1>3. IsFiniteSet(1..Len(ps))
  BY <1>2, FS_Interval
<1>4. IsFiniteSet(G)
  BY <1>2, <1>3, FS_Subset
<1> QED
  BY <1>4, FS_CardinalityType DEF G

\* The partitions that grow share the room, the others have their own size.
LEMMA Shares ==
    ASSUME NEW l \in ALayout, Installs(l), ValidLayout(l.entries)
    PROVE  /\ IsFiniteSet(Growers(l)) /\ Cardinality(Growers(l)) \in Nat
           /\ \E share \in Nat :
                /\ share * Cardinality(Growers(l)) <= Room(l)
                /\ \A i \in DOMAIN Partitions(l.entries) :
                    PartSectors(l, i) = Mib(FixedPart(Partitions(l.entries)[i]))
                                            + (IF i \in Growers(l) THEN share ELSE 0)
                /\ \A i \in DOMAIN Partitions(l.entries) :
                    PartSectors(l, i) \in Nat /\ PartSectors(l, i) > 0
<1> DEFINE ps == Partitions(l.entries)
           G == Growers(l)
           g == Cardinality(G)
           room == Room(l)
<1>1. /\ ps \in Seq(Entries)
      /\ \A n \in DOMAIN ps : ps[n] \in Entries /\ \E i \in DOMAIN l.entries : l.entries[i] = ps[n]
  BY PartitionsOf DEF ALayout
<1>2. IsFiniteSet(G) /\ g \in Nat
  BY GrowersAreFinite
<1>3. room \in Int /\ room >= 2048 * g
  BY DiskSize DEF Installs, Mib
<1> DEFINE share == IF g = 0 THEN 0 ELSE room \div g
<1>4. /\ share \in Nat /\ share * g <= room
      /\ g # 0 => share = room \div g /\ share > 0
  <2> HIDE DEF g, room
  <2>1. CASE g = 0
    BY <1>3, <2>1
  <2>2. CASE g # 0
    <3>1. g \in Nat /\ g > 0 /\ room \in Int /\ room >= 2048 * g
      BY <1>2, <1>3, <2>2
    <3> DEFINE q == room \div g
               r == room % g
    <3>2. q \in Int /\ r \in 0..(g - 1) /\ room = q * g + r
      BY <3>1
    <3>3. q * g <= room
      <4> DEFINE p == q * g
      <4>1. p \in Int
        BY <3>1, <3>2
      <4> HIDE DEF p, q, r
      <4>2. room = p + r
        BY <3>2 DEF p
      <4> QED
        BY <3>1, <3>2, <4>1, <4>2 DEF p
    <3>4. q > 0
      <4> SUFFICES ASSUME q <= 0 PROVE FALSE
        BY <3>2
      <4> HIDE DEF q, r
      <4>1. q * g <= 0
        BY <3>1, <3>2
      <4>2. q * g \in Int
        BY <3>1, <3>2
      <4> QED
        BY <3>1, <3>2, <4>1, <4>2
    <3>5. share = q
      BY <2>2
    <3> HIDE DEF q, share
    <3> QED
      BY <3>2, <3>3, <3>4, <3>5, <2>2 DEF q
  <2> QED
    BY <2>1, <2>2
<1>5. G # {} => g # 0
  BY <1>2, FS_EmptySet
<1>6. ASSUME NEW i \in DOMAIN ps
      PROVE  /\ PartSectors(l, i) = Mib(FixedPart(ps[i])) + (IF i \in G THEN share ELSE 0)
             /\ PartSectors(l, i) \in Nat /\ PartSectors(l, i) > 0
  <2>1. /\ ps[i].mode \in {"fixed", "remainder"} /\ ps[i].mib \in Nat
        /\ (ps[i].mode = "fixed") = (ps[i].mib > 0)
    BY <1>1 DEF Entries, ValidLayout, ValidEntry
  <2>2. CASE i \in G
    <3>1. ps[i].mode = "remainder"
      BY <2>2 DEF Growers
    <3>2. PartSectors(l, i) = share /\ share > 0
      BY <1>4, <1>5, <2>2 DEF PartSectors
    <3>3. Mib(FixedPart(ps[i])) = 0
      BY <3>1 DEF Mib, FixedPart
    <3> HIDE DEF share, ps, G
    <3> QED
      BY <1>4, <2>2, <3>2, <3>3
  <2>3. CASE i \notin G
    <3>1. ps[i].mode = "fixed"
      BY <2>1, <2>3 DEF Growers
    <3>2. PartSectors(l, i) = Mib(ps[i].mib) /\ FixedPart(ps[i]) = ps[i].mib
      BY <2>3, <3>1 DEF PartSectors, FixedPart
    <3>3. ps[i].mib \in Nat /\ ps[i].mib > 0
      BY <2>1, <3>1
    <3> HIDE DEF share, ps, G
    <3> QED
      BY <2>3, <3>2, <3>3 DEF Mib
  <2> QED
    BY <2>2, <2>3
<1> HIDE DEF share
<1> QED
  BY <1>2, <1>4, <1>6

\* What partitions take, and what they take together.
Sizes(n) == [1..n -> Nat]
Sums(n) == [0..n -> Nat]

LEMMA AddSectors ==
    ASSUME NEW s \in Int, NEW a \in Int, NEW x \in Int, NEW f \in Int, NEW b \in Int,
           s = 2048 * a + x
    PROVE  s + (2048 * f + b) = 2048 * (a + f) + (x + b)
  OBVIOUS

\* How many elements of a set of numbers come first.
LEMMA PrefixCounts ==
    ASSUME NEW n \in Nat, NEW G \in SUBSET (1..n)
    PROVE  \E count \in [0..n -> Nat] :
              /\ count[0] = 0 /\ count[n] = Cardinality(G)
              /\ \A k \in 1..n : count[k] = count[k - 1] + (IF k \in G THEN 1 ELSE 0)
<1> DEFINE upTo(k) == G \cap (1..k)
           count == [k \in 0..n |-> Cardinality(upTo(k))]
<1>1. ASSUME NEW k \in 0..n
      PROVE  IsFiniteSet(upTo(k)) /\ Cardinality(upTo(k)) \in Nat
  <2>1. IsFiniteSet(1..k)
    BY FS_Interval
  <2>2. IsFiniteSet(upTo(k))
    BY <2>1, FS_Subset
  <2> QED
    BY <2>2, FS_CardinalityType
<1>2. ASSUME NEW k \in 1..n
      PROVE  upTo(k) = (IF k \in G THEN upTo(k - 1) \cup {k} ELSE upTo(k - 1))
             /\ k \notin upTo(k - 1) /\ k - 1 \in 0..n /\ k \in 0..n
  OBVIOUS
<1>3. upTo(0) = {} /\ upTo(n) = G
  <2>1. upTo(0) = {}
    OBVIOUS
  <2>2. \A x \in G : x \in 1..n
    OBVIOUS
  <2>3. upTo(n) = G
    BY <2>2, Zenon
  <2> QED
    BY <2>1, <2>3
<1> HIDE DEF upTo
<1>4. count \in [0..n -> Nat] /\ \A k \in 0..n : count[k] = Cardinality(upTo(k))
  BY <1>1
<1>5. count[0] = 0 /\ count[n] = Cardinality(G)
  BY <1>3, <1>4, FS_EmptySet
<1> HIDE DEF count
<1>6. ASSUME NEW k \in 1..n
      PROVE  count[k] = count[k - 1] + (IF k \in G THEN 1 ELSE 0)
  <2>1. IsFiniteSet(upTo(k - 1)) /\ k \notin upTo(k - 1) /\ count[k - 1] \in Nat
    BY <1>1, <1>2, <1>4
  <2>2. Cardinality(upTo(k - 1) \cup {k}) = Cardinality(upTo(k - 1)) + 1
    BY <2>1, FS_AddElement
  <2>3. k \in 0..n /\ k - 1 \in 0..n
    BY <1>2
  <2>4. CASE k \in G
    <3>1. upTo(k) = upTo(k - 1) \cup {k}
      BY <1>2, <2>4
    <3>2. count[k] = Cardinality(upTo(k - 1)) + 1 /\ count[k - 1] = Cardinality(upTo(k - 1))
      BY <1>4, <2>2, <2>3, <3>1
    <3> QED
      BY <2>4, <3>2
  <2>5. CASE k \notin G
    <3>1. upTo(k) = upTo(k - 1)
      BY <1>2, <2>5
    <3>2. count[k] = count[k - 1]
      BY <1>4, <2>3, <3>1
    <3> QED
      BY <2>1, <2>5, <3>2
  <2> QED
    BY <2>4, <2>5
<1> QED
  BY <1>4, <1>5, <1>6

\* What the first partitions that grow take when each takes a share.
LEMMA PrefixShares ==
    ASSUME NEW n \in Nat, NEW G \in SUBSET (1..n), NEW share \in Nat
    PROVE  \E shares \in Sums(n) :
              /\ shares[0] = 0 /\ shares[n] = share * Cardinality(G)
              /\ \A k \in 1..n : shares[k] = shares[k - 1] + (IF k \in G THEN share ELSE 0)
<1>1. PICK count \in [0..n -> Nat] :
        /\ count[0] = 0 /\ count[n] = Cardinality(G)
        /\ \A k \in 1..n : count[k] = count[k - 1] + (IF k \in G THEN 1 ELSE 0)
  BY PrefixCounts
<1>2. \A c \in Nat : share * c \in Nat /\ share * (c + 1) = share * c + share
  OBVIOUS
<1>3. share * 0 = 0
  OBVIOUS
<1> DEFINE Times(c) == share * c
           shares == [k \in 0..n |-> Times(count[k])]
<1>4. Times(0) = 0 /\ \A c \in Nat : Times(c) \in Nat /\ Times(c + 1) = Times(c) + share
  BY <1>2, <1>3
<1>5. shares[n] = share * Cardinality(G)
  BY <1>1
<1> HIDE DEF Times
<1>6. shares \in Sums(n) /\ shares[0] = 0
  <2>1. \A k \in 0..n : count[k] \in Nat
    OBVIOUS
  <2>2. shares \in [0..n -> Nat]
    BY <1>4, <2>1
  <2>3. shares[0] = Times(count[0])
    OBVIOUS
  <2> QED
    BY <1>1, <1>4, <2>2, <2>3 DEF Sums
<1>7. ASSUME NEW k \in 1..n
      PROVE  shares[k] = shares[k - 1] + (IF k \in G THEN share ELSE 0)
  <2>1. k \in 0..n /\ k - 1 \in 0..n /\ count[k - 1] \in Nat
    OBVIOUS
  <2>2. shares[k] = Times(count[k]) /\ shares[k - 1] = Times(count[k - 1])
    BY <2>1
  <2> HIDE DEF shares
  <2>3. CASE k \in G
    BY <1>1, <1>4, <2>1, <2>2, <2>3
  <2>4. CASE k \notin G
    <3>1. count[k] = count[k - 1]
      BY <1>1, <2>1, <2>4
    <3>2. Times(count[k - 1]) \in Nat
      BY <1>4, <2>1
    <3> QED
      BY <2>2, <2>4, <3>1, <3>2
  <2> QED
    BY <2>3, <2>4
<1> HIDE DEF shares
<1> QED
  BY <1>5, <1>6, <1>7

\* The sectors of the first partitions: the fixed sizes and the shares.
LEMMA SumOfSectors ==
    ASSUME NEW n \in Nat, NEW fixed \in Sizes(n), NEW bonus \in Sizes(n),
           NEW sum \in Sums(n), NEW acc \in Sums(n), NEW shares \in Sums(n)
    PROVE  /\ sum[0] = 0 /\ acc[0] = 0 /\ shares[0] = 0
           /\ \A k \in 1..n :
                /\ acc[k] = acc[k - 1] + fixed[k]
                /\ shares[k] = shares[k - 1] + bonus[k]
                /\ sum[k] = sum[k - 1] + (2048 * fixed[k] + bonus[k])
           => sum[n] = 2048 * acc[n] + shares[n]
<1>1. SUFFICES ASSUME /\ sum[0] = 0 /\ acc[0] = 0 /\ shares[0] = 0
                      /\ \A k \in 1..n :
                           /\ acc[k] = acc[k - 1] + fixed[k]
                           /\ shares[k] = shares[k - 1] + bonus[k]
                           /\ sum[k] = sum[k - 1] + (2048 * fixed[k] + bonus[k])
               PROVE  sum[n] = 2048 * acc[n] + shares[n]
  OBVIOUS
<1> DEFINE Holds(k) == sum[k] = 2048 * acc[k] + shares[k]
           T == {k \in Nat : k <= n => Holds(k)}
<1>2. Holds(0)
  BY <1>1
<1>3. ASSUME NEW k \in 0..(n - 1), Holds(k)
      PROVE  Holds(k + 1)
  <2>1. k \in 0..n /\ k + 1 \in 1..n /\ (k + 1) - 1 = k
    OBVIOUS
  <2> DEFINE j == k + 1
  <2>2. j - 1 = k /\ j \in 1..n
    BY <2>1
  <2>3. /\ acc[j] = acc[j - 1] + fixed[j]
        /\ shares[j] = shares[j - 1] + bonus[j]
        /\ sum[j] = sum[j - 1] + (2048 * fixed[j] + bonus[j])
    <3> HIDE DEF j
    <3> QED
      BY <1>1, <2>2
  <2>4. /\ sum[k] \in Int /\ acc[k] \in Int /\ shares[k] \in Int /\ fixed[j] \in Int
        /\ bonus[j] \in Int
    BY <2>1 DEF Sums, Sizes
  <2>5. sum[k] + (2048 * fixed[j] + bonus[j])
            = 2048 * (acc[k] + fixed[j]) + (shares[k] + bonus[j])
    BY <1>3, <2>4, AddSectors
  <2> HIDE DEF j
  <2>6. Holds(j)
    BY <2>2, <2>3, <2>5
  <2> QED
    BY <2>6 DEF j
<1>4. Nat \subseteq T
  <2> HIDE DEF Holds
  <2>1. 0 \in T
    BY <1>2
  <2>2. ASSUME NEW k \in Nat, k \in T
        PROVE  k + 1 \in T
    <3>1. k + 1 <= n => k \in 0..(n - 1) /\ k <= n
      OBVIOUS
    <3> QED
      BY <1>3, <2>2, <3>1
  <2> HIDE DEF T
  <2> QED
    BY <2>1, <2>2, SetInduction
<1> QED
  BY <1>4

\* Partitions of some sizes, side by side.
Placed(n, sizes, sum) ==
    [i \in 1..n |-> [start |-> 2048 + sum[i - 1], size |-> sizes[i]]]

\* Such a table can be written below their end.
LEMMA SideBySide ==
    ASSUME NEW n \in Nat, NEW sizes \in Sizes(n), NEW sum \in Sums(n), NEW limit \in Nat
    PROVE  /\ Placed(n, sizes, sum) \in Seq(Slots)
           /\ /\ \A k \in 1..n : sum[k] = sum[k - 1] + sizes[k] /\ sizes[k] > 0
              /\ \A j, k \in 0..n : j <= k => sum[j] <= sum[k]
              /\ 2048 + sum[n] <= limit
              => Writable(Placed(n, sizes, sum), limit)
<1> DEFINE t == Placed(n, sizes, sum)
<1> USE DEF Sizes, Sums, Placed
<1>1. \A i \in 1..n : i \in Nat /\ i - 1 \in 0..n /\ i \in 0..n
  OBVIOUS
<1>2. \A i \in 1..n : t[i].start = 2048 + sum[i - 1] /\ t[i].size = sizes[i]
  OBVIOUS
<1>3. t \in Seq(Slots)
  <2>1. ASSUME NEW i \in 1..n
        PROVE  [start |-> 2048 + sum[i - 1], size |-> sizes[i]] \in Slots
    BY <1>1 DEF Slots
  <2> QED
    BY <2>1
<1>0. SUFFICES ASSUME /\ \A k \in 1..n : sum[k] = sum[k - 1] + sizes[k] /\ sizes[k] > 0
                      /\ \A j, k \in 0..n : j <= k => sum[j] <= sum[k]
                      /\ 2048 + sum[n] <= limit
               PROVE  Writable(t, limit)
  BY <1>3
<1>4. DOMAIN t = 1..n
  OBVIOUS
<1> HIDE DEF t, Placed
<1>5. \A i \in 1..n : End(t[i]) = 2048 + sum[i]
  <2> SUFFICES ASSUME NEW i \in 1..n PROVE End(t[i]) = 2048 + sum[i]
    OBVIOUS
  <2>1. sum[i - 1] \in Nat /\ sizes[i] \in Nat /\ sum[i] = sum[i - 1] + sizes[i]
    BY <1>0, <1>1
  <2>2. t[i].start = 2048 + sum[i - 1] /\ t[i].size = sizes[i]
    BY <1>2
  <2> QED
    BY <2>1, <2>2 DEF End
<1>6. ASSUME NEW i \in 1..n, NEW j \in 1..n, i < j
      PROVE  End(t[i]) <= t[j].start
  <2>1. i \in 0..n /\ j - 1 \in 0..n /\ i <= j - 1
    BY <1>6
  <2>2. sum[i] \in Nat /\ sum[j - 1] \in Nat /\ sum[i] <= sum[j - 1]
    BY <1>0, <2>1
  <2>3. End(t[i]) = 2048 + sum[i] /\ t[j].start = 2048 + sum[j - 1]
    BY <1>2, <1>5
  <2> QED
    BY <2>2, <2>3
<1>7. ASSUME NEW i \in 1..n
      PROVE  t[i].size > 0 /\ End(t[i]) <= limit
  <2>1. i \in 0..n /\ n \in 0..n /\ i <= n
    OBVIOUS
  <2>2. sum[i] \in Nat /\ sum[n] \in Nat /\ sum[i] <= sum[n]
    BY <1>0, <2>1
  <2>3. /\ End(t[i]) = 2048 + sum[i] /\ t[i].size = sizes[i]
        /\ sizes[i] > 0 /\ 2048 + sum[n] <= limit
    BY <1>0, <1>2, <1>5
  <2> QED
    BY <2>2, <2>3
<1>8. Disjoint(t)
  BY <1>4, <1>6 DEF Disjoint
<1> QED
  BY <1>4, <1>7, <1>8 DEF Writable

\* What the installer makes fits on the disk of the machine.
LEMMA InstalledFits ==
    ASSUME NEW l \in ALayout, Installs(l), ValidLayout(l.entries)
    PROVE  /\ InstalledTable(l) \in Seq(Slots)
           /\ DOMAIN InstalledTable(l) = DOMAIN Partitions(l.entries)
           /\ Writable(InstalledTable(l), UsableLimit(DiskTotal(l), l.gpt))
<1> DEFINE ps == Partitions(l.entries)
           n == Len(ps)
           G == Growers(l)
           limit == UsableLimit(DiskTotal(l), l.gpt)
           sizes == [i \in DOMAIN ps |-> PartSectors(l, i)]
           fixed == [i \in DOMAIN ps |-> FixedPart(ps[i])]
           t == InstalledTable(l)
<1>1. /\ ps \in Seq(Entries) /\ n \in Nat /\ DOMAIN ps = 1..n
      /\ \A i \in 1..n : ps[i] \in Entries
      /\ FixedMib(ps) \in Nat
  BY PartitionsOf DEF ALayout
<1>2. PICK share \in Nat :
        /\ share * Cardinality(G) <= Room(l)
        /\ \A i \in 1..n : PartSectors(l, i) = Mib(FixedPart(ps[i]))
                                                  + (IF i \in G THEN share ELSE 0)
        /\ \A i \in 1..n : PartSectors(l, i) \in Nat /\ PartSectors(l, i) > 0
  BY <1>1, Shares
<1>3. G \in SUBSET (1..n) /\ Cardinality(G) \in Nat
  BY <1>1, Shares DEF Growers
<1>4. /\ limit \in Nat /\ Room(l) \in Int
      /\ Room(l) + 2048 + 2048 * FixedMib(ps) = limit
  BY DiskSize DEF Mib
<1>5. /\ sizes \in Sizes(n) /\ sizes \in Seq(Nat) /\ Len(sizes) = n
      /\ \A i \in 1..n : sizes[i] = PartSectors(l, i) /\ sizes[i] > 0
  BY <1>1, <1>2 DEF Sizes
<1>6. \A e \in Entries : FixedPart(e) \in Nat
  BY DEF FixedPart, Entries
<1>7. /\ fixed \in Sizes(n) /\ fixed \in Seq(Nat) /\ Len(fixed) = n
      /\ \A i \in 1..n : fixed[i] = FixedPart(ps[i])
  <2> HIDE DEF ps, n
  <2> QED
    BY <1>1, <1>6 DEF Sizes
<1>8. FixedMib(ps) = Total(fixed)
  BY DEF FixedMib, FixedPart
<1> DEFINE bonus == [i \in 1..n |-> IF i \in G THEN share ELSE 0]
<1>9. /\ bonus \in Sizes(n)
      /\ \A i \in 1..n : bonus[i] = IF i \in G THEN share ELSE 0
  <2> HIDE DEF G, n
  <2> QED
    BY DEF Sizes
<1>10. t = [i \in 1..n |-> [start |-> 2048 + Total(SubSeq(sizes, 1, i - 1)), size |-> sizes[i]]]
  BY <1>1 DEF InstalledTable, Mib
<1> HIDE DEF sizes, fixed, bonus, limit, t, G, n, ps
<1>11. ASSUME NEW i \in 1..n
       PROVE  sizes[i] = 2048 * fixed[i] + bonus[i]
  <2>1. sizes[i] = PartSectors(l, i) /\ fixed[i] = FixedPart(ps[i])
    BY <1>5, <1>7
  <2>2. PartSectors(l, i) = Mib(FixedPart(ps[i])) + bonus[i]
    BY <1>2, <1>9
  <2> QED
    BY <2>1, <2>2 DEF Mib
<1>12. PICK sum \in Sums(n) :
        /\ sum[0] = 0
        /\ \A k \in 1..n : sum[k] = sum[k - 1] + sizes[k]
        /\ \A k \in 0..n : Total(SubSeq(sizes, 1, k)) = sum[k]
        /\ \A j, k \in 0..n : j <= k => sum[j] <= sum[k]
  BY <1>5, PrefixTotals DEF Sums
<1>13. PICK acc \in Sums(n) :
        /\ acc[0] = 0
        /\ \A k \in 1..n : acc[k] = acc[k - 1] + fixed[k]
        /\ Total(fixed) = acc[n]
  <2>1. PICK acc \in [0..n -> Nat] :
          /\ acc[0] = 0
          /\ \A k \in 1..n : acc[k] = acc[k - 1] + fixed[k]
          /\ \A k \in 0..n : Total(SubSeq(fixed, 1, k)) = acc[k]
    BY <1>7, PrefixTotals
  <2>2. SubSeq(fixed, 1, n) = fixed /\ n \in 0..n
    BY <1>1, <1>7
  <2> QED
    BY <2>1, <2>2 DEF Sums
<1>14. PICK shares \in Sums(n) :
        /\ shares[0] = 0 /\ shares[n] = share * Cardinality(G)
        /\ \A k \in 1..n : shares[k] = shares[k - 1] + (IF k \in G THEN share ELSE 0)
  <2>1. n \in Nat /\ G \in SUBSET (1..n)
    BY <1>1, <1>3
  <2> QED
    BY <2>1, PrefixShares
<1>15. sum[n] = 2048 * acc[n] + shares[n]
  <2>1. sum[0] = 0 /\ acc[0] = 0 /\ shares[0] = 0
    BY <1>12, <1>13, <1>14
  <2>2. ASSUME NEW k \in 1..n
        PROVE  /\ acc[k] = acc[k - 1] + fixed[k]
               /\ shares[k] = shares[k - 1] + bonus[k]
               /\ sum[k] = sum[k - 1] + (2048 * fixed[k] + bonus[k])
    BY <1>9, <1>11, <1>12, <1>13, <1>14
  <2>3. n \in Nat /\ fixed \in Sizes(n) /\ bonus \in Sizes(n)
    BY <1>1, <1>7, <1>9
  <2> QED
    BY <2>1, <2>2, <2>3, SumOfSectors
<1>16. sum[n] \in Nat /\ 2048 + sum[n] <= limit
  <2>1. sum[n] \in Nat /\ shares[n] \in Nat
    BY <1>1, <1>12, <1>14 DEF Sums
  <2>2. sum[n] = 2048 * FixedMib(ps) + shares[n] /\ shares[n] <= Room(l)
    BY <1>2, <1>8, <1>13, <1>14, <1>15
  <2> QED
    BY <1>1, <1>4, <2>1, <2>2
<1>17. t = Placed(n, sizes, sum)
  <2>1. ASSUME NEW i \in 1..n
        PROVE  Total(SubSeq(sizes, 1, i - 1)) = sum[i - 1]
    <3>1. i - 1 \in 0..n
      BY <1>1
    <3> QED
      BY <1>12, <3>1
  <2> QED
    BY <1>10, <2>1 DEF Placed
<1>18. \A k \in 1..n : sum[k] = sum[k - 1] + sizes[k] /\ sizes[k] > 0
  BY <1>5, <1>12
<1>19. t \in Seq(Slots) /\ Writable(t, limit)
  <2>1. n \in Nat /\ limit \in Nat /\ sizes \in Sizes(n)
    BY <1>1, <1>4, <1>5
  <2>2. \A j, k \in 0..n : j <= k => sum[j] <= sum[k]
    BY <1>12
  <2> QED
    BY <1>16, <1>17, <1>18, <2>1, <2>2, SideBySide
<1>20. DOMAIN t = 1..n
  BY <1>17 DEF Placed
<1> QED
  BY <1>1, <1>19, <1>20 DEF t, limit, ps

\* Where an entry takes what is left, 4 GiB leave every one of up to 4094 such
\* partitions its MiB.
LEMMA RoomForRemainders ==
    ASSUME NEW l \in ALayout, Growers(l) # {}, Cardinality(Growers(l)) \in Nat,
           Cardinality(Growers(l)) <= 4094
    PROVE  Room(l) >= Mib(Cardinality(Growers(l)))
<1> DEFINE ps == Partitions(l.entries)
<1>1. Grows(l.entries)
  <2>1. PICK n \in DOMAIN ps : ps[n].mode = "remainder"
    BY DEF Growers
  <2>2. PICK i \in DOMAIN l.entries : l.entries[i] = ps[n]
    BY PartitionsOf DEF ALayout
  <2> QED
    BY <2>1, <2>2 DEF Grows
<1>2. /\ DiskMib(l.entries) \in Nat /\ FixedMib(l.entries) \in Nat /\ FixedMib(ps) \in Nat
      /\ DiskMib(l.entries) >= FixedMib(l.entries) + 4096
      /\ FixedMib(ps) <= FixedMib(l.entries)
  BY <1>1, DiskIsLarge, PartitionsOf DEF ALayout
<1>3. DiskTotal(l) = 2048 * DiskMib(l.entries)
  BY DEF DiskTotal, Mib
<1>4. /\ UsableLimit(DiskTotal(l), l.gpt) \in Nat
      /\ UsableLimit(DiskTotal(l), l.gpt) >= DiskTotal(l) - 33
  BY <1>2, <1>3, DiskSize DEF UsableLimit
<1>5. /\ Room(l) \in Int
      /\ Room(l) + 2048 + 2048 * FixedMib(ps) = UsableLimit(DiskTotal(l), l.gpt)
  BY DiskSize DEF Mib
<1> DEFINE count == Cardinality(Growers(l))
           limit == UsableLimit(DiskTotal(l), l.gpt)
<1>6. count \in Nat /\ count <= 4094
  OBVIOUS
<1> HIDE DEF ps, count, limit
<1>7. Room(l) >= 2048 * count
  BY <1>2, <1>3, <1>4, <1>5, <1>6 DEF limit
<1> QED
  BY <1>7 DEF Mib, count

-----------------------------------------------------------------------------
(* Limits *)

\* A target that has the required sectors has those of the dumped disk.
LEMMA RequiredIs ==
    ASSUME NEW t \in Seq(Slots), NEW total \in Nat
    PROVE  Required(t, total) \in Nat /\ Required(t, total) >= total
<1> DEFINE D == DOMAIN t
           end == [i \in D |-> End(t[i])]
           ends == {end[i] : i \in D}
           S == {total} \cup ends
<1>1. \A i \in D : end[i] \in Nat
  BY SlotFields DEF End
<1>2. IsFiniteSet(D)
  <2>1. D = 1..Len(t) /\ Len(t) \in Nat
    OBVIOUS
  <2> QED
    BY <2>1, FS_Interval
<1>3. IsFiniteSet(ends)
  <2>1. end \in Surjection(D, ends)
    BY DEF Surjection
  <2> QED
    BY <1>2, <2>1, FS_Surjection
<1>4. S = {total} \cup {End(t[i]) : i \in D}
  OBVIOUS
<1>5. S \in SUBSET Nat /\ total \in S
  BY <1>1
<1> HIDE DEF ends
<1>6. IsFiniteSet(S)
  <2>1. IsFiniteSet({total})
    BY FS_Singleton
  <2> QED
    BY <1>3, <2>1, FS_Union
<1> HIDE DEF S
<1>7. Max(S) \in S /\ \A j \in S : j <= Max(S)
  <2>1. S \in SUBSET Int /\ S # {}
    BY <1>5
  <2> QED
    BY <1>6, <2>1, LargestNumber
<1> QED
  BY <1>4, <1>5, <1>7 DEF Required

\* A larger disk leaves at least as much to use.
LEMMA LargerDisk ==
    ASSUME NEW small \in Nat, small > 34, NEW large \in Nat, large >= small, NEW gpt
    PROVE  /\ UsableLimit(small, gpt) \in Nat /\ UsableLimit(large, gpt) \in Nat
           /\ UsableLimit(large, gpt) >= UsableLimit(small, gpt)
<1>1. CASE gpt
  BY <1>1 DEF UsableLimit
<1>2. CASE ~gpt
  BY <1>2 DEF UsableLimit
<1> QED
  BY <1>1, <1>2

LEMMA MoreRoom ==
    ASSUME NEW t \in Seq(Slots), NEW limit \in Nat, Writable(t, limit),
           NEW more \in Nat, more >= limit
    PROVE  Writable(t, more)
<1>1. ASSUME NEW i \in DOMAIN t
      PROVE  t[i].size > 0 /\ End(t[i]) <= more
  <2>1. End(t[i]) \in Nat /\ End(t[i]) <= limit /\ t[i].size > 0
    BY SlotFields DEF Writable, End
  <2> QED
    BY <2>1
<1> QED
  BY <1>1 DEF Writable

\* What is planned for a table is a table.
LEMMA NewTableIsTable ==
    ASSUME NEW t \in Seq(Slots), NEW grow, NEW limit \in Nat,
           Writable(t, limit), CanPlace(t, grow, limit)
    PROVE  NewTable(t, grow, limit) \in Seq(Slots)
<1> DEFINE n == Len(t)
<1>1. n \in Nat /\ DOMAIN t = 1..n
  OBVIOUS
<1>2. ASSUME NEW i \in 1..n
      PROVE  [start |-> t[i].start, size |-> NewSize(t, grow, limit, i)] \in Slots
  <2>1. Disjoint(t) /\ \A k \in DOMAIN t : t[k].size > 0 /\ End(t[k]) <= limit
    BY DEF Writable
  <2>2. NewSize(t, grow, limit, i) \in Nat /\ t[i].start \in Nat
    BY <1>1, <2>1, NewSizeStops, SlotFields
  <2> QED
    BY <2>2 DEF Slots
<1>3. NewTable(t, grow, limit)
          = [i \in 1..n |-> [start |-> t[i].start, size |-> NewSize(t, grow, limit, i)]]
  BY <1>1 DEF NewTable
<1> HIDE DEF n
<1> QED
  BY <1>1, <1>2, <1>3

-----------------------------------------------------------------------------
(* The inductive invariant *)

\* The script makes partition i a LUKS container.
Encrypts(i) ==
    EntryFor(manifest.entries, i).luks /\ EntryFor(manifest.entries, i).mount # "swap"

LayoutInv ==
    /\ layout \in Layouts /\ ValidLayout(layout.entries)
    /\ built \in Layouts \cup {None}
    /\ built # None => ValidLayout(built.entries) /\ Installs(built)

\* The clone release is the dump of a machine that was installed with a layout.
DumpOf(l) ==
    /\ ValidLayout(l.entries) /\ Installs(l)
    /\ manifest.gpt = l.gpt
    /\ manifest.table = InstalledTable(l)
    /\ manifest.total = DiskTotal(l)
    /\ manifest.source = l.entries
    /\ \A i \in manifest.empty :
        i \in DOMAIN Partitions(l.entries) /\ MayBeEmpty(Partitions(l.entries)[i])

ManifestInv ==
    /\ DOMAIN manifest = DOMAIN NoManifest
    /\ manifest # NoManifest => \E l \in Layouts : DumpOf(l)
    /\ stage # "off" => manifest # NoManifest

DiskInv ==
    /\ size \in [Disks -> DiskSectors]
    /\ parted \subseteq Present
    /\ disk \in Present \cup {NoDisk}
    /\ stage \in Stages
    /\ remote \in BOOLEAN /\ override \in BOOLEAN /\ consent \in BOOLEAN
    /\ cause \in Causes /\ (cause # "" <=> stage = "failed")
    /\ stage \in {"plan", "ask", "wipe", "write", "images"} =>
        disk # NoDisk /\ (~override => size[disk] >= RequiredSectors)

\* The table of sfdisk.layout is the one made for the chosen disk.
Planned ==
    /\ disk \in Present
    /\ CanPlace(manifest.table, Growing, PlanLimit)
    /\ table = NewTable(manifest.table, Growing, PlanLimit)

TableInv ==
    /\ stage \in {"ask", "wipe", "write", "images"} \/ cause = "images" => Planned
    /\ stage \in {"off", "choose", "plan"} => table = <<>>
    /\ table # <<>> => Planned

\* Every image before the current one was empty, and every partition so far is a
\* container or not as its entry says.
ImagesInv ==
    /\ stage # "images" /\ cause # "images" => part = 0 /\ formatted = {}
    /\ stage = "images" =>
        /\ part \in DOMAIN table
        /\ formatted = {i \in 1..(part - 1) : Encrypts(i)}
        /\ 1..(part - 1) \subseteq manifest.empty
    /\ cause = "images" =>
        /\ part \in DOMAIN table
        /\ formatted = {i \in 1..part : Encrypts(i)}

RestoreInv == LayoutInv /\ ManifestInv /\ DiskInv /\ TableInv /\ ImagesInv

-----------------------------------------------------------------------------
(* What the invariant says of the dump and of the plan *)

LEMMA LayoutsAre == Layouts \subseteq ALayout
  BY RestoreAssumption DEF ALayout

\* A dump has a partition whose image has bytes.
LEMMA DumpFacts ==
    ASSUME ManifestInv, manifest # NoManifest
    PROVE  /\ manifest.table \in Seq(Slots)
           /\ manifest.total \in Nat /\ manifest.total > 34
           /\ Writable(manifest.table, UsableLimit(manifest.total, manifest.gpt))
           /\ DOMAIN manifest.table = DOMAIN Partitions(manifest.source)
           /\ \E k \in DOMAIN manifest.table : k \notin manifest.empty
<1>1. PICK l \in Layouts : DumpOf(l)
  BY DEF ManifestInv
<1>2. l \in ALayout /\ l.entries \in Seq(Entries)
  BY LayoutsAre DEF ALayout
<1>3. /\ ValidLayout(l.entries) /\ Installs(l)
      /\ manifest.gpt = l.gpt /\ manifest.table = InstalledTable(l)
      /\ manifest.total = DiskTotal(l) /\ manifest.source = l.entries
  BY <1>1 DEF DumpOf
<1>4. /\ manifest.table \in Seq(Slots)
      /\ Writable(manifest.table, UsableLimit(manifest.total, manifest.gpt))
      /\ DOMAIN manifest.table = DOMAIN Partitions(manifest.source)
  BY <1>2, <1>3, InstalledFits
<1>5. manifest.total \in Nat /\ manifest.total > 34
  BY <1>2, <1>3, DiskSize
<1>6. \E k \in DOMAIN Partitions(l.entries) : ~MayBeEmpty(Partitions(l.entries)[k])
  <2>1. PICK i \in DOMAIN l.entries :
          /\ l.entries[i].mount = "root"
          /\ l.entries[i].role = "lv" => \E j \in DOMAIN l.entries : l.entries[j].role = "pv"
    BY <1>3 DEF Installs
  <2>2. PICK j \in DOMAIN l.entries : l.entries[j].role # "lv" /\ ~MayBeEmpty(l.entries[j])
    BY <2>1 DEF MayBeEmpty
  <2>3. PICK k \in DOMAIN Partitions(l.entries) : Partitions(l.entries)[k] = l.entries[j]
    BY <1>2, <2>2, PartitionsOf
  <2> QED
    BY <2>2, <2>3
<1>7. \E k \in DOMAIN manifest.table : k \notin manifest.empty
  BY <1>1, <1>3, <1>4, <1>6 DEF DumpOf
<1> QED
  BY <1>4, <1>5, <1>7

\* The limit of the plan is that of the chosen disk, or larger when TARGET_DISK named a
\* smaller one.
LEMMA LimitFacts ==
    ASSUME ManifestInv, manifest # NoManifest, DiskInv, disk \in Present
    PROVE  /\ RequiredSectors \in Nat /\ size[disk] \in Nat
           /\ PlanLimit \in Nat
           /\ Writable(manifest.table, PlanLimit)
           /\ size[disk] >= RequiredSectors =>
                 PlanLimit = UsableLimit(size[disk], manifest.gpt)
<1> DEFINE larger == Max({RequiredSectors, size[disk]})
<1>1. /\ manifest.table \in Seq(Slots) /\ manifest.total \in Nat /\ manifest.total > 34
      /\ Writable(manifest.table, UsableLimit(manifest.total, manifest.gpt))
  BY DumpFacts
<1>2. RequiredSectors \in Nat /\ RequiredSectors >= manifest.total
  BY <1>1, RequiredIs DEF RequiredSectors
<1>3. size[disk] \in Nat
  BY RestoreAssumption DEF DiskInv, Present
<1>4. /\ larger \in {RequiredSectors, size[disk]} /\ larger >= RequiredSectors
      /\ larger >= size[disk]
  <2> DEFINE r == RequiredSectors
             s == size[disk]
  <2>1. r \in Int /\ s \in Int
    BY <1>2, <1>3
  <2> HIDE DEF r, s
  <2>2. Max({r, s}) \in {r, s} /\ Max({r, s}) >= r /\ Max({r, s}) >= s
    BY <2>1, LargerOfTwo
  <2> QED
    BY <2>2 DEF r, s
<1>5. PlanLimit = UsableLimit(larger, manifest.gpt)
  BY DEF PlanLimit
<1> HIDE DEF larger
<1>6. larger \in Nat /\ larger >= manifest.total
  BY <1>1, <1>2, <1>3, <1>4
<1>7. /\ UsableLimit(manifest.total, manifest.gpt) \in Nat /\ PlanLimit \in Nat
      /\ PlanLimit >= UsableLimit(manifest.total, manifest.gpt)
  BY <1>1, <1>5, <1>6, LargerDisk
<1>8. Writable(manifest.table, PlanLimit)
  BY <1>1, <1>7, MoreRoom
<1>9. size[disk] >= RequiredSectors => larger = size[disk]
  BY <1>2, <1>3, <1>4
<1> QED
  BY <1>2, <1>3, <1>5, <1>7, <1>8, <1>9

\* The planned table.
LEMMA PlanFacts ==
    ASSUME ManifestInv, manifest # NoManifest, DiskInv, Planned
    PROVE  /\ table \in Seq(Slots)
           /\ DOMAIN table = DOMAIN manifest.table
           /\ \A i \in DOMAIN table : table[i].size >= manifest.table[i].size
           /\ Writable(table, PlanLimit)
<1>1. manifest.table \in Seq(Slots)
  BY DumpFacts
<1>2. PlanLimit \in Nat /\ Writable(manifest.table, PlanLimit)
  BY LimitFacts DEF Planned
<1>3. CanPlace(manifest.table, Growing, PlanLimit)
      /\ table = NewTable(manifest.table, Growing, PlanLimit)
  BY DEF Planned
<1> QED
  BY <1>1, <1>2, <1>3, PlannedTableFits, NewTableIsTable

-----------------------------------------------------------------------------
(* The invariant holds *)

LEMMA InitRestore == Init => RestoreInv
<1> SUFFICES ASSUME Init PROVE RestoreInv
  OBVIOUS
<1>1. LayoutInv
  BY DEF Init, LayoutInv
<1>2. ManifestInv
  BY DEF Init, ManifestInv
<1>3. DiskInv
  BY Zenon DEF Init, DiskInv, Stages, Causes
<1>4. TableInv
  BY DEF Init, TableInv
<1>5. ImagesInv
  BY DEF Init, ImagesInv
<1> QED
  BY <1>1, <1>2, <1>3, <1>4, <1>5 DEF RestoreInv

\* While the clone release and the target stay as they are, so does what was planned.
LEMMA SamePlan ==
    ASSUME UNCHANGED manifest, UNCHANGED <<size, disk>>
    PROVE  /\ RequiredSectors' = RequiredSectors /\ Growing' = Growing
           /\ Present' = Present /\ PlanLimit' = PlanLimit
           /\ UNCHANGED table => Planned' = Planned
  BY DEF RequiredSectors, Growing, Present, PlanLimit, Planned

\* What the script leaves alone.
LEMMA ScriptFrame ==
    ASSUME RestoreInv, UNCHANGED release, UNCHANGED size, stage' # "off" => manifest # NoManifest
    PROVE  /\ LayoutInv' /\ ManifestInv'
           /\ RequiredSectors' = RequiredSectors /\ Growing' = Growing /\ Present' = Present
           /\ \A i : Encrypts(i)' = Encrypts(i)
<1>1. layout' = layout /\ built' = built /\ manifest' = manifest
  BY DEF release
<1>2. LayoutInv'
  BY <1>1 DEF RestoreInv, LayoutInv
<1>3. \A l : DumpOf(l)' <=> DumpOf(l)
  BY <1>1 DEF DumpOf
<1>4. ManifestInv'
  BY <1>1, <1>3 DEF RestoreInv, ManifestInv
<1> QED
  BY <1>1, <1>2, <1>4 DEF RequiredSectors, Growing, Present, Encrypts

\* A step of the web application touches no target.
LEMMA TargetFrame ==
    ASSUME RestoreInv, UNCHANGED <<target, stage, attempt, manifest>>, LayoutInv'
    PROVE  RestoreInv'
<1>1. /\ manifest' = manifest /\ stage' = stage /\ size' = size /\ parted' = parted
      /\ remote' = remote /\ override' = override /\ disk' = disk /\ consent' = consent
      /\ table' = table /\ part' = part /\ formatted' = formatted /\ cause' = cause
  BY DEF target, attempt
<1>2. \A l : DumpOf(l)' <=> DumpOf(l)
  BY <1>1 DEF DumpOf
<1>3. ManifestInv'
  BY <1>1, <1>2 DEF RestoreInv, ManifestInv
<1>4. /\ RequiredSectors' = RequiredSectors /\ Present' = Present /\ Planned' = Planned
      /\ \A i : Encrypts(i)' = Encrypts(i)
  BY <1>1, SamePlan DEF Encrypts
<1>5. DiskInv'
  BY <1>1, <1>4 DEF RestoreInv, DiskInv
<1>6. TableInv'
  BY <1>1, <1>4 DEF RestoreInv, TableInv
<1>7. ImagesInv'
  BY <1>1, <1>4 DEF RestoreInv, ImagesInv
<1> QED
  BY <1>3, <1>5, <1>6, <1>7 DEF RestoreInv

LEMMA EditKeeps ==
    ASSUME RestoreInv, EditLayout
    PROVE  RestoreInv'
<1>1. PICK l \in Layouts : SaveLayout(l)
  BY DEF EditLayout, CreateEntry, UpdateEntry, DeleteEntry, ReplaceEntries
<1>2. /\ layout' = l /\ ValidLayout(l.entries) /\ built' = built
      /\ UNCHANGED <<target, stage, attempt, manifest>>
  BY <1>1 DEF SaveLayout
<1>3. LayoutInv'
  BY <1>2 DEF RestoreInv, LayoutInv
<1> QED
  BY <1>2, <1>3, TargetFrame

LEMMA InstallKeeps ==
    ASSUME RestoreInv, InstallBuild
    PROVE  RestoreInv'
<1>1. /\ layout' = layout /\ built' = layout /\ Installs(layout)
      /\ UNCHANGED <<target, stage, attempt, manifest>>
  BY DEF InstallBuild
<1>2. LayoutInv'
  BY <1>1 DEF RestoreInv, LayoutInv
<1> QED
  BY <1>1, <1>2, TargetFrame

LEMMA DumpKeeps ==
    ASSUME RestoreInv, Dump
    PROVE  RestoreInv'
<1>1. /\ stage = "off" /\ built # None /\ layout' = layout /\ built' = built
      /\ UNCHANGED <<target, stage, attempt>>
  BY DEF Dump
<1>2. PICK empty \in SUBSET {i \in DOMAIN Partitions(built.entries) :
                                MayBeEmpty(Partitions(built.entries)[i])} :
        manifest' = [gpt |-> built.gpt, table |-> InstalledTable(built),
                     total |-> DiskTotal(built), entries |-> layout.entries,
                     source |-> built.entries, empty |-> empty]
  BY DEF Dump
<1>3. /\ stage' = "off" /\ size' = size /\ parted' = parted
      /\ remote' = remote /\ override' = override /\ disk' = disk /\ consent' = consent
      /\ table' = table /\ part' = part /\ formatted' = formatted /\ cause' = cause
  BY <1>1 DEF target, attempt
<1>4. LayoutInv'
  BY <1>1 DEF RestoreInv, LayoutInv
<1>5. ManifestInv'
  <2>1. built \in Layouts /\ ValidLayout(built.entries) /\ Installs(built)
    BY <1>1 DEF RestoreInv, LayoutInv
  <2>2. DumpOf(built)'
    BY <1>1, <1>2, <2>1 DEF DumpOf
  <2>3. DOMAIN manifest' = DOMAIN NoManifest
    BY <1>2 DEF NoManifest
  <2>4. built' \in Layouts /\ built' = built
    BY <1>1, <2>1
  <2>5. \E l \in Layouts : DumpOf(l)'
    BY <2>1, <2>2, <1>1, <1>2 DEF DumpOf
  <2> QED
    BY <1>3, <2>3, <2>5 DEF ManifestInv
<1>6. DiskInv'
  <2>1. Present' = Present
    BY <1>3 DEF Present
  <2> QED
    BY <1>1, <1>3, <2>1 DEF RestoreInv, DiskInv
<1>7. TableInv'
  <2>1. cause = "" /\ table = <<>>
    BY <1>1 DEF RestoreInv, DiskInv, TableInv
  <2> QED
    BY <1>3, <2>1 DEF TableInv
<1>8. ImagesInv'
  <2>1. cause = "" /\ part = 0 /\ formatted = {}
    BY <1>1 DEF RestoreInv, DiskInv, ImagesInv
  <2> QED
    BY <1>3, <2>1 DEF ImagesInv
<1> QED
  BY <1>4, <1>5, <1>6, <1>7, <1>8 DEF RestoreInv

LEMMA BootKeeps ==
    ASSUME RestoreInv, Boot
    PROVE  RestoreInv'
<1>1. /\ manifest # NoManifest /\ UNCHANGED <<release, target>>
      /\ disk' = NoDisk /\ table' = <<>> /\ part' = 0 /\ formatted' = {}
      /\ \/ stage' = "choose" /\ cause' = ""
         \/ stage' = "failed" /\ cause' = "media"
  BY DEF Boot, Fail
<1>2. remote' \in BOOLEAN /\ override' = FALSE /\ consent' = FALSE
  BY DEF Boot
<1>3. size' = size /\ parted' = parted
  BY <1>1 DEF target
<1>4. LayoutInv' /\ ManifestInv' /\ Present' = Present
  BY <1>1, <1>3, ScriptFrame
<1>5. DiskInv'
  <2>1. size' \in [Disks -> DiskSectors] /\ parted' \subseteq Present'
    BY <1>3, <1>4 DEF RestoreInv, DiskInv
  <2> QED
    BY <1>1, <1>2, <2>1 DEF DiskInv, Stages, Causes
<1>6. TableInv' /\ ImagesInv'
  BY <1>1 DEF TableInv, ImagesInv
<1> QED
  BY <1>4, <1>5, <1>6 DEF RestoreInv

LEMMA ChooseKeeps ==
    ASSUME RestoreInv, ChooseDisk
    PROVE  RestoreInv'
<1>1. /\ stage = "choose" /\ UNCHANGED <<release, target, remote, consent, table, part, formatted>>
  BY DEF ChooseDisk
<1>2. \/ /\ stage' = "plan" /\ cause' = cause
         /\ \E d \in Present : /\ disk' = d
                               /\ \/ override' = TRUE
                                  \/ size[d] >= RequiredSectors /\ override' = FALSE
      \/ /\ stage' = "failed" /\ cause' = "space" /\ disk' = disk /\ override' = override
  BY DEF ChooseDisk, Fail
<1>3. size' = size /\ parted' = parted /\ table' = table /\ part' = part /\ formatted' = formatted
      /\ remote' = remote /\ consent' = consent
  BY <1>1 DEF target
<1>4. manifest # NoManifest /\ cause = "" /\ table = <<>> /\ part = 0 /\ formatted = {}
  BY <1>1 DEF RestoreInv, ManifestInv, DiskInv, TableInv, ImagesInv
<1>5. /\ LayoutInv' /\ ManifestInv' /\ Present' = Present /\ RequiredSectors' = RequiredSectors
  BY <1>1, <1>3, <1>4, ScriptFrame
<1>6. DiskInv'
  <2>1. /\ size' \in [Disks -> DiskSectors] /\ parted' \subseteq Present'
        /\ remote' \in BOOLEAN /\ consent' \in BOOLEAN
    BY <1>3, <1>5 DEF RestoreInv, DiskInv
  <2>2. disk' \in Present' \cup {NoDisk} /\ override' \in BOOLEAN
    BY <1>2, <1>5 DEF RestoreInv, DiskInv
  <2>3. stage' = "plan" => disk' # NoDisk /\ (~override' => size'[disk'] >= RequiredSectors')
    <3> SUFFICES ASSUME stage' = "plan"
                 PROVE  disk' # NoDisk /\ (~override' => size'[disk'] >= RequiredSectors')
      OBVIOUS
    <3>1. PICK d \in Present : /\ disk' = d
                               /\ \/ override' = TRUE
                                  \/ size[d] >= RequiredSectors /\ override' = FALSE
      BY <1>2
    <3>2. d # NoDisk
      BY RestoreAssumption DEF Present, NoDisk
    <3> QED
      BY <1>3, <1>5, <3>1, <3>2
  <2>4. stage' \in Stages /\ cause' \in Causes /\ (cause' # "" <=> stage' = "failed")
        /\ stage' \in {"plan", "failed"}
    BY <1>2, <1>4 DEF Stages, Causes
  <2> QED
    BY <2>1, <2>2, <2>3, <2>4 DEF DiskInv
<1>7. TableInv' /\ ImagesInv'
  BY <1>2, <1>3, <1>4 DEF TableInv, ImagesInv
<1> QED
  BY <1>5, <1>6, <1>7 DEF RestoreInv

LEMMA PlanKeeps ==
    ASSUME RestoreInv, Plan
    PROVE  RestoreInv'
<1>1. /\ stage = "plan"
      /\ UNCHANGED <<release, target, remote, override, disk, consent, part, formatted>>
  BY DEF Plan
<1>2. \/ /\ CanPlace(manifest.table, Growing, PlanLimit)
         /\ table' = NewTable(manifest.table, Growing, PlanLimit)
         /\ stage' \in {"ask", "wipe"} /\ cause' = cause
      \/ /\ stage' = "failed" /\ cause' = "space" /\ table' = table
  BY DEF Plan, Fail
<1>3. /\ size' = size /\ parted' = parted /\ disk' = disk /\ part' = part
      /\ formatted' = formatted /\ remote' = remote /\ override' = override /\ consent' = consent
      /\ manifest' = manifest
  BY <1>1 DEF target, release
<1>4. /\ manifest # NoManifest /\ cause = "" /\ table = <<>> /\ part = 0 /\ formatted = {}
      /\ disk \in Present /\ disk # NoDisk /\ (~override => size[disk] >= RequiredSectors)
  BY <1>1 DEF RestoreInv, ManifestInv, DiskInv, TableInv, ImagesInv
<1>5. /\ LayoutInv' /\ ManifestInv' /\ Present' = Present /\ RequiredSectors' = RequiredSectors
      /\ Growing' = Growing /\ PlanLimit' = PlanLimit
  BY <1>1, <1>3, <1>4, ScriptFrame, SamePlan
<1>6. DiskInv'
  <2>1. stage' \in Stages /\ cause' \in Causes /\ (cause' # "" <=> stage' = "failed")
    BY <1>2, <1>4 DEF Stages, Causes
  <2>2. size' \in [Disks -> DiskSectors] /\ parted' \subseteq Present'
    BY <1>3, <1>5 DEF RestoreInv, DiskInv
  <2>3. remote' \in BOOLEAN /\ override' \in BOOLEAN /\ consent' \in BOOLEAN
    BY <1>3 DEF RestoreInv, DiskInv
  <2>4. /\ disk' \in Present' \cup {NoDisk} /\ disk' # NoDisk
        /\ ~override' => size'[disk'] >= RequiredSectors'
    BY <1>3, <1>4, <1>5 DEF RestoreInv, DiskInv
  <2> QED
    BY <2>1, <2>2, <2>3, <2>4 DEF DiskInv
<1>7. TableInv'
  <2>1. stage' \in {"ask", "wipe"} => Planned'
    BY <1>2, <1>3, <1>4, <1>5 DEF Planned
  <2> QED
    BY <1>2, <1>4, <2>1 DEF TableInv
<1>8. ImagesInv'
  BY <1>2, <1>3, <1>4 DEF ImagesInv
<1> QED
  BY <1>5, <1>6, <1>7, <1>8 DEF RestoreInv

LEMMA AskKeeps ==
    ASSUME RestoreInv, Ask
    PROVE  RestoreInv'
<1>1. /\ stage = "ask"
      /\ UNCHANGED <<release, target, remote, override, disk, table, part, formatted>>
  BY DEF Ask
<1>2. \/ stage' = "wipe" /\ cause' = cause
      \/ stage' = "failed" /\ cause' = "declined"
  BY DEF Ask, Fail
<1>3. consent' \in BOOLEAN
  <2>1. PICK reply \in {"yes", "no", "none"} : consent' = (reply = "yes")
    BY DEF Ask
  <2> QED
    BY <2>1, Zenon
<1>4. /\ size' = size /\ parted' = parted /\ disk' = disk /\ part' = part /\ table' = table
      /\ formatted' = formatted /\ remote' = remote /\ override' = override
      /\ manifest' = manifest
  BY <1>1 DEF target, release
<1>5. /\ manifest # NoManifest /\ cause = "" /\ part = 0 /\ formatted = {}
      /\ disk # NoDisk /\ (~override => size[disk] >= RequiredSectors) /\ Planned
  BY <1>1 DEF RestoreInv, ManifestInv, DiskInv, TableInv, ImagesInv
<1>6. /\ LayoutInv' /\ ManifestInv' /\ Present' = Present /\ RequiredSectors' = RequiredSectors
      /\ Planned' = Planned
  BY <1>1, <1>4, <1>5, ScriptFrame, SamePlan
<1>7. DiskInv'
  <2>1. stage' \in Stages /\ cause' \in Causes /\ (cause' # "" <=> stage' = "failed")
    BY <1>2, <1>5 DEF Stages, Causes
  <2>2. size' \in [Disks -> DiskSectors] /\ parted' \subseteq Present'
    BY <1>4, <1>6 DEF RestoreInv, DiskInv
  <2>3. remote' \in BOOLEAN /\ override' \in BOOLEAN /\ consent' \in BOOLEAN
    BY <1>3, <1>4 DEF RestoreInv, DiskInv
  <2>4. /\ disk' \in Present' \cup {NoDisk} /\ disk' # NoDisk
        /\ ~override' => size'[disk'] >= RequiredSectors'
    BY <1>4, <1>5, <1>6 DEF RestoreInv, DiskInv
  <2> QED
    BY <2>1, <2>2, <2>3, <2>4 DEF DiskInv
<1>8. TableInv'
  BY <1>2, <1>5, <1>6 DEF TableInv
<1>9. ImagesInv'
  BY <1>2, <1>4, <1>5 DEF ImagesInv
<1> QED
  BY <1>6, <1>7, <1>8, <1>9 DEF RestoreInv

LEMMA WipeKeeps ==
    ASSUME RestoreInv, Wipe
    PROVE  RestoreInv'
<1>1. /\ stage = "wipe" /\ stage' = "write" /\ parted' = parted \ {disk}
      /\ UNCHANGED <<release, size, attempt>>
  BY DEF Wipe
<1>2. /\ size' = size /\ disk' = disk /\ part' = part /\ table' = table
      /\ formatted' = formatted /\ remote' = remote /\ override' = override
      /\ consent' = consent /\ cause' = cause /\ manifest' = manifest
  BY <1>1 DEF release, attempt
<1>3. /\ manifest # NoManifest /\ cause = "" /\ part = 0 /\ formatted = {}
      /\ disk # NoDisk /\ (~override => size[disk] >= RequiredSectors) /\ Planned
  BY <1>1 DEF RestoreInv, ManifestInv, DiskInv, TableInv, ImagesInv
<1>4. /\ LayoutInv' /\ ManifestInv' /\ Present' = Present /\ RequiredSectors' = RequiredSectors
      /\ Planned' = Planned
  BY <1>1, <1>2, <1>3, ScriptFrame, SamePlan
<1>5. DiskInv'
  BY <1>1, <1>2, <1>3, <1>4 DEF RestoreInv, DiskInv, Stages
<1>6. TableInv' /\ ImagesInv'
  BY <1>1, <1>2, <1>3, <1>4 DEF TableInv, ImagesInv
<1> QED
  BY <1>4, <1>5, <1>6 DEF RestoreInv

LEMMA WriteKeeps ==
    ASSUME RestoreInv, WriteTable
    PROVE  RestoreInv'
<1>1. /\ stage = "write"
      /\ UNCHANGED <<release, size, remote, override, disk, consent, table, formatted>>
  BY DEF WriteTable
<1>2. \/ parted' = parted \cup {disk} /\ stage' = "images" /\ part' = 1 /\ cause' = cause
      \/ stage' = "failed" /\ cause' = "space" /\ parted' = parted /\ part' = part
  BY DEF WriteTable, Fail
<1>3. manifest' = manifest
  BY <1>1 DEF release
<1>4. /\ manifest # NoManifest /\ cause = "" /\ part = 0 /\ formatted = {}
      /\ disk \in Present /\ disk # NoDisk /\ (~override => size[disk] >= RequiredSectors)
      /\ Planned
  BY <1>1 DEF RestoreInv, ManifestInv, DiskInv, TableInv, ImagesInv
<1>5. /\ LayoutInv' /\ ManifestInv' /\ Present' = Present /\ RequiredSectors' = RequiredSectors
      /\ Planned' = Planned
  BY <1>1, <1>3, <1>4, ScriptFrame, SamePlan
<1>6. DiskInv'
  <2>1. stage' \in Stages /\ cause' \in Causes /\ (cause' # "" <=> stage' = "failed")
    BY <1>2, <1>4 DEF Stages, Causes
  <2> QED
    BY <1>1, <1>2, <1>4, <1>5, <2>1 DEF RestoreInv, DiskInv
<1>7. TableInv'
  BY <1>2, <1>4, <1>5 DEF TableInv
<1>8. ImagesInv'
  <2>1. 1 \in DOMAIN table
    <3>1. table \in Seq(Slots) /\ \E k \in DOMAIN table : TRUE
      BY <1>4, DumpFacts, PlanFacts DEF RestoreInv
    <3> QED
      BY <3>1
  <2>2. table' = table /\ formatted' = {}
    BY <1>1, <1>4
  <2>3. CASE stage' = "images" /\ part' = 1 /\ cause' = cause
    <3>1. 1..(part' - 1) = {}
      BY <2>3
    <3>2. formatted' = {i \in 1..(part' - 1) : Encrypts(i)'}
      BY <2>2, <3>1
    <3>3. part' \in DOMAIN table' /\ 1..(part' - 1) \subseteq manifest'.empty
      BY <2>1, <2>2, <2>3, <3>1
    <3> QED
      BY <1>4, <2>3, <3>2, <3>3 DEF ImagesInv
  <2>4. CASE stage' = "failed" /\ cause' = "space" /\ part' = part
    BY <1>4, <2>2, <2>4 DEF ImagesInv
  <2> QED
    BY <1>2, <2>3, <2>4
<1> QED
  BY <1>5, <1>6, <1>7, <1>8 DEF RestoreInv

LEMMA ImageKeeps ==
    ASSUME RestoreInv, RestoreImage
    PROVE  RestoreInv'
<1>1. /\ stage = "images"
      /\ UNCHANGED <<release, target, remote, override, disk, consent, table>>
  BY DEF RestoreImage
<1>2. \/ part \in manifest.empty /\ part' = part + 1 /\ stage' = stage /\ cause' = cause
      \/ stage' = "failed" /\ cause' = "images" /\ part' = part
  BY DEF RestoreImage, Fail
<1>3. formatted' = IF Encrypts(part) THEN formatted \cup {part} ELSE formatted
  BY DEF RestoreImage, Encrypts
<1>4. size' = size /\ parted' = parted /\ manifest' = manifest
  BY <1>1 DEF release, target
<1>5. /\ manifest # NoManifest /\ cause = ""
      /\ disk \in Present /\ disk # NoDisk /\ (~override => size[disk] >= RequiredSectors)
      /\ Planned
  BY <1>1 DEF RestoreInv, ManifestInv, DiskInv, TableInv
<1>6. /\ LayoutInv' /\ ManifestInv' /\ Present' = Present /\ RequiredSectors' = RequiredSectors
      /\ Planned' = Planned /\ \A i : Encrypts(i)' = Encrypts(i)
  BY <1>1, <1>4, <1>5, ScriptFrame, SamePlan
<1>7. DiskInv'
  <2>1. stage' \in {"images", "failed"} /\ cause' \in Causes /\ (cause' # "" <=> stage' = "failed")
    BY <1>1, <1>2, <1>5 DEF Causes
  <2> QED
    BY <1>1, <1>4, <1>5, <1>6, <2>1 DEF RestoreInv, DiskInv, Stages
<1>8. TableInv'
  BY <1>1, <1>2, <1>5, <1>6 DEF TableInv
<1>9. /\ table \in Seq(Slots) /\ DOMAIN table = DOMAIN manifest.table
      /\ \E k \in DOMAIN table : k \notin manifest.empty
  BY <1>5, DumpFacts, PlanFacts DEF RestoreInv
<1>10. /\ part \in DOMAIN table /\ part \in Nat
       /\ formatted = {i \in 1..(part - 1) : Encrypts(i)}
       /\ 1..(part - 1) \subseteq manifest.empty
  BY <1>1, <1>9 DEF RestoreInv, ImagesInv
<1>11. formatted' = {i \in 1..part : Encrypts(i)'}
  <2>1. \A i : i \in 1..part <=> i \in 1..(part - 1) \/ i = part
    <3>1. part \in Nat /\ part >= 1
      BY <1>9, <1>10
    <3> QED
      BY <3>1
  <2> QED
    BY <1>3, <1>6, <1>10, <2>1
<1>12. ImagesInv'
  <2>1. CASE stage' = "failed"
    BY <1>1, <1>2, <1>4, <1>10, <1>11, <2>1 DEF ImagesInv
  <2>2. CASE part \in manifest.empty /\ part' = part + 1 /\ stage' = stage /\ cause' = cause
    <3>1. part' - 1 = part
      BY <1>10, <2>2
    <3>2. 1..part \subseteq manifest.empty
      <4>1. \A i \in 1..part : i \in 1..(part - 1) \/ i = part
        BY <1>10
      <4> QED
        BY <1>10, <2>2, <4>1
    <3>3. part' \in DOMAIN table'
      <4>1. PICK k \in DOMAIN table : k \notin manifest.empty
        BY <1>9
      <4>2. k \in 1..Len(table) /\ Len(table) \in Nat /\ DOMAIN table = 1..Len(table)
        BY <1>9
      <4>3. k \notin 1..part
        BY <3>2, <4>1
      <4>4. part + 1 \in 1..Len(table)
        BY <1>10, <4>2, <4>3
      <4> QED
        BY <1>1, <2>2, <4>2, <4>4
    <3> QED
      BY <1>1, <1>4, <1>5, <1>11, <2>2, <3>1, <3>2, <3>3 DEF ImagesInv
  <2> QED
    BY <1>2, <2>1, <2>2
<1> QED
  BY <1>6, <1>7, <1>8, <1>12 DEF RestoreInv

LEMMA PowerOffKeeps ==
    ASSUME RestoreInv, PowerOff
    PROVE  RestoreInv'
<1>1. /\ stage' = "off" /\ disk' = NoDisk /\ table' = <<>> /\ part' = 0 /\ formatted' = {}
      /\ cause' = "" /\ UNCHANGED <<release, target>>
  BY DEF PowerOff
<1>2. remote' = FALSE /\ override' = FALSE /\ consent' = FALSE
  BY DEF PowerOff
<1>3. size' = size /\ parted' = parted
  BY <1>1 DEF target
<1>4. LayoutInv' /\ ManifestInv' /\ Present' = Present
  BY <1>1, <1>3, ScriptFrame
<1>5. DiskInv'
  BY <1>1, <1>2, <1>3, <1>4 DEF RestoreInv, DiskInv, Stages, Causes
<1>6. TableInv' /\ ImagesInv'
  BY <1>1 DEF TableInv, ImagesInv
<1> QED
  BY <1>4, <1>5, <1>6 DEF RestoreInv

LEMMA NextRestore == RestoreInv /\ [Next]_vars => RestoreInv'
<1> SUFFICES ASSUME RestoreInv, [Next]_vars PROVE RestoreInv'
  OBVIOUS
<1>1. CASE UNCHANGED vars
  <2>1. UNCHANGED <<target, stage, attempt, manifest>> /\ layout' = layout /\ built' = built
    BY <1>1 DEF vars, target, attempt
  <2>2. LayoutInv'
    BY <2>1 DEF RestoreInv, LayoutInv
  <2> QED
    BY <2>1, <2>2, TargetFrame
<1> QED
  BY <1>1, EditKeeps, InstallKeeps, DumpKeeps, BootKeeps, ChooseKeeps, PlanKeeps, AskKeeps,
     WipeKeeps, WriteKeeps, ImageKeeps, PowerOffKeeps DEF Next


-----------------------------------------------------------------------------
(* What follows from the invariant *)

\* In every state the layout and the clone release are ones the editor and the dump can
\* have made, the table is the one planned for the chosen disk, and the partitions made
\* so far are containers as their entries say.
THEOREM RestoreInvariant == Spec => []RestoreInv
  BY InitRestore, NextRestore, PTL DEF Spec

LEMMA RestoreTypes == RestoreInv => TypeOK
<1> SUFFICES ASSUME RestoreInv PROVE TypeOK
  OBVIOUS
<1> USE DEF RestoreInv
<1>1. /\ layout \in Layouts /\ built \in Layouts \cup {None}
      /\ DOMAIN manifest = DOMAIN NoManifest
  BY DEF LayoutInv, ManifestInv
<1>2. manifest.table \in Seq(Slots)
  <2>1. CASE manifest = NoManifest
    BY <2>1 DEF NoManifest
  <2>2. CASE manifest # NoManifest
    BY <2>2, DumpFacts
  <2> QED
    BY <2>1, <2>2
<1>3. /\ parted \subseteq Present /\ stage \in Stages /\ disk \in Present \cup {NoDisk}
      /\ {remote, override, consent} \subseteq BOOLEAN
      /\ cause \in Causes /\ (cause # "") = (stage = "failed")
  BY DEF DiskInv
<1>4. stage \in Stages \ {"off", "choose", "failed"} => disk # NoDisk
  BY DEF DiskInv, Stages
<1>5. table \in Seq(Slots)
  <2>1. CASE table = <<>>
    BY <2>1
  <2>2. CASE table # <<>>
    <3>1. Planned
      BY <2>2 DEF TableInv
    <3>2. manifest # NoManifest
      BY <2>2 DEF TableInv, ManifestInv
    <3> QED
      BY <3>1, <3>2, PlanFacts
  <2> QED
    BY <2>1, <2>2
<1>6. part \in 0..Len(table) /\ formatted \subseteq DOMAIN table
  <2>1. DOMAIN table = 1..Len(table) /\ Len(table) \in Nat
    BY <1>5
  <2>2. CASE stage # "images" /\ cause # "images"
    BY <2>1, <2>2 DEF ImagesInv
  <2>3. CASE stage = "images"
    <3>1. part \in DOMAIN table /\ formatted \subseteq 1..(part - 1)
      BY <2>3 DEF ImagesInv
    <3> QED
      BY <2>1, <3>1
  <2>4. CASE cause = "images"
    <3>1. part \in DOMAIN table /\ formatted \subseteq 1..part
      BY <2>4 DEF ImagesInv
    <3> QED
      BY <2>1, <3>1
  <2> QED
    BY <2>2, <2>3, <2>4
<1> QED
  BY <1>1, <1>2, <1>3, <1>4, <1>5, <1>6 DEF TypeOK

\* Whatever the disks and the layouts, every variable has its type, and a disk is chosen
\* once the table is planned.
THEOREM RestoreTypeCorrect == Spec => []TypeOK
  BY RestoreInvariant, RestoreTypes, PTL

LEMMA TableIsWritable == RestoreInv => ErasedForATable
<1> SUFFICES ASSUME RestoreInv, stage \in {"wipe", "write"}, ~override
             PROVE  /\ Writable(table, UsableLimit(size[disk], manifest.gpt))
                    /\ DOMAIN table = DOMAIN manifest.table
                    /\ \A i \in DOMAIN table : table[i].size >= manifest.table[i].size
  BY DEF ErasedForATable
<1>1. manifest # NoManifest /\ ManifestInv /\ DiskInv
  BY DEF RestoreInv, ManifestInv
<1>2. Planned
  BY DEF RestoreInv, TableInv
<1>3. disk \in Present /\ size[disk] >= RequiredSectors
  BY <1>1, <1>2 DEF Planned, DiskInv
<1>4. PlanLimit = UsableLimit(size[disk], manifest.gpt)
  BY <1>1, <1>3, LimitFacts
<1> QED
  BY <1>1, <1>2, <1>4, PlanFacts

\* Whatever the disks and the layouts, a disk nobody forced with TARGET_DISK is erased
\* only when the table that replaces its contents can be written on it and has room for
\* every image.
THEOREM ErasedOnlyForATable == Spec => []ErasedForATable
  BY RestoreInvariant, TableIsWritable, PTL

\* The entry the script finds by its number is the one the partition was made from.
LEMMA EntryAsBuilt ==
    ASSUME NEW entries \in Seq(Entries), ValidLayout(entries), InOrder(entries),
           NEW i \in DOMAIN Partitions(entries)
    PROVE  /\ EntryFor(entries, i) = Partitions(entries)[i]
           /\ Partitions(entries)[i].luks => Partitions(entries)[i].mount # "swap"
<1>1. PICK j \in DOMAIN entries : entries[j] = Partitions(entries)[i]
  BY PartitionsOf
<1>2. entries[j].number = i
  BY <1>1 DEF InOrder
<1>3. \A k \in DOMAIN entries : entries[k].number = i => k = j
  BY <1>2 DEF ValidLayout
<1>4. EntryFor(entries, i) = entries[j]
  <2>1. (CHOOSE k \in DOMAIN entries : entries[k].number = i) = j
    BY <1>2, <1>3
  <2> QED
    BY <1>2, <2>1 DEF EntryFor
<1>5. entries[j].luks => entries[j].mount = "none"
  BY DEF ValidLayout, ValidEntry
<1> QED
  BY <1>1, <1>4, <1>5

LEMMA ContainersAsBuilt == RestoreInv => LuksAsBuilt
<1> DEFINE Built(i) == Partitions(manifest.source)[i]
<1> SUFFICES ASSUME RestoreInv, manifest.entries = manifest.source, InOrder(manifest.source),
                    stage \in {"images", "failed"}, NEW i \in DOMAIN table
             PROVE  /\ i \in formatted => Built(i).luks
                    /\ i < part /\ Built(i).luks => i \in formatted
                    /\ cause = "images" /\ i = part /\ Built(i).luks => i \in formatted
  BY DEF LuksAsBuilt
<1>1. manifest # NoManifest /\ ManifestInv /\ DiskInv
  BY DEF RestoreInv, ManifestInv
<1>2. Planned
  <2>1. table # <<>>
    OBVIOUS
  <2> QED
    BY <2>1 DEF RestoreInv, TableInv
<1>3. /\ table \in Seq(Slots)
      /\ DOMAIN table = DOMAIN Partitions(manifest.source)
  BY <1>1, <1>2, PlanFacts, DumpFacts
<1>4. Encrypts(i) <=> Built(i).luks
  <2>1. PICK l \in Layouts : DumpOf(l)
    BY <1>1 DEF ManifestInv
  <2>2. manifest.source \in Seq(Entries) /\ ValidLayout(manifest.source)
    BY <2>1, LayoutsAre DEF DumpOf, ALayout
  <2>3. EntryFor(manifest.source, i) = Built(i) /\ (Built(i).luks => Built(i).mount # "swap")
    BY <1>3, <2>2, EntryAsBuilt
  <2> QED
    BY <2>3 DEF Encrypts
<1> HIDE DEF Built
<1>5. i \in 1..Len(table) /\ Len(table) \in Nat
  BY <1>3
<1>6. CASE stage = "images"
  <2>1. part \in 1..Len(table) /\ formatted = {k \in 1..(part - 1) : Encrypts(k)}
    BY <1>3, <1>6 DEF RestoreInv, ImagesInv
  <2>2. i < part => i \in 1..(part - 1)
    BY <1>5, <2>1
  <2>3. cause # "images"
    BY <1>1, <1>6 DEF DiskInv
  <2> QED
    BY <1>4, <2>1, <2>2, <2>3
<1>7. CASE cause = "images"
  <2>1. part \in 1..Len(table) /\ formatted = {k \in 1..part : Encrypts(k)}
    BY <1>3, <1>7 DEF RestoreInv, ImagesInv
  <2>2. i < part \/ i = part => i \in 1..part
    BY <1>5, <2>1
  <2> QED
    BY <1>4, <2>1, <2>2
<1>8. CASE stage # "images" /\ cause # "images"
  <2>1. part = 0 /\ formatted = {}
    BY <1>8 DEF RestoreInv, ImagesInv
  <2>2. ~(i < 0)
    BY <1>5
  <2> QED
    BY <1>8, <2>1, <2>2
<1> QED
  BY <1>6, <1>7, <1>8

\* Whatever the layouts, when nothing was edited between install and dump and the
\* numbers are those of the installer, a partition becomes a LUKS container exactly when
\* the entry that made it says so.
THEOREM ContainersMatchTheLayout == Spec => []LuksAsBuilt
  BY RestoreInvariant, ContainersAsBuilt, PTL

\* The 4 GiB that are added for entries that take what is left are enough for 4094 of
\* them, 1 MiB each: such a layout always fits on the disk its machine gets.  (A gpt has
\* 128 partitions; the editor has no limit of its own.)
THEOREM RemainderAlwaysFits ==
    ASSUME \A l \in Layouts : Cardinality(Growers(l)) <= 4094
    PROVE  Spec => []RemainderFits
<1>1. RestoreInv => RemainderFits
  <2> SUFFICES ASSUME RestoreInv, Growers(layout) # {}
               PROVE  Room(layout) >= Mib(Cardinality(Growers(layout)))
    BY DEF RemainderFits
  <2>1. layout \in Layouts /\ layout \in ALayout
    BY LayoutsAre DEF RestoreInv, LayoutInv
  <2>2. Cardinality(Growers(layout)) \in Nat /\ Cardinality(Growers(layout)) <= 4094
    BY <2>1, GrowersAreFinite
  <2> QED
    BY <2>1, <2>2, RoomForRemainders
<1> QED
  BY <1>1, RestoreInvariant, PTL
=============================================================================
