-------------------------- MODULE AfterburnerProofs -------------------------
(***************************************************************************)
(* Whatever the profile, the answers and the place where the afterburner    *)
(* script stops, a container never loses its last key: the script           *)
(* implements KeySlots.  Editing a profile never fails on the numbers of    *)
(* its items, every item leaves each container one key, and a profile that  *)
(* sets the LUKS password and binds the TPM is answered by its file.        *)
(***************************************************************************)
EXTENDS AfterburnerScript, FoldLemmas, TLAPS

\* The steps in which the script has found a passphrase that opens dev, and those in
\* which dev has one more slot than before.
Holding == {"new", "add", "remove", "bind", "list", "drop"}
Doubled == {"remove", "list", "drop"}

\* What the key of a device at hand is known to be.
KeyInv ==
    /\ keys \in [Containers -> [KS!Secrets -> Nat]]
    /\ stage \in {"edit", "off"} => step = "item"
    /\ step \in Holding =>
        dev \in Containers /\ known \in Passphrases /\ keys[dev][known] > 0
    /\ step \in {"add", "remove"} => fresh \in Passphrases
    /\ step \in Doubled => KS!Total(keys[dev]) > 1

\* Every container has a slot.
SomeKey == \A d \in Containers : KS!Total(keys[d]) > 0

LEMMA FormattedKeys ==
    ASSUME NEW d \in Containers
    PROVE  /\ KS!Formatted \in [KS!Secrets -> Nat]
           /\ KS!Total(KS!Formatted) = 1
  BY DEF KS!Formatted, KS!Secrets, KS!Total

\* A slot more is one key more.
LEMMA AddedKey ==
    ASSUME keys \in [Containers -> [KS!Secrets -> Nat]],
           NEW d \in Containers, NEW s \in KS!Secrets,
           keys' = [keys EXCEPT ![d][s] = keys[d][s] + 1]
    PROVE  /\ keys' \in [Containers -> [KS!Secrets -> Nat]]
           /\ KS!Total(keys'[d]) = KS!Total(keys[d]) + 1
           /\ \A t \in KS!Secrets : keys'[d][t] >= keys[d][t]
           /\ keys'[d][s] > 0
           /\ \A e \in Containers \ {d} : keys'[e] = keys[e]
  BY DEF KS!Secrets, KS!Total

LEMMA RemovedKey ==
    ASSUME keys \in [Containers -> [KS!Secrets -> Nat]],
           NEW d \in Containers, NEW s \in KS!Secrets,
           keys[d][s] > 0,
           keys' = [keys EXCEPT ![d][s] = keys[d][s] - 1]
    PROVE  /\ keys' \in [Containers -> [KS!Secrets -> Nat]]
           /\ KS!Total(keys'[d]) = KS!Total(keys[d]) - 1
           /\ \A e \in Containers \ {d} : keys'[e] = keys[e]
  BY DEF KS!Secrets, KS!Total

LEMMA PassphrasesAreSecrets ==
    Passphrases \subseteq KS!Secrets /\ "tpm" \in KS!Secrets
  BY DEF Passphrases, KS!Secrets

-----------------------------------------------------------------------------
(* Steps that leave the slots alone *)

LEMMA AdvanceKeeps == KeyInv /\ Advance => KeyInv' /\ keys' = keys
  BY DEF KeyInv, Advance, NextItem, Holding, Doubled

LEMMA FailKeeps == KeyInv /\ Fail => KeyInv' /\ keys' = keys
  BY DEF KeyInv, Fail, place, disk, Holding, Doubled, KS!Total

LEMMA GotoKeeps ==
    ASSUME KeyInv, stage = "run", NEW to, to \notin Holding \cup Doubled, Goto(to)
    PROVE  KeyInv' /\ keys' = keys
  BY DEF KeyInv, Goto, disk, Holding, Doubled

LEMMA TakeKeeps ==
    ASSUME KeyInv, stage = "run", NEW devices, Take(devices)
    PROVE  KeyInv' /\ keys' = keys
<1>1. CASE devices = {}
  BY <1>1, AdvanceKeeps DEF Take
<1>2. CASE devices # {}
  BY <1>2 DEF Take, KeyInv, disk, Holding, Doubled
<1> QED
  BY <1>1, <1>2

LEMMA ChooseKeeps ==
    ASSUME KeyInv, stage = "run", ChooseDevices
    PROVE  KeyInv' /\ keys' = keys
  BY FailKeeps, TakeKeeps DEF ChooseDevices

\* The items that are not about LUKS.
LEMMA OtherItemsKeep ==
    ASSUME KeyInv, stage = "run",
           \/ Hostname \/ LocalUser \/ AdJoin \/ StaticIp \/ Bootloader
           \/ Registration \/ WaitForEnter \/ CustomScript
    PROVE  KeyInv' /\ keys' = keys
<1> USE AdvanceKeeps, FailKeeps
<1>1. ASSUME NEW to \in {"password", "credentials", "repos"}, Goto(to)
      PROVE  KeyInv' /\ keys' = keys
  BY <1>1, GotoKeeps DEF Holding, Doubled
<1>2. CASE Hostname \/ AdJoin \/ StaticIp \/ WaitForEnter \/ CustomScript
  BY <1>2 DEF Hostname, AdJoin, StaticIp, WaitForEnter, CustomScript
<1>3. CASE LocalUser
  BY <1>1, <1>3 DEF LocalUser
<1>4. CASE Bootloader
  BY <1>1, <1>4 DEF Bootloader
<1>5. CASE Registration
  BY <1>1, <1>5 DEF Registration
<1> QED
  BY <1>2, <1>3, <1>4, <1>5

-----------------------------------------------------------------------------
(* Steps that work on a device *)

LEMMA RotateSearches ==
    ASSUME KeyInv, stage = "run",
           RotateDevices \/ RotateNext \/ RotateCurrent \/ RotateNew
    PROVE  KeyInv' /\ keys' = keys
<1>1. CASE RotateDevices
  BY <1>1, ChooseKeeps DEF RotateDevices
<1>2. CASE RotateNext
  <2>1. CASE Advance
    BY <2>1, AdvanceKeeps
  <2>2. ASSUME NEW d \in todo,
               dev' = d, known' = IF Opens(d, "build") THEN "build" ELSE "",
               step' = IF Opens(d, "build") THEN "new" ELSE "current",
               UNCHANGED <<stage, pos, fresh, disk>>
        PROVE  KeyInv' /\ keys' = keys
    BY <2>2 DEF KeyInv, Opens, Passphrases, Holding, Doubled, disk
  <2> QED
    BY <1>2, <2>1, <2>2 DEF RotateNext
<1>3. CASE RotateCurrent
  BY <1>3 DEF RotateCurrent, KeyInv, Opens, Holding, Doubled, disk
<1>4. CASE RotateNew
  <2>1. fresh' \in Passphrases
    BY <1>4 DEF RotateNew, Accepted
  <2>2. step = "new"
    BY <1>4 DEF RotateNew, Runs
  <2> QED
    BY <1>4, <2>1, <2>2 DEF RotateNew, KeyInv, Holding, Doubled, disk
<1> QED
  BY <1>1, <1>2, <1>3, <1>4

LEMMA TpmSearches ==
    ASSUME KeyInv, stage = "run",
           \/ TpmDevices \/ TpmNext \/ TpmCurrent
           \/ TpmList \/ TpmRegenerate
    PROVE  KeyInv' /\ keys' = keys
<1>1. CASE TpmDevices
  <2>1. CASE stage' = "ended" /\ UNCHANGED <<place, disk>>
    BY <2>1 DEF KeyInv, place, disk, Holding, Doubled, KS!Total
  <2> QED
    BY <1>1, <2>1, ChooseKeeps, FailKeeps DEF TpmDevices
<1>2. CASE TpmNext
  <2>1. CASE Goto("regenerate")
    BY <2>1, GotoKeeps DEF Holding, Doubled
  <2>2. ASSUME NEW d \in todo,
               step' = IF d \in Containers THEN "current" ELSE "next",
               UNCHANGED <<stage, pos, known, fresh, disk>>
        PROVE  KeyInv' /\ keys' = keys
    BY <2>2 DEF KeyInv, Holding, Doubled, disk
  <2> QED
    BY <1>2, <2>1, <2>2 DEF TpmNext
<1>3. CASE TpmCurrent
  BY <1>3 DEF TpmCurrent, KeyInv, Opens, Holding, Doubled, disk
<1>4. CASE TpmList
  <2>1. CASE Goto("drop")
    BY <1>4, <2>1 DEF TpmList, Runs, Goto, KeyInv, Holding, Doubled, disk
  <2> QED
    BY <1>4, <2>1, FailKeeps DEF TpmList
<1>5. CASE TpmRegenerate
  <2>1. CASE NextItem
    BY <2>1 DEF NextItem, KeyInv, Holding, Doubled
  <2> QED
    BY <1>5, <2>1, FailKeeps DEF TpmRegenerate
<1> QED
  BY <1>1, <1>2, <1>3, <1>4, <1>5

-----------------------------------------------------------------------------
(* Steps that change a slot *)

LEMMA RotateAdds ==
    ASSUME KeyInv, SomeKey, RotateAdd
    PROVE  KeyInv' /\ (keys' = keys \/ KS!KNext)
<1>1. CASE Fail
  BY <1>1, FailKeeps
<1>2. CASE ~Fail
  <2>1. /\ step = "add" /\ stage = "run" /\ step' = "remove"
        /\ keys' = [keys EXCEPT ![dev][fresh] = keys[dev][fresh] + 1]
        /\ UNCHANGED <<stage, dev, known, fresh>>
    BY <1>2 DEF RotateAdd, Runs
  <2>2. /\ keys \in [Containers -> [KS!Secrets -> Nat]]
        /\ dev \in Containers /\ known \in Passphrases /\ keys[dev][known] > 0
        /\ fresh \in Passphrases
    BY <2>1 DEF KeyInv, Holding
  <2>3. fresh \in KS!Secrets /\ known \in KS!Secrets
    BY <2>2, PassphrasesAreSecrets
  <2>4. /\ keys' \in [Containers -> [KS!Secrets -> Nat]]
        /\ KS!Total(keys'[dev]) = KS!Total(keys[dev]) + 1
        /\ keys'[dev][known] >= keys[dev][known]
    BY <2>1, <2>2, <2>3, AddedKey
  <2>5. KS!Total(keys[dev]) \in Nat /\ KS!Total(keys[dev]) > 0
    BY <2>2 DEF SomeKey, KS!Total, KS!Secrets
  <2>6. keys'[dev][known] > 0 /\ KS!Total(keys'[dev]) > 1
    <3>1. keys'[dev][known] \in Nat /\ keys[dev][known] \in Nat
      BY <2>2, <2>3, <2>4
    <3> QED
      BY <2>2, <2>4, <2>5, <3>1
  <2>7. KeyInv'
    BY <2>1, <2>2, <2>4, <2>6 DEF KeyInv, Holding, Doubled, KS!Total
  <2>8. KS!KNext
    BY <2>1, <2>2, <2>3 DEF KS!KNext, KS!Add
  <2> QED
    BY <2>7, <2>8
<1> QED
  BY <1>1, <1>2

LEMMA TpmBinds ==
    ASSUME KeyInv, SomeKey, TpmBind
    PROVE  KeyInv' /\ (keys' = keys \/ KS!KNext)
<1>1. CASE Goto(Unbound)
  BY <1>1, GotoKeeps DEF Unbound, Holding, Doubled, TpmBind, Runs
<1>2. CASE ~Goto(Unbound)
  <2>1. /\ step = "bind" /\ stage = "run" /\ step' = "list"
        /\ keys' = [keys EXCEPT ![dev]["tpm"] = keys[dev]["tpm"] + 1]
        /\ UNCHANGED <<stage, dev, known, fresh>>
    BY <1>2 DEF TpmBind, Runs
  <2>2. /\ keys \in [Containers -> [KS!Secrets -> Nat]]
        /\ dev \in Containers /\ known \in Passphrases /\ keys[dev][known] > 0
    BY <2>1 DEF KeyInv, Holding
  <2>3. "tpm" \in KS!Secrets /\ known \in KS!Secrets
    BY <2>2, PassphrasesAreSecrets
  <2>4. /\ keys' \in [Containers -> [KS!Secrets -> Nat]]
        /\ KS!Total(keys'[dev]) = KS!Total(keys[dev]) + 1
        /\ keys'[dev][known] >= keys[dev][known]
    BY <2>1, <2>2, <2>3, AddedKey
  <2>5. KS!Total(keys[dev]) \in Nat /\ KS!Total(keys[dev]) > 0
    BY <2>2 DEF SomeKey, KS!Total, KS!Secrets
  <2>6. keys'[dev][known] > 0 /\ KS!Total(keys'[dev]) > 1
    <3>1. keys'[dev][known] \in Nat /\ keys[dev][known] \in Nat
      BY <2>2, <2>3, <2>4
    <3> QED
      BY <2>2, <2>4, <2>5, <3>1
  <2>7. KeyInv'
    BY <2>1, <2>2, <2>4, <2>6 DEF KeyInv, Holding, Doubled, KS!Total
  <2>8. KS!KNext
    BY <2>1, <2>2, <2>3 DEF KS!KNext, KS!Add
  <2> QED
    BY <2>7, <2>8
<1> QED
  BY <1>1, <1>2

\* luksRemoveKey, in either item, finds two slots.
LEMMA Removes ==
    ASSUME KeyInv, RotateRemove \/ TpmDrop
    PROVE  KeyInv' /\ (keys' = keys \/ KS!KNext)
<1>1. CASE Fail
  BY <1>1, FailKeeps
<1>2. CASE ~Fail
  <2>1. /\ step \in {"remove", "drop"} /\ stage = "run" /\ step' = "next"
        /\ keys' = [keys EXCEPT ![dev][known] = keys[dev][known] - 1]
        /\ UNCHANGED <<stage, dev>>
    BY <1>2 DEF RotateRemove, TpmDrop, Runs
  <2>2. /\ keys \in [Containers -> [KS!Secrets -> Nat]]
        /\ dev \in Containers /\ known \in Passphrases /\ keys[dev][known] > 0
        /\ KS!Total(keys[dev]) > 1
    BY <2>1 DEF KeyInv, Holding, Doubled
  <2>3. known \in KS!Secrets
    BY <2>2, PassphrasesAreSecrets
  <2>4. keys' \in [Containers -> [KS!Secrets -> Nat]]
    BY <2>1, <2>2, <2>3, RemovedKey
  <2>5. KeyInv'
    BY <2>1, <2>4 DEF KeyInv, Holding, Doubled
  <2>6. KS!KNext
    BY <2>1, <2>2, <2>3 DEF KS!KNext, KS!Remove
  <2> QED
    BY <2>5, <2>6
<1> QED
  BY <1>1, <1>2

-----------------------------------------------------------------------------
(* The invariant *)

LEMMA KeyInit == Init => KeyInv /\ SomeKey /\ KS!KInit
<1> SUFFICES ASSUME Init PROVE KeyInv /\ SomeKey /\ KS!KInit
  OBVIOUS
<1>1. /\ keys = [d \in Containers |-> KS!Formatted]
      /\ step = "item"
  BY DEF Init
<1>2. KeyInv
  BY <1>1, FormattedKeys DEF KeyInv, Holding, Doubled
<1>3. SomeKey
  BY <1>1, FormattedKeys DEF SomeKey
<1> QED
  BY <1>1, <1>2, <1>3 DEF KS!KInit

\* A step of the abstract specification leaves every container a slot.
LEMMA AbstractKeepsKey ==
    ASSUME keys \in [Containers -> [KS!Secrets -> Nat]], SomeKey, KS!KNext
    PROVE  SomeKey'
<1>1. CASE KS!Format
  BY <1>1, FormattedKeys DEF KS!Format, SomeKey
<1>2. ASSUME NEW d \in Containers, NEW s \in KS!Secrets, KS!Add(d, s)
      PROVE  SomeKey'
  <2>1. /\ KS!Total(keys'[d]) = KS!Total(keys[d]) + 1
        /\ \A e \in Containers \ {d} : keys'[e] = keys[e]
    BY <1>2, AddedKey DEF KS!Add
  <2>2. KS!Total(keys[d]) \in Nat
    BY DEF KS!Total, KS!Secrets
  <2> QED
    BY <2>1, <2>2 DEF SomeKey, KS!Total
<1>3. ASSUME NEW d \in Containers, NEW s \in KS!Secrets, KS!Remove(d, s)
      PROVE  SomeKey'
  <2>1. /\ KS!Total(keys'[d]) = KS!Total(keys[d]) - 1
        /\ \A e \in Containers \ {d} : keys'[e] = keys[e]
    BY <1>3, RemovedKey DEF KS!Remove
  <2>2. KS!Total(keys[d]) \in Nat /\ KS!Total(keys[d]) > 1
    BY <1>3 DEF KS!Remove, KS!Total, KS!Secrets
  <2> QED
    BY <2>1, <2>2 DEF SomeKey, KS!Total
<1> QED
  BY <1>1, <1>2, <1>3 DEF KS!KNext

LEMMA KeyStep ==
    ASSUME KeyInv, SomeKey, [Next]_vars
    PROVE  KeyInv' /\ SomeKey' /\ (KS!KNext \/ keys' = keys)
<1> SUFFICES KeyInv' /\ (KS!KNext \/ keys' = keys)
  BY AbstractKeepsKey DEF KeyInv, SomeKey, KS!Total
<1>1. CASE Editing \/ Export
  BY <1>1 DEF Editing, Export, KeyInv, place, disk, Holding, Doubled, KS!Total
<1>2. CASE Restore
  <2>1. /\ keys' = [d \in Containers |-> KS!Formatted]
        /\ step = "item" /\ step' = "item" /\ stage' = "run"
    BY <1>2 DEF Restore, KeyInv, place
  <2>2. KeyInv'
    BY <2>1, FormattedKeys DEF KeyInv, Holding, Doubled
  <2> QED
    BY <2>1, <2>2 DEF KS!KNext, KS!Format
<1>3. CASE PowerOff
  BY <1>3 DEF PowerOff, KeyInv, disk, Holding, Doubled
<1>4. CASE UNCHANGED vars
  BY <1>4 DEF vars, KeyInv, Holding, Doubled, KS!Total
<1>5. CASE Run
  <2>1. stage = "run"
    BY <1>5 DEF Run, Hostname, LocalUser, AdJoin, StaticIp, Bootloader, Registration,
        WaitForEnter, CustomScript, RotateDevices, RotateNext, RotateCurrent, RotateNew,
        RotateAdd, RotateRemove, TpmDevices, TpmNext, TpmCurrent, TpmBind, TpmList,
        TpmDrop, TpmRegenerate, Complete, Runs
  <2>2. CASE Complete
    BY <2>2 DEF Complete, KeyInv, place, disk, Holding, Doubled, KS!Total
  <2> QED
    BY <1>5, <2>1, <2>2, OtherItemsKeep, RotateSearches, TpmSearches, RotateAdds,
       TpmBinds, Removes DEF Run
<1> QED
  BY <1>1, <1>2, <1>3, <1>4, <1>5 DEF Next

\* The afterburner script implements the promise of KeySlots: it adds a slot before
\* it removes one (rotate_luks_container and the TPM item of _build_item_snippet).
THEOREM ScriptKeepsAKey == Spec => KeepsAKey
<1>1. Init => KeyInv /\ SomeKey /\ KS!KInit
  BY KeyInit
<1>2. KeyInv /\ SomeKey /\ [Next]_vars => (KeyInv /\ SomeKey)' /\ [KS!KNext]_keys
  BY KeyStep
<1> QED
  BY <1>1, <1>2, PTL DEF Spec, KeepsAKey, KS!KSpec

\* However far the script came, some key opens every container.
THEOREM ScriptLeavesAKey == Spec => [](\A d \in Containers : KS!Total(keys[d]) > 0)
<1>1. Init => KeyInv /\ SomeKey
  BY KeyInit
<1>2. KeyInv /\ SomeKey /\ [Next]_vars => (KeyInv /\ SomeKey)'
  BY KeyStep
<1>3. SomeKey => \A d \in Containers : KS!Total(keys[d]) > 0
  BY DEF SomeKey
<1> QED
  BY <1>1, <1>2, <1>3, PTL DEF Spec

-----------------------------------------------------------------------------
(* The rows of a profile *)

Row == [order : 1..OrderLimit, item : Items]

\* Items about LUKS share the answer keys of their yes/no question and their password.
SharedKeys(items) ==
    \A m, n \in DOMAIN items :
        items[m].type \in LuksTypes /\ items[n].type \in LuksTypes =>
            items[m].flag = items[n].flag /\ items[m].secret = items[n].secret

ItemsOf(rs) == [i \in DOMAIN rs |-> rs[i].item]

\* What every edit leaves behind: no two rows with one number, keys that are shared.
RowsInv ==
    /\ DOMAIN rows \subseteq Ids /\ rows \in [DOMAIN rows -> Row]
    /\ \A i, j \in DOMAIN rows : i # j => rows[i].order # rows[j].order
    /\ SharedKeys(ItemsOf(rows))
    /\ rejected = FALSE

LEMMA Limits == OrderLimit \in Nat /\ Ids \subseteq Nat /\ IsFiniteSet(Ids)
  BY ItemsAssumption

LEMMA FiniteRows ==
    ASSUME RowsInv
    PROVE  /\ IsFiniteSet(DOMAIN rows) /\ Cardinality(DOMAIN rows) \in Nat
           /\ DOMAIN rows \in SUBSET Int
           /\ Cardinality(DOMAIN rows) <= OrderLimit
<1>1. IsFiniteSet(DOMAIN rows) /\ DOMAIN rows \in SUBSET Int
  BY Limits, FS_Subset DEF RowsInv
<1>2. [i \in DOMAIN rows |-> rows[i].order] \in Injection(DOMAIN rows, 1..OrderLimit)
  BY DEF RowsInv, Row, Injection, IsInjective
<1>3. IsFiniteSet(1..OrderLimit) /\ Cardinality(1..OrderLimit) = OrderLimit
  BY Limits, FS_Interval
<1>4. Cardinality(DOMAIN rows) <= Cardinality(1..OrderLimit)
  <2> DEFINE f == [i \in DOMAIN rows |-> rows[i].order]
  <2> HIDE DEF f
  <2> QED
    BY <1>2, <1>3, FS_Injection DEF f
<1> QED
  BY <1>1, <1>3, <1>4, FS_CardinalityType

LEMMA SiblingsListed ==
    ASSUME RowsInv
    PROVE  Siblings \in SetToSeqs(DOMAIN rows)
<1> DEFINE key == [i \in DOMAIN rows |-> rows[i].order]
<1>1. key \in [DOMAIN rows -> Int] /\ \A i, j \in DOMAIN rows : i # j => key[i] # key[j]
  BY DEF RowsInv, Row
<1>2. \E ids \in SetToSeqs(DOMAIN rows) :
         \A m, n \in DOMAIN ids : m < n => key[ids[m]] < key[ids[n]]
  <2> HIDE DEF key
  <2> QED
    BY <1>1, FiniteRows, SortedEnumeration
<1>3. \E ids \in SetToSeqs(DOMAIN rows) :
         \A m, n \in DOMAIN ids : m < n => rows[ids[m]].order < rows[ids[n]].order
  <2>1. PICK ids \in SetToSeqs(DOMAIN rows) :
            \A m, n \in DOMAIN ids : m < n => key[ids[m]] < key[ids[n]]
    BY <1>2
  <2>2. \A m \in DOMAIN ids : ids[m] \in DOMAIN rows
    BY DEF SetToSeqs
  <2> QED
    BY <2>1, <2>2
<1> QED
  BY <1>3 DEF Siblings

\* Rows with the numbers of a set of them changed.
Numbered(rs, order, s) ==
    [i \in DOMAIN rs |-> IF i \in s THEN [rs[i] EXCEPT !.order = order[i]] ELSE rs[i]]

\* New numbers that differ from each other and from the old ones are all written, one
\* row after the other.
LEMMA RenumberedApplies ==
    ASSUME NEW D \in SUBSET Int, IsFiniteSet(D), NEW I,
           NEW rs \in [D -> [order : Int, item : I]], NEW order,
           \A i, j \in D : i # j => order[i] # order[j] /\ order[i] # rs[j].order
    PROVE  Renumbered(rs, order) = [rows |-> Numbered(rs, order, D), ok |-> TRUE]
<1> DEFINE Write(i, acc) ==
               IF \E j \in D \ {i} : acc.rows[j].order = order[i]
               THEN [acc EXCEPT !.ok = FALSE]
               ELSE [acc EXCEPT !.rows[i].order = order[i]]
           Rest(F, s) == IF s = {} THEN [rows |-> rs, ok |-> TRUE]
                         ELSE Write(Max(s), F[s \ {Max(s)}])
           After(s) == [rows |-> Numbered(rs, order, s), ok |-> TRUE]
<1>1. \A s \in SUBSET D : s # {} => Max(s) \in s /\ s \ {Max(s)} \in SUBSET D
  BY FS_Subset, LargestNumber
<1>2. After({}) = [rows |-> rs, ok |-> TRUE]
  BY DEF Numbered
<1>3. ASSUME NEW s \in SUBSET D, NEW i \in s
      PROVE  Write(i, After(s \ {i})) = After(s)
  <2> DEFINE old == Numbered(rs, order, s \ {i})
  <2>1. /\ old \in [D -> [order : {order[j] : j \in D} \cup Int, item : I]]
        /\ \A j \in D : old[j] = IF j \in s \ {i} THEN [rs[j] EXCEPT !.order = order[j]] ELSE rs[j]
    BY DEF Numbered
  <2>2. ~\E j \in D \ {i} : old[j].order = order[i]
    <3> SUFFICES ASSUME NEW j \in D \ {i} PROVE old[j].order # order[i]
      OBVIOUS
    <3> QED
      BY <2>1
  <2>3. [old EXCEPT ![i].order = order[i]] = Numbered(rs, order, s)
    <3>1. old[i] = rs[i]
      BY <2>1
    <3>2. [old EXCEPT ![i].order = order[i]] = [old EXCEPT ![i] = [rs[i] EXCEPT !.order = order[i]]]
      BY <3>1
    <3> QED
      BY <2>1, <3>2 DEF Numbered
  <2>4. Write(i, [rows |-> old, ok |-> TRUE])
            = [rows |-> [old EXCEPT ![i].order = order[i]], ok |-> TRUE]
    <3> HIDE DEF old
    <3> QED
      BY <2>2
  <2> QED
    BY <2>3, <2>4
<1> DEFINE G == [s \in SUBSET D |-> After(s)]
<1>4. \A s \in SUBSET D : After(s) = Rest(G, s)
  <2> SUFFICES ASSUME NEW s \in SUBSET D PROVE After(s) = Rest(G, s)
    OBVIOUS
  <2>1. CASE s = {}
    BY <1>2, <2>1
  <2>2. CASE s # {}
    <3>1. Max(s) \in s /\ G[s \ {Max(s)}] = After(s \ {Max(s)})
      BY <1>1, <2>2
    <3>2. After(s) = Write(Max(s), After(s \ {Max(s)}))
      BY <1>3, <3>1
    <3> HIDE DEF After, Write
    <3> QED
      BY <2>2, <3>1, <3>2
  <2> QED
    BY <2>1, <2>2
<1>5. G = [s \in SUBSET D |-> Rest(G, s)]
  <2> HIDE DEF Rest, After
  <2> QED
    BY <1>4
<1>6. PICK H : /\ Renumbered(rs, order) = H[D]
               /\ H = [s \in SUBSET D |-> Rest(H, s)]
  <2> DEFINE Sol == CHOOSE F : F = [s \in SUBSET D |-> Rest(F, s)]
  <2>1. Sol = [s \in SUBSET D |-> Rest(Sol, s)]
    <3> HIDE DEF G, Rest
    <3> QED
      BY <1>5
  <2>2. Renumbered(rs, order) = Sol[D]
    <3>1. DOMAIN rs = D
      OBVIOUS
    <3> QED
      BY <3>1, ZenonT(60) DEF Renumbered, MapThenFoldSet
  <2> HIDE DEF Sol
  <2> QED
    BY <2>1, <2>2
<1> DEFINE T == {n \in Nat : \A s \in SUBSET D : Cardinality(s) = n => H[s] = After(s)}
<1>7. \A s \in SUBSET D : IsFiniteSet(s) /\ Cardinality(s) \in Nat
  BY FS_Subset, FS_CardinalityType
<1>8. 0 \in T
  <2> SUFFICES ASSUME NEW s \in SUBSET D, Cardinality(s) = 0 PROVE H[s] = After(s)
    OBVIOUS
  <2>1. s = {}
    BY <1>7, FS_EmptySet
  <2> HIDE DEF After, Write
  <2> QED
    BY <1>2, <1>6, <2>1
<1>9. ASSUME NEW n \in Nat, n \in T PROVE n + 1 \in T
  <2> SUFFICES ASSUME NEW s \in SUBSET D, Cardinality(s) = n + 1 PROVE H[s] = After(s)
    OBVIOUS
  <2>1. s # {}
    BY <1>7, FS_EmptySet
  <2>2. Max(s) \in s /\ s \ {Max(s)} \in SUBSET D
    BY <1>1, <2>1
  <2>3. Cardinality(s \ {Max(s)}) = n
    <3>1. Cardinality(s \ {Max(s)}) = Cardinality(s) - 1
      BY <1>7, <2>2, FS_RemoveElement
    <3> QED
      BY <3>1
  <2>4. H[s \ {Max(s)}] = After(s \ {Max(s)})
    BY <1>9, <2>2, <2>3
  <2>5. After(s) = Write(Max(s), After(s \ {Max(s)}))
    BY <1>3, <2>2
  <2>6. H[s] = Rest(H, s)
    <3> HIDE DEF Rest
    <3> QED
      BY <1>6
  <2> HIDE DEF After, Write
  <2> QED
    BY <2>1, <2>4, <2>5, <2>6
<1>10. Nat \subseteq T
  <2> HIDE DEF T
  <2> QED
    BY <1>8, <1>9, SetInduction
<1> HIDE DEF After
<1>11. H[D] = After(D)
  BY <1>7, <1>10
<1> QED
  BY <1>6, <1>11 DEF After

\* Written in two passes, every new sequence of the rows gets the numbers 1, 2, ...
LEMMA ResequencedApplies ==
    ASSUME RowsInv, NEW ids \in SetToSeqs(DOMAIN rows), ids # <<>>
    PROVE  LET rank == [i \in Range(ids) |-> CHOOSE n \in DOMAIN ids : ids[n] = i]
           IN  /\ Resequenced(rows, ids)
                     = [rows |-> Numbered(rows, rank, DOMAIN rows), ok |-> TRUE]
               /\ rank \in [DOMAIN rows -> 1..OrderLimit]
               /\ \A i, j \in DOMAIN rows : i # j => rank[i] # rank[j]
<1> DEFINE D == DOMAIN rows
           rank == [i \in Range(ids) |-> CHOOSE n \in DOMAIN ids : ids[n] = i]
           taken == {rows[i].order : i \in D}
           base == Max(taken) + Len(ids) + 100
           far == [i \in Range(ids) |-> base + rank[i]]
<1>1. /\ D \in SUBSET Int /\ IsFiniteSet(D)
      /\ Cardinality(D) \in Nat /\ Cardinality(D) <= OrderLimit
  BY FiniteRows
<1>2. /\ ids \in [1..Cardinality(D) -> D] /\ Len(ids) = Cardinality(D) /\ Range(ids) = D
  BY <1>1, EnumerationCovers
<1>3. /\ rank \in [D -> 1..Cardinality(D)]
      /\ \A i \in D : ids[rank[i]] = i
  BY <1>2 DEF Range
<1>4. \A i, j \in D : i # j => rank[i] # rank[j]
  BY <1>3
<1>5. rows \in [D -> [order : Int, item : Items]] /\ \A i \in D : rows[i].order >= 1
  BY Limits DEF RowsInv, Row
<1>6. Max(taken) \in Int /\ \A i \in D : rows[i].order <= Max(taken)
  <2>1. taken \in SUBSET (1..OrderLimit) /\ taken \in SUBSET Int
    BY DEF RowsInv, Row
  <2>2. IsFiniteSet(taken)
    <3>1. IsFiniteSet(1..OrderLimit)
      BY Limits, FS_Interval
    <3> HIDE DEF taken
    <3> QED
      BY <2>1, <3>1, FS_Subset
  <2>3. taken # {}
    <3>1. Cardinality(D) # 0
      BY <1>2
    <3>2. D # {}
      BY <3>1, FS_EmptySet
    <3> QED
      BY <3>2
  <2>4. \A i \in D : rows[i].order \in taken
    OBVIOUS
  <2> HIDE DEF taken
  <2> QED
    BY <2>1, <2>2, <2>3, <2>4, LargestNumber
<1>7. base \in Int /\ \A i, j \in D : base + rank[i] > rows[j].order /\ base + rank[i] > rank[j]
  <2> HIDE DEF taken, rank
  <2> DEFINE largest == Max(taken)
             count == Cardinality(D)
  <2>1. base \in Int /\ largest \in Int /\ count \in Nat /\ base = largest + count + 100
    BY <1>1, <1>2, <1>6
  <2>2. ASSUME NEW i \in D, NEW j \in D
        PROVE  base + rank[i] > rows[j].order /\ base + rank[i] > rank[j]
    <3>1. /\ rank[i] \in 1..count /\ rank[j] \in 1..count
          /\ rows[j].order \in Int /\ rows[j].order >= 1 /\ rows[j].order <= largest
      BY <1>3, <1>5, <1>6
    <3> HIDE DEF base, largest, count, far, D
    <3> QED
      BY <2>1, <3>1
  <2> QED
    BY <2>1, <2>2
<1>8. Renumbered(rows, far) = [rows |-> Numbered(rows, far, D), ok |-> TRUE]
  <2>1. \A i, j \in D : i # j => far[i] # far[j] /\ far[i] # rows[j].order
    <3> HIDE DEF base, rank
    <3>1. \A i \in D : far[i] = base + rank[i] /\ rank[i] \in Int /\ rows[i].order \in Int
      BY <1>2, <1>3, <1>5
    <3> QED
      <4> SUFFICES ASSUME NEW i \in D, NEW j \in D, i # j
                   PROVE  far[i] # far[j] /\ far[i] # rows[j].order
        OBVIOUS
      <4>1. base \in Int /\ base + rank[i] > rows[j].order /\ rank[i] # rank[j]
        BY <1>4, <1>7
      <4>2. far[i] = base + rank[i] /\ far[j] = base + rank[j]
        BY <3>1
      <4>3. rank[i] \in Int /\ rank[j] \in Int /\ rows[j].order \in Int
        BY <3>1
      <4> HIDE DEF far, D
      <4> QED
        BY <4>1, <4>2, <4>3
  <2> HIDE DEF far, D
  <2> QED
    BY <1>1, <1>5, <2>1, RenumberedApplies
<1> DEFINE above == Numbered(rows, far, D)
<1>9. Renumbered(above, rank) = [rows |-> Numbered(above, rank, D), ok |-> TRUE]
  <2>1. \A i \in D : above[i] = [rows[i] EXCEPT !.order = base + rank[i]]
    BY <1>2 DEF Numbered
  <2>2. above \in [D -> [order : Int, item : Items]]
    <3> HIDE DEF base, rank
    <3>1. \A i \in D : base + rank[i] \in Int
      BY <1>3, <1>7
    <3>2. above = [i \in D |-> above[i]]
      BY DEF Numbered
    <3> HIDE DEF above
    <3> QED
      BY <1>5, <2>1, <3>1, <3>2
  <2>3. \A i, j \in D : i # j => rank[i] # rank[j] /\ rank[i] # above[j].order
    <3> HIDE DEF base, rank, above
    <3>1. \A j \in D : above[j].order = base + rank[j]
      BY <1>5, <2>1
    <3>2. \A i \in D : rank[i] \in Int
      BY <1>3
    <3> QED
      BY <1>4, <1>7, <3>1, <3>2
  <2> HIDE DEF above, D, rank
  <2> QED
    BY <1>1, <2>2, <2>3, RenumberedApplies
<1>10. Numbered(above, rank, D) = Numbered(rows, rank, D)
  <2>1. DOMAIN above = D /\ \A i \in D : above[i] = [rows[i] EXCEPT !.order = far[i]]
    BY DEF Numbered
  <2>2. \A i \in D : [above[i] EXCEPT !.order = rank[i]] = [rows[i] EXCEPT !.order = rank[i]]
    <3> HIDE DEF above, rank, far
    <3> QED
      BY <1>5, <2>1
  <2> HIDE DEF above, rank, far
  <2> QED
    BY <2>1, <2>2 DEF Numbered
<1>11. Resequenced(rows, ids) = [rows |-> Numbered(rows, rank, D), ok |-> TRUE]
  <2>1. Resequenced(rows, ids)
          = [rows |-> Renumbered(Renumbered(rows, far).rows, rank).rows,
             ok |-> Renumbered(rows, far).ok /\ Renumbered(Renumbered(rows, far).rows, rank).ok]
    BY Zenon DEF Resequenced
  <2> DEFINE one == [rows |-> above, ok |-> TRUE]
             two == [rows |-> Numbered(rows, rank, D), ok |-> TRUE]
  <2>2. Renumbered(rows, far) = one /\ Renumbered(above, rank) = two
    BY <1>8, <1>9, <1>10, Zenon
  <2>3. one.rows = above /\ two.rows = Numbered(rows, rank, D)
    <3> HIDE DEF above, rank, D
    <3> QED
      OBVIOUS
  <2>4. one.ok = TRUE /\ two.ok = TRUE
    <3> HIDE DEF above, rank, D
    <3> QED
      OBVIOUS
  <2> HIDE DEF far, rank, D, above, one, two
  <2>5. Resequenced(rows, ids) = [rows |-> two.rows, ok |-> one.ok /\ two.ok]
    BY <2>1, <2>2, <2>3, Zenon
  <2>6. (one.ok /\ two.ok) = TRUE
    BY <2>4, Zenon
  <2> QED
    BY <2>3, <2>5, <2>6, Zenon
<1>12. rank \in [D -> 1..OrderLimit]
  <2> HIDE DEF rank, D
  <2>1. 1..Cardinality(D) \subseteq 1..OrderLimit
    BY <1>1, Limits
  <2> QED
    BY <1>3, <2>1
<1> QED
  BY <1>4, <1>11, <1>12

-----------------------------------------------------------------------------
(* Editing *)

\* After an item about LUKS is saved, all rows about LUKS have its answer keys.
LEMMA SyncedRows ==
    ASSUME NEW D, NEW rs \in [D -> Row], NEW item \in Items,
           item.type \notin LuksTypes => SharedKeys(ItemsOf(rs))
    PROVE  /\ Synced(rs, item) \in [D -> Row]
           /\ \A i \in D : Synced(rs, item)[i].order = rs[i].order
           /\ SharedKeys(ItemsOf(Synced(rs, item)))
<1>1. CASE item.type \notin LuksTypes
  BY <1>1 DEF Synced
<1>2. CASE item.type \in LuksTypes
  <2> DEFINE Shared(r) == IF r.item.type \in LuksTypes
                          THEN [r EXCEPT !.item.flag = item.flag, !.item.secret = item.secret]
                          ELSE r
  <2>1. Synced(rs, item) = [i \in D |-> Shared(rs[i])]
    BY <1>2 DEF Synced
  <2>2. ASSUME NEW i \in D
        PROVE  /\ Shared(rs[i]) \in Row
               /\ Shared(rs[i]).order = rs[i].order
               /\ Shared(rs[i]).item.type = rs[i].item.type
               /\ rs[i].item.type \in LuksTypes =>
                      Shared(rs[i]).item.flag = item.flag /\ Shared(rs[i]).item.secret = item.secret
    <3>1. rs[i] \in Row /\ rs[i].item \in Items
      BY DEF Row
    <3>2. item.flag \in AnswerKeys \cup {""} /\ item.secret \in AnswerKeys \cup {""}
      BY DEF Items
    <3> DEFINE new == [rs[i].item EXCEPT !.flag = item.flag, !.secret = item.secret]
    <3>3. new \in Items /\ new.type = rs[i].item.type /\ new.flag = item.flag /\ new.secret = item.secret
      BY <3>1, <3>2 DEF Items
    <3>4. Shared(rs[i]) = IF rs[i].item.type \in LuksTypes THEN [rs[i] EXCEPT !.item = new] ELSE rs[i]
      BY <3>1 DEF Row
    <3> HIDE DEF new, Shared
    <3> QED
      BY <3>1, <3>3, <3>4 DEF Row
  <2> HIDE DEF Shared
  <2> QED
    BY <2>1, <2>2 DEF SharedKeys, ItemsOf
<1> QED
  BY <1>1, <1>2

LEMMA SavedItem ==
    ASSUME NEW item \in Items
    PROVE  Saved(item) \in Items /\ Saved(item).type = item.type
           /\ (item.type \in LuksTypes => Saved(item) = item)
  BY DEF Saved, Items, LuksTypes

LEMMA LargestOrder ==
    ASSUME RowsInv
    PROVE  MaxOrder \in Nat /\ \A i \in DOMAIN rows : rows[i].order <= MaxOrder
<1> DEFINE all == {0} \cup {rows[i].order : i \in DOMAIN rows}
<1>1. all \in SUBSET (0..OrderLimit) /\ all \in SUBSET Int /\ all # {}
  BY Limits DEF RowsInv, Row
<1>2. IsFiniteSet(0..OrderLimit)
  BY Limits, FS_Interval
<1>3. 0 \in all /\ \A i \in DOMAIN rows : rows[i].order \in all
  OBVIOUS
<1>4. MaxOrder = Max(all)
  BY DEF MaxOrder
<1> HIDE DEF all
<1>5. IsFiniteSet(all)
  BY <1>1, <1>2, FS_Subset
<1>6. Max(all) \in all /\ \A j \in all : j <= Max(all)
  BY <1>1, <1>5, LargestNumber
<1>7. MaxOrder \in 0..OrderLimit
  BY <1>1, <1>4, <1>6
<1>8. \A i \in DOMAIN rows : rows[i].order <= MaxOrder
  BY <1>3, <1>4, <1>6
<1> QED
  BY <1>7, <1>8

LEMMA RowsMade ==
    ASSUME NEW D \in SUBSET Ids, rows' \in [D -> Row],
           \A i, j \in D : i # j => rows'[i].order # rows'[j].order,
           SharedKeys(ItemsOf(rows')), rejected' = FALSE
    PROVE  RowsInv'
<1>1. DOMAIN rows' = D
  OBVIOUS
<1> QED
  BY <1>1 DEF RowsInv

LEMMA CreateKeeps ==
    ASSUME RowsInv, CreateItem
    PROVE  RowsInv'
<1>1. PICK id \in Ids \ DOMAIN rows, item \in Posted :
        /\ MaxOrder < OrderLimit
        /\ LET row == [order |-> MaxOrder + 1, item |-> Saved(item)]
               grown == [i \in DOMAIN rows \cup {id} |-> IF i = id THEN row ELSE rows[i]]
           IN  rows' = Synced(grown, item)
        /\ rejected' = FALSE
  BY DEF CreateItem
<1> DEFINE row == [order |-> MaxOrder + 1, item |-> Saved(item)]
           D == DOMAIN rows \cup {id}
           grown == [i \in D |-> IF i = id THEN row ELSE rows[i]]
<1>2. item \in Items
  BY ItemsAssumption
<1>3. row \in Row
  <2>1. MaxOrder + 1 \in 1..OrderLimit
    BY <1>1, LargestOrder, Limits
  <2> QED
    BY <1>2, <2>1, SavedItem DEF Row
<1>4. grown \in [D -> Row]
  <2> HIDE DEF row
  <2> QED
    BY <1>3 DEF RowsInv
<1>5. item.type \notin LuksTypes => SharedKeys(ItemsOf(grown))
  <2> SUFFICES ASSUME item.type \notin LuksTypes
               PROVE  SharedKeys(ItemsOf(grown))
    OBVIOUS
  <2>1. row.item.type \notin LuksTypes
    BY <1>2, SavedItem
  <2> HIDE DEF row
  <2> QED
    BY <2>1 DEF RowsInv, SharedKeys, ItemsOf
<1>6. /\ rows' \in [D -> Row]
      /\ \A i \in D : rows'[i].order = grown[i].order
      /\ SharedKeys(ItemsOf(rows'))
  <2>1. rows' = Synced(grown, item)
    BY <1>1
  <2> HIDE DEF grown, D
  <2> QED
    BY <1>2, <1>4, <1>5, <2>1, SyncedRows
<1>7. \A i, j \in D : i # j => grown[i].order # grown[j].order
  <2>1. row.order = MaxOrder + 1
    OBVIOUS
  <2>2. \A i \in DOMAIN rows : rows[i].order \in Int /\ rows[i].order # MaxOrder + 1
    <3>1. \A i \in DOMAIN rows : rows[i].order \in Int
      BY Limits DEF RowsInv, Row
    <3> QED
      BY <3>1, LargestOrder
  <2> HIDE DEF row
  <2> QED
    BY <2>1, <2>2 DEF RowsInv
<1>8. DOMAIN rows' = D /\ D \subseteq Ids
  BY <1>6 DEF RowsInv
<1>9. rejected' = FALSE
  BY <1>1
<1> HIDE DEF grown, D
<1>10. \A i, j \in D : i # j => rows'[i].order # rows'[j].order
  BY <1>6, <1>7
<1> QED
  BY <1>6, <1>8, <1>9, <1>10, RowsMade

LEMMA UpdateKeeps ==
    ASSUME RowsInv, UpdateItem
    PROVE  RowsInv'
<1>1. PICK id \in DOMAIN rows, item \in Posted :
        /\ rows' = Synced([rows EXCEPT ![id].item = Saved(item)], item)
        /\ rejected' = FALSE
  BY DEF UpdateItem
<1> DEFINE D == DOMAIN rows
           edited == [rows EXCEPT ![id].item = Saved(item)]
<1>2. item \in Items
  BY ItemsAssumption
<1>3. /\ edited \in [D -> Row]
      /\ \A i \in D : edited[i].order = rows[i].order
      /\ \A i \in D : edited[i].item = IF i = id THEN Saved(item) ELSE rows[i].item
  <2>1. Saved(item) \in Items
    BY <1>2, SavedItem
  <2> QED
    BY <2>1 DEF RowsInv, Row
<1>4. item.type \notin LuksTypes => SharedKeys(ItemsOf(edited))
  <2> SUFFICES ASSUME item.type \notin LuksTypes
               PROVE  SharedKeys(ItemsOf(edited))
    OBVIOUS
  <2>1. Saved(item).type \notin LuksTypes
    BY <1>2, SavedItem
  <2>2. DOMAIN edited = D
    OBVIOUS
  <2> HIDE DEF edited
  <2> QED
    BY <1>3, <2>1, <2>2 DEF RowsInv, SharedKeys, ItemsOf
<1>5. /\ rows' \in [D -> Row]
      /\ \A i \in D : rows'[i].order = edited[i].order
      /\ SharedKeys(ItemsOf(rows'))
  <2>1. rows' = Synced(edited, item)
    BY <1>1
  <2> HIDE DEF edited
  <2>2. DOMAIN edited = D
    BY <1>3
  <2> HIDE DEF D
  <2> QED
    BY <2>1, <2>2, <1>2, <1>3, <1>4, SyncedRows
<1>6. \A i, j \in D : i # j => edited[i].order # edited[j].order
  <2> HIDE DEF edited
  <2> QED
    BY <1>3 DEF RowsInv
<1>7. D \in SUBSET Ids
  BY DEF RowsInv
<1>8. rejected' = FALSE
  BY <1>1
<1> HIDE DEF edited, D
<1>9. \A i, j \in D : i # j => rows'[i].order # rows'[j].order
  BY <1>5, <1>6
<1> QED
  BY <1>5, <1>7, <1>8, <1>9, RowsMade

LEMMA DeleteKeeps ==
    ASSUME RowsInv, DeleteItem
    PROVE  RowsInv'
<1>1. PICK id \in DOMAIN rows :
        rows' = [i \in DOMAIN rows \ {id} |-> rows[i]] /\ rejected' = FALSE
  BY DEF DeleteItem
<1>2. DOMAIN rows' \subseteq DOMAIN rows /\ \A i \in DOMAIN rows' : rows'[i] = rows[i]
  BY <1>1
<1>3. rows' \in [DOMAIN rows' -> Row]
  BY <1>1 DEF RowsInv
<1> QED
  BY <1>1, <1>2, <1>3 DEF RowsInv, SharedKeys, ItemsOf

LEMMA ResequenceKeeps ==
    ASSUME RowsInv, NEW ids \in SetToSeqs(DOMAIN rows), ids # <<>>, Resequence(ids)
    PROVE  RowsInv'
<1> DEFINE D == DOMAIN rows
           rank == [i \in Range(ids) |-> CHOOSE n \in DOMAIN ids : ids[n] = i]
           numbered == Numbered(rows, rank, D)
<1>1. /\ Resequenced(rows, ids) = [rows |-> numbered, ok |-> TRUE]
      /\ rank \in [D -> 1..OrderLimit]
      /\ \A i, j \in D : i # j => rank[i] # rank[j]
  BY ResequencedApplies
<1>2. /\ DOMAIN numbered = D
      /\ \A i \in D : numbered[i] = [rows[i] EXCEPT !.order = rank[i]]
      /\ numbered = [i \in D |-> numbered[i]]
  BY DEF Numbered
<1> HIDE DEF numbered, rank
<1>3. \A i \in D : /\ numbered[i] \in Row /\ numbered[i].order = rank[i]
                   /\ numbered[i].item = rows[i].item
  BY <1>1, <1>2 DEF RowsInv, Row
<1>4. rows' = numbered /\ rejected' = FALSE
  <2> DEFINE result == [rows |-> numbered, ok |-> TRUE]
  <2>1. result.rows = numbered /\ result.ok = TRUE
    OBVIOUS
  <2>2. rows' = (IF result.ok THEN result.rows ELSE rows) /\ rejected' = ~result.ok
    BY <1>1, Zenon DEF Resequence
  <2> HIDE DEF result
  <2>3. rejected' = ~TRUE
    BY <2>1, <2>2, Zenon
  <2>4. rows' = numbered
    BY <2>1, <2>2, Zenon
  <2> QED
    BY <2>3, <2>4, Zenon
<1>5. rows' \in [D -> Row]
  BY <1>2, <1>3, <1>4
<1> QED
  BY <1>1, <1>2, <1>3, <1>4, <1>5 DEF RowsInv, SharedKeys, ItemsOf

LEMMA MoveKeeps ==
    ASSUME RowsInv, MoveItem
    PROVE  RowsInv'
<1>1. PICK n \in 1..(Len(Siblings) - 1) :
        Resequence([Siblings EXCEPT ![n] = Siblings[n + 1], ![n + 1] = Siblings[n]])
  BY DEF MoveItem
<1> DEFINE k == Cardinality(DOMAIN rows)
           ids == [Siblings EXCEPT ![n] = Siblings[n + 1], ![n + 1] = Siblings[n]]
<1>2. /\ k \in Nat /\ Siblings \in [1..k -> DOMAIN rows] /\ Len(Siblings) = k
      /\ \A a, b \in 1..k : a # b => Siblings[a] # Siblings[b]
  BY FiniteRows, SiblingsListed, EnumerationCovers
<1>3. n \in 1..k /\ n + 1 \in 1..k
  BY <1>2
<1>4. ids \in [1..k -> DOMAIN rows] /\ \A a, b \in 1..k : a # b => ids[a] # ids[b]
  <2> HIDE DEF k
  <2> QED
    BY <1>2, <1>3
<1>5. ids \in SetToSeqs(DOMAIN rows)
  BY <1>4 DEF SetToSeqs
<1>6. ids # <<>>
  BY <1>3, <1>4
<1> QED
  BY <1>1, <1>5, <1>6, ResequenceKeeps

LEMMA EditKeeps ==
    ASSUME RowsInv, Edit
    PROVE  RowsInv'
<1>1. CASE ReorderItems
  BY <1>1, ResequenceKeeps DEF ReorderItems
<1>2. CASE EditInputs
  <2>1. PICK id \in DOMAIN rows, required \in BOOLEAN :
          /\ rows[id].item.type = "custom_script"
          /\ rows' = [rows EXCEPT ![id].item.ask = required]
          /\ rejected' = FALSE
    BY <1>2 DEF EditInputs
  <2>2. /\ rows' \in [DOMAIN rows -> Row]
        /\ \A i \in DOMAIN rows :
              /\ rows'[i].order = rows[i].order
              /\ rows'[i].item.type = rows[i].item.type
              /\ rows'[i].item.flag = rows[i].item.flag
              /\ rows'[i].item.secret = rows[i].item.secret
    <3> DEFINE item == [rows[id].item EXCEPT !.ask = required]
    <3>1. rows[id] \in Row /\ rows[id].item \in Items
      BY DEF RowsInv, Row
    <3>2. /\ item \in Items /\ item.type = rows[id].item.type
          /\ item.flag = rows[id].item.flag /\ item.secret = rows[id].item.secret
      BY <3>1 DEF Items
    <3>3. rows' = [rows EXCEPT ![id].item = item]
      BY <2>1
    <3> HIDE DEF item
    <3> QED
      BY <3>2, <3>3 DEF RowsInv, Row
  <2> QED
    BY <2>1, <2>2 DEF RowsInv, SharedKeys, ItemsOf
<1> QED
  BY <1>1, <1>2, CreateKeeps, UpdateKeeps, DeleteKeeps, MoveKeeps DEF Edit

LEMMA RowsInit == Init => RowsInv
<1> SUFFICES ASSUME Init PROVE RowsInv
  OBVIOUS
<1>1. rows = <<>> /\ rejected = FALSE
  BY DEF Init
<1>2. DOMAIN rows = {}
  BY <1>1
<1>3. rows \in [DOMAIN rows -> Row]
  BY <1>1
<1> QED
  BY <1>1, <1>2, <1>3 DEF RowsInv, SharedKeys, ItemsOf

LEMMA RowsStep ==
    ASSUME RowsInv, [Next]_vars
    PROVE  RowsInv'
<1>1. CASE Editing
  BY <1>1, EditKeeps DEF Editing
<1>2. CASE UNCHANGED web
  BY <1>2 DEF web, RowsInv
<1> QED
  BY <1>1, <1>2 DEF Next, Export, Restore, Run, PowerOff, vars, web

-----------------------------------------------------------------------------
(* Where the script is *)

\* What a device may be called: devices an operator names need not exist.
Named == Devices \cup Range(answers)

PlaceInv ==
    /\ script \in Seq(Items) /\ SharedKeys(script)
    /\ stage \in {"edit", "off", "run", "ended", "failed"}
    /\ DOMAIN answers = AnswerKeys
    /\ tpm \in BOOLEAN /\ aware \in BOOLEAN /\ listed \subseteq Containers
    /\ pos \in 1..(Len(script) + 1) /\ step \in Steps
    /\ step # "item" => pos \in DOMAIN script
    /\ stage \in {"edit", "off"} => pos = 1 /\ step = "item" /\ todo = {} /\ dev = ""
    /\ todo \subseteq Named /\ dev \in Named \cup {""}
    /\ known \in Passphrases \cup {""} /\ fresh \in Passphrases \cup {""}

LEMMA ScriptItems ==
    ASSUME PlaceInv
    PROVE  Len(script) \in Nat /\ \A n \in DOMAIN script : script[n] \in Items
<1>1. script \in Seq(Items)
  BY DEF PlaceInv
<1> QED
  BY <1>1

\* A step of the script that works on the item at hand.
Working == stage = "run" /\ pos \in DOMAIN script /\ UNCHANGED <<web, script, machine>>

LEMMA PlaceFails == PlaceInv /\ Working /\ Fail => PlaceInv'
  BY DEF PlaceInv, Working, Fail, place, disk, machine, Named

LEMMA PlaceGoes ==
    ASSUME PlaceInv, Working, NEW to \in Steps, Goto(to)
    PROVE  PlaceInv'
  BY DEF PlaceInv, Working, Goto, disk, machine, Named

LEMMA PlaceNext ==
    ASSUME PlaceInv, Working, NextItem, aware' \in BOOLEAN
    PROVE  PlaceInv'
<1>1. script \in Seq(Items) /\ pos \in DOMAIN script
  BY DEF PlaceInv, Working
<1>2. pos + 1 \in 1..(Len(script) + 1)
  BY <1>1
<1>3. /\ pos' = pos + 1 /\ step' = "item" /\ todo' = {} /\ dev' = "" /\ known' = ""
      /\ fresh' = "" /\ stage' = "run" /\ script' = script /\ answers' = answers
      /\ tpm' = tpm /\ listed' = listed
  BY DEF Working, NextItem, machine
<1> QED
  BY <1>2, <1>3 DEF PlaceInv, Named, Steps

LEMMA PlaceAdvances == PlaceInv /\ Working /\ Advance => PlaceInv'
  BY PlaceNext DEF Advance, PlaceInv

LEMMA PlaceTakes ==
    ASSUME PlaceInv, Working, NEW devices \in SUBSET Named, Take(devices)
    PROVE  PlaceInv'
<1>1. CASE devices = {}
  BY <1>1, PlaceAdvances DEF Take
<1>2. CASE devices # {}
  BY <1>2 DEF Take, PlaceInv, Working, disk, machine, Named, Steps
<1> QED
  BY <1>1, <1>2

LEMMA PlaceChooses == PlaceInv /\ Working /\ ChooseDevices => PlaceInv'
<1> SUFFICES ASSUME PlaceInv, Working, ChooseDevices PROVE PlaceInv'
  OBVIOUS
<1>1. Found \in SUBSET Named
  BY ScriptAssumption DEF Found, PlaceInv, Named
<1>2. ASSUME NEW d \in NamedDevices(Item)
      PROVE  {d} \ {""} \in SUBSET Named
  <2>1. Item \in Items
    BY ScriptItems DEF Working, Item
  <2>2. Item.first \in AnswerKeys \cup {""}
    BY <2>1 DEF Items
  <2>3. CASE Item.first # "" /\ answers[Item.first] # Missing
    BY <1>2, <2>2, <2>3 DEF NamedDevices, Ask, PlaceInv, Named, Range
  <2>4. CASE ~(Item.first # "" /\ answers[Item.first] # Missing)
    BY <1>2, <2>4 DEF NamedDevices, Ask, Named
  <2> QED
    BY <2>3, <2>4
<1> QED
  BY <1>1, <1>2, PlaceFails, PlaceTakes DEF ChooseDevices

\* The items that are not about LUKS.
LEMMA PlaceOfOthers ==
    ASSUME PlaceInv, Working,
           \/ Hostname \/ LocalUser \/ AdJoin \/ StaticIp \/ Bootloader
           \/ Registration \/ WaitForEnter \/ CustomScript
    PROVE  PlaceInv'
<1> USE PlaceAdvances, PlaceFails
<1>1. ASSUME NEW to \in {"password", "credentials", "repos"}, Goto(to)
      PROVE  PlaceInv'
  BY <1>1, PlaceGoes DEF Steps
<1>2. CASE Hostname \/ AdJoin \/ StaticIp \/ WaitForEnter \/ CustomScript
  BY <1>2 DEF Hostname, AdJoin, StaticIp, WaitForEnter, CustomScript
<1>3. CASE LocalUser
  BY <1>1, <1>3 DEF LocalUser
<1>4. CASE Bootloader
  BY <1>1, <1>4 DEF Bootloader
<1>5. CASE Registration
  BY <1>1, <1>5 DEF Registration
<1> QED
  BY <1>2, <1>3, <1>4, <1>5

LEMMA PlaceOfRotation ==
    ASSUME PlaceInv, Working,
           \/ RotateDevices \/ RotateNext \/ RotateCurrent \/ RotateNew
           \/ RotateAdd \/ RotateRemove
    PROVE  PlaceInv'
<1> USE PlaceAdvances, PlaceFails DEF machine, Named, Steps, disk, Passphrases
<1>1. CASE RotateDevices
  BY <1>1, PlaceChooses DEF RotateDevices
<1>2. CASE RotateNext /\ ~Advance
  <2>1. PICK d \in todo :
            /\ todo' = todo \ {d} /\ dev' = d
            /\ known' = IF Opens(d, "build") THEN "build" ELSE ""
            /\ step' = IF Opens(d, "build") THEN "new" ELSE "current"
            /\ UNCHANGED <<stage, pos, fresh, disk>>
    BY <1>2 DEF RotateNext
  <2> QED
    BY <2>1 DEF PlaceInv, Working
<1>3. CASE RotateCurrent
  BY <1>3 DEF RotateCurrent, PlaceInv, Working
<1>4. CASE RotateNew
  BY <1>4 DEF RotateNew, PlaceInv, Working
<1>5. CASE (RotateAdd \/ RotateRemove) /\ ~Fail
  BY <1>5 DEF RotateAdd, RotateRemove, PlaceInv, Working
<1> QED
  BY <1>1, <1>2, <1>3, <1>4, <1>5

LEMMA PlaceOfBinding ==
    ASSUME PlaceInv, Working,
           \/ TpmDevices \/ TpmNext \/ TpmCurrent \/ TpmBind
           \/ TpmList \/ TpmDrop \/ TpmRegenerate
    PROVE  PlaceInv'
<1> USE PlaceAdvances, PlaceFails
<1>1. CASE TpmDevices
  <2>1. CASE stage' = "ended" /\ UNCHANGED <<place, disk>>
    BY <2>1 DEF PlaceInv, Working, place, disk, machine, Named
  <2> QED
    BY <1>1, <2>1, PlaceChooses DEF TpmDevices
<1>2. CASE TpmNext
  <2>1. CASE Goto("regenerate")
    BY <2>1, PlaceGoes DEF Steps
  <2>2. ASSUME NEW d \in todo,
               todo' = todo \ {d}, dev' = d,
               step' = IF d \in Containers THEN "current" ELSE "next",
               UNCHANGED <<stage, pos, known, fresh, disk>>
        PROVE  PlaceInv'
    BY <2>2 DEF PlaceInv, Working, machine, Named, Steps, disk
  <2> QED
    BY <1>2, <2>1, <2>2 DEF TpmNext
<1>3. CASE TpmCurrent
  BY <1>3 DEF TpmCurrent, PlaceInv, Working, machine, Named, Steps, disk
<1>4. CASE TpmBind
  <2>1. CASE Goto(Unbound)
    BY <2>1, PlaceGoes DEF Unbound, Steps
  <2>2. CASE ~Goto(Unbound)
    BY <1>4, <2>2 DEF TpmBind, PlaceInv, Working, machine, Named, Steps
  <2> QED
    BY <2>1, <2>2
<1>5. CASE TpmList
  BY <1>5, PlaceGoes DEF TpmList, Steps
<1>6. CASE TpmDrop
  BY <1>6 DEF TpmDrop, PlaceInv, Working, machine, Named, Steps
<1>7. CASE TpmRegenerate
  BY <1>7, PlaceNext DEF TpmRegenerate
<1> QED
  BY <1>1, <1>2, <1>3, <1>4, <1>5, <1>6, <1>7

\* The exported items are those of the rows.
LEMMA PlaceExports ==
    ASSUME RowsInv, PlaceInv, Export
    PROVE  PlaceInv'
<1> DEFINE k == Cardinality(DOMAIN rows)
<1>1. k \in Nat /\ Siblings \in [1..k -> DOMAIN rows] /\ DOMAIN Siblings = 1..k
  BY FiniteRows, SiblingsListed, EnumerationCovers
<1>2. script' = [n \in 1..k |-> rows[Siblings[n]].item]
  BY <1>1 DEF Export
<1>3. \A n \in 1..k : /\ Siblings[n] \in DOMAIN rows
                      /\ script'[n] = rows[Siblings[n]].item
                      /\ script'[n] \in Items
  BY <1>1, <1>2 DEF RowsInv, Row
<1> HIDE DEF k
<1>4. script' \in Seq(Items) /\ DOMAIN script' = 1..k
  BY <1>1, <1>2, <1>3
<1>5. SharedKeys(script')
  BY <1>3, <1>4 DEF RowsInv, SharedKeys, ItemsOf
<1>6. 1 \in 1..(Len(script') + 1)
  BY <1>4
<1>7. /\ pos = 1 /\ step = "item" /\ stage' = "off"
      /\ UNCHANGED <<machine, place, disk>>
  BY DEF Export, PlaceInv
<1>8. /\ pos' = 1 /\ step' = "item" /\ todo' = todo /\ dev' = dev /\ known' = known
      /\ fresh' = fresh /\ answers' = answers /\ tpm' = tpm /\ listed' = listed
      /\ aware' = aware
  BY <1>7 DEF machine, place, disk
<1>9. /\ DOMAIN answers = AnswerKeys
      /\ tpm \in BOOLEAN /\ aware \in BOOLEAN /\ listed \subseteq Containers
      /\ step \in Steps /\ todo = {} /\ dev = ""
      /\ known \in Passphrases \cup {""} /\ fresh \in Passphrases \cup {""}
  BY DEF PlaceInv, Export
<1> HIDE DEF Named
<1> QED
  BY <1>4, <1>5, <1>6, <1>7, <1>8, <1>9 DEF PlaceInv

LEMMA PlaceInit == Init => PlaceInv
<1> SUFFICES ASSUME Init PROVE PlaceInv
  OBVIOUS
<1>1. script = <<>>
  BY DEF Init
<1>2. script \in Seq(Items) /\ DOMAIN script = {} /\ Len(script) = 0
  BY <1>1
<1>3. 1 \in 1..(Len(script) + 1) /\ SharedKeys(script)
  BY <1>2 DEF SharedKeys
<1>4. DOMAIN answers = AnswerKeys
  BY DEF Init
<1>5. /\ stage = "edit" /\ tpm = FALSE /\ aware = FALSE /\ listed = {} /\ pos = 1
      /\ step = "item" /\ todo = {} /\ dev = "" /\ known = "" /\ fresh = ""
  BY DEF Init
<1> QED
  BY <1>2, <1>3, <1>4, <1>5 DEF PlaceInv, Steps

LEMMA PlaceStep ==
    ASSUME RowsInv, PlaceInv, KeyInv, [Next]_vars
    PROVE  PlaceInv'
<1>1. CASE Editing
  BY <1>1 DEF Editing, PlaceInv, machine, place, disk, Named
<1>2. CASE Export
  BY <1>2, PlaceExports
<1>3. CASE Restore
  <2>1. DOMAIN answers' = AnswerKeys
    BY <1>3, ScriptAssumption DEF Restore, Template
  <2>2. stage' = "run" /\ tpm' \in BOOLEAN /\ aware' \in BOOLEAN /\ listed' \subseteq Containers
        /\ UNCHANGED <<script, place>> /\ todo' = {} /\ dev' = ""
    BY <1>3 DEF Restore, PlaceInv, place
  <2> QED
    BY <2>1, <2>2 DEF PlaceInv, place
<1>4. CASE PowerOff
  <2>1. 1 \in 1..(Len(script) + 1)
    BY ScriptItems
  <2> QED
    BY <1>4, <2>1 DEF PowerOff, PlaceInv, machine, disk, Named, Steps
<1>5. CASE UNCHANGED vars
  BY <1>5 DEF vars, PlaceInv, Named
<1>6. CASE Run
  <2>1. CASE Complete
    BY <1>6, <2>1 DEF Run, Complete, PlaceInv, place, disk, machine, Named
  <2>2. CASE ~Complete
    <3>1. Working
      BY <1>6, <2>2 DEF Working, Run, Hostname, LocalUser, AdJoin, StaticIp, Bootloader,
          Registration, WaitForEnter, CustomScript, RotateDevices, RotateNext,
          RotateCurrent, RotateNew, RotateAdd, RotateRemove, TpmDevices, TpmNext,
          TpmCurrent, TpmBind, TpmList, TpmDrop, TpmRegenerate, Runs
    <3> QED
      BY <1>6, <2>2, <3>1, PlaceOfOthers, PlaceOfRotation, PlaceOfBinding DEF Run
  <2> QED
    BY <2>1, <2>2
<1> QED
  BY <1>1, <1>2, <1>3, <1>4, <1>5, <1>6 DEF Next

LEMMA TypesFollow == RowsInv /\ KeyInv /\ PlaceInv => TypeOK
<1> SUFFICES ASSUME RowsInv, KeyInv, PlaceInv PROVE TypeOK
  OBVIOUS
<1>1. /\ DOMAIN rows \subseteq Ids
      /\ \A i \in DOMAIN rows : rows[i].order \in 1..OrderLimit /\ rows[i].item \in Items
      /\ rejected \in BOOLEAN
  BY DEF RowsInv, Row
<1>2. \A n \in DOMAIN script : script[n] \in Items
  BY ScriptItems
<1>3. keys \in [Containers -> KS!Slots]
  BY DEF KeyInv, KS!Slots
<1>4. /\ step \in {"add", "remove"} => fresh # ""
      /\ step \in {"add", "remove", "bind", "list", "drop"} => known # "" /\ Opens(dev, known)
  BY DEF KeyInv, Holding, Opens, Passphrases
<1> QED
  BY <1>1, <1>2, <1>3, <1>4 DEF TypeOK, PlaceInv, Named

\* The type invariant: devices, passphrases and items are what the script was given,
\* and the passphrase it works with opens the device.
THEOREM AfterburnerTypeCorrect == Spec => []TypeOK
<1>1. Init => RowsInv /\ KeyInv /\ SomeKey /\ PlaceInv
  BY RowsInit, KeyInit, PlaceInit
<1>2. RowsInv /\ KeyInv /\ SomeKey /\ PlaceInv /\ [Next]_vars
        => (RowsInv /\ KeyInv /\ SomeKey /\ PlaceInv)'
  BY RowsStep, KeyStep, PlaceStep
<1> QED
  BY <1>1, <1>2, TypesFollow, PTL DEF Spec

\* No edit of a profile fails on the unique order of its items (_resequence_orders in
\* apps/afterburners/views.py).
THEOREM EditsAreApplied == Spec => []EditsApply
<1>1. RowsInv => EditsApply
  BY DEF RowsInv, EditsApply
<1> QED
  BY <1>1, RowsInit, RowsStep, PTL DEF Spec

-----------------------------------------------------------------------------
(* One key between two items *)

\* The item that binds to the TPM is under way.
Binding == step # "item" /\ script[pos].type = "tpm_integration"

\* While the script runs a container has one key, and the one at hand a second between
\* adding and removing; a key in the TPM is of use, or will be when the item is done.
OneKeyInv ==
    stage \in {"run", "ended"} =>
        /\ \A d \in Containers :
              /\ KS!Total(keys[d]) = IF step \in Doubled /\ d = dev THEN 2 ELSE 1
              /\ keys[d]["tpm"] > 0 => tpm /\ (aware \/ Binding)
        /\ Binding => tpm
        /\ stage = "ended" => step = "item"
        /\ stage = "ended" /\ pos \in DOMAIN script =>
              script[pos].type = "tpm_integration" /\ ~tpm

LEMMA OneKeyFails == OneKeyInv /\ Working /\ Fail => OneKeyInv'
  BY DEF OneKeyInv, Fail

\* A step within an item that leaves the slots alone.
LEMMA OneKeyGoes ==
    ASSUME OneKeyInv, Working, stage' = "run", UNCHANGED <<pos, keys, aware>>,
           step' # "item", step \in Doubled <=> step' \in Doubled,
           step \in Doubled => dev' = dev,
           script[pos].type = "tpm_integration" => tpm
    PROVE  OneKeyInv'
<1>1. tpm' = tpm /\ script' = script /\ stage = "run"
  BY DEF Working, machine
<1> QED
  BY <1>1 DEF OneKeyInv, Binding, KS!Total

LEMMA OneKeyNext ==
    ASSUME OneKeyInv, Working, NextItem, step \notin Doubled,
           (aware' = aware /\ ~Binding) \/ aware' = TRUE
    PROVE  OneKeyInv'
<1>1. /\ tpm' = tpm /\ stage = "run" /\ stage' = "run" /\ step' = "item"
      /\ keys' = keys
  BY DEF Working, machine, NextItem
<1> QED
  BY <1>1 DEF OneKeyInv, Binding, Doubled, KS!Total

LEMMA OneKeyAdvances ==
    ASSUME OneKeyInv, Working, Advance, step \notin Doubled, ~Binding
    PROVE  OneKeyInv'
  BY OneKeyNext DEF Advance

\* Choosing the devices of an item; to bind them there has to be a TPM.
LEMMA OneKeyChooses ==
    ASSUME OneKeyInv, Working, ChooseDevices, step = "item",
           script[pos].type = "tpm_integration" => tpm
    PROVE  OneKeyInv'
<1>1. ASSUME NEW devices, Take(devices)
      PROVE  OneKeyInv'
  <2>1. CASE devices = {}
    BY <1>1, <2>1, OneKeyAdvances DEF Take, Doubled, Binding
  <2>2. CASE devices # {}
    BY <1>1, <2>2, OneKeyGoes DEF Take, Doubled, disk, Working
  <2> QED
    BY <2>1, <2>2
<1> QED
  BY <1>1, OneKeyFails DEF ChooseDevices

LEMMA OneKeyOfOthers ==
    ASSUME OneKeyInv, Working,
           \/ Hostname \/ LocalUser \/ AdJoin \/ StaticIp \/ Bootloader
           \/ Registration \/ WaitForEnter \/ CustomScript
    PROVE  OneKeyInv'
<1>1. script[pos].type # "tpm_integration" /\ step \notin Doubled
  BY DEF Hostname, LocalUser, AdJoin, StaticIp, Bootloader, Registration,
     WaitForEnter, CustomScript, Runs, Doubled
<1>2. Advance => OneKeyInv'
  BY <1>1, OneKeyAdvances DEF Binding
<1>3. ASSUME NEW to \in {"password", "credentials", "repos"}, Goto(to)
      PROVE  OneKeyInv'
  BY <1>1, <1>3, OneKeyGoes DEF Goto, disk, Doubled, Working
<1> USE <1>2, OneKeyFails
<1>4. CASE Hostname \/ AdJoin \/ StaticIp \/ WaitForEnter \/ CustomScript
  BY <1>4 DEF Hostname, AdJoin, StaticIp, WaitForEnter, CustomScript
<1>5. CASE LocalUser \/ Bootloader \/ Registration
  BY <1>3, <1>5 DEF LocalUser, Bootloader, Registration
<1> QED
  BY <1>4, <1>5

LEMMA OneKeyOfRotation ==
    ASSUME OneKeyInv, Working, RotateDevices \/ RotateNext \/ RotateCurrent \/ RotateNew
    PROVE  OneKeyInv'
<1>1. script[pos].type = "luks_rotate" /\ ~Binding /\ step \notin Doubled
  BY DEF RotateDevices, RotateNext, RotateCurrent, RotateNew, Runs, Binding, Doubled
<1>2. CASE RotateDevices
  BY <1>1, <1>2, OneKeyChooses DEF RotateDevices, Runs
<1>3. CASE RotateNext
  <2>1. CASE Advance
    BY <1>1, <2>1, OneKeyAdvances
  <2>2. ASSUME NEW d \in todo,
               step' = IF Opens(d, "build") THEN "new" ELSE "current",
               UNCHANGED <<stage, pos, fresh, disk>>
        PROVE  OneKeyInv'
    BY <1>1, <2>2, OneKeyGoes DEF disk, Doubled, Working
  <2> QED
    BY <1>3, <2>1, <2>2 DEF RotateNext
<1>4. CASE RotateCurrent
  BY <1>1, <1>4, OneKeyGoes DEF RotateCurrent, disk, Doubled, Working
<1>5. CASE RotateNew
  BY <1>1, <1>5, OneKeyGoes DEF RotateNew, disk, Doubled, Working
<1> QED
  BY <1>2, <1>3, <1>4, <1>5

LEMMA OneKeyOfBinding ==
    ASSUME OneKeyInv, Working,
           \/ TpmDevices \/ TpmNext \/ TpmCurrent \/ TpmList \/ TpmRegenerate
           \/ TpmBind /\ Goto(Unbound)
    PROVE  OneKeyInv'
<1> USE OneKeyFails
<1>1. /\ script[pos].type = "tpm_integration" /\ stage = "run"
      /\ step # "item" => Binding /\ tpm
  BY DEF TpmDevices, TpmNext, TpmCurrent, TpmList, TpmRegenerate, TpmBind, Runs, Binding,
     OneKeyInv, Working
<1>2. CASE TpmDevices
  <2>1. step = "item" /\ step \notin Doubled /\ pos \in DOMAIN script
    BY <1>2 DEF TpmDevices, Runs, Doubled
  <2>2. CASE ~tpm /\ stage' = "ended" /\ UNCHANGED <<place, disk>>
    BY <1>1, <2>1, <2>2 DEF OneKeyInv, Binding, Working, machine, place, disk, Doubled,
        KS!Total
  <2>3. CASE tpm /\ ChooseDevices
    BY <2>1, <2>3, OneKeyChooses
  <2> QED
    BY <1>2, <2>2, <2>3 DEF TpmDevices
<1>3. ASSUME NEW to \in {"regenerate", "next"}, Goto(to), step # "item", step \notin Doubled
      PROVE  OneKeyInv'
  BY <1>1, <1>3, OneKeyGoes DEF Goto, disk, Doubled
<1>4. CASE TpmNext
  <2>1. step = "next"
    BY <1>4 DEF TpmNext, Runs
  <2>2. ASSUME NEW d \in todo,
               step' = IF d \in Containers THEN "current" ELSE "next",
               UNCHANGED <<stage, pos, known, fresh, disk>>
        PROVE  OneKeyInv'
    BY <1>1, <2>1, <2>2, OneKeyGoes DEF disk, Doubled
  <2> QED
    BY <1>3, <1>4, <2>1, <2>2 DEF TpmNext, Doubled
<1>5. CASE TpmCurrent
  BY <1>1, <1>5, OneKeyGoes DEF TpmCurrent, Runs, disk, Doubled
<1>6. CASE TpmList
  <2>1. CASE Goto("drop")
    BY <1>1, <1>6, <2>1, OneKeyGoes DEF TpmList, Runs, Goto, disk, Doubled
  <2> QED
    BY <1>6, <2>1 DEF TpmList
<1>7. CASE TpmRegenerate
  BY <1>7, OneKeyNext DEF TpmRegenerate, Runs, Doubled
<1>8. CASE TpmBind /\ Goto(Unbound)
  <2>1. step = "bind"
    BY <1>8 DEF TpmBind, Runs
  <2> QED
    BY <1>3, <1>8, <2>1 DEF Unbound, Doubled
<1> QED
  BY <1>2, <1>4, <1>5, <1>6, <1>7, <1>8

\* A slot is added, and in the TPM only where there is one.
LEMMA OneKeyAdds ==
    ASSUME OneKeyInv, KeyInv, Working, stage' = "run", UNCHANGED <<pos, dev, aware>>,
           NEW s \in KS!Secrets, keys' = [keys EXCEPT ![dev][s] = keys[dev][s] + 1],
           dev \in Containers, step \notin Doubled \cup {"item"}, step' \in Doubled,
           s = "tpm" => Binding
    PROVE  OneKeyInv'
<1>1. /\ tpm' = tpm /\ script' = script /\ stage = "run"
      /\ keys \in [Containers -> [KS!Secrets -> Nat]] /\ step' # "item"
  BY DEF Working, machine, KeyInv, Doubled
<1>2. /\ keys' \in [Containers -> [KS!Secrets -> Nat]]
      /\ KS!Total(keys'[dev]) = KS!Total(keys[dev]) + 1
      /\ \A e \in Containers \ {dev} : keys'[e] = keys[e]
  BY <1>1, AddedKey
<1>3. KS!Total(keys[dev]) = 1 /\ \A e \in Containers : KS!Total(keys[e]) = 1
  BY <1>1 DEF OneKeyInv
<1>4. \A e \in Containers :
         KS!Total(keys'[e]) = IF step' \in Doubled /\ e = dev' THEN 2 ELSE 1
  <2>1. KS!Total(keys'[dev]) = 2
    BY <1>2, <1>3
  <2>2. \A e \in Containers \ {dev} : KS!Total(keys'[e]) = 1
    BY <1>2, <1>3
  <2> QED
    BY <2>1, <2>2
<1>5. Binding' = Binding
  BY <1>1 DEF Binding
<1>6. \A e \in Containers : keys'[e]["tpm"] > 0 => keys[e]["tpm"] > 0 \/ s = "tpm"
  <2>1. s # "tpm" => keys'[dev]["tpm"] = keys[dev]["tpm"]
    BY <1>1, PassphrasesAreSecrets
  <2> QED
    BY <1>2, <2>1
<1>7. \A e \in Containers : keys'[e]["tpm"] > 0 => tpm /\ (aware \/ Binding)
  BY <1>1, <1>6 DEF OneKeyInv
<1>8. Binding => tpm
  BY <1>1 DEF OneKeyInv
<1> HIDE DEF Binding
<1> QED
  BY <1>1, <1>4, <1>5, <1>7, <1>8 DEF OneKeyInv, KS!Total

LEMMA OneKeyRemoves ==
    ASSUME OneKeyInv, KeyInv, (RotateRemove \/ TpmDrop) /\ ~Fail, Working
    PROVE  OneKeyInv'
<1>1. /\ step \in Doubled /\ step' = "next" /\ stage = "run" /\ stage' = "run"
      /\ keys' = [keys EXCEPT ![dev][known] = keys[dev][known] - 1]
      /\ UNCHANGED <<pos, dev, aware, tpm, script>>
  BY DEF RotateRemove, TpmDrop, Runs, Working, machine, Doubled
<1>2. /\ keys \in [Containers -> [KS!Secrets -> Nat]]
      /\ dev \in Containers /\ known \in Passphrases /\ keys[dev][known] > 0
  BY <1>1 DEF KeyInv, Holding, Doubled
<1>3. known \in KS!Secrets /\ known # "tpm"
  BY <1>2, PassphrasesAreSecrets DEF Passphrases
<1>4. /\ keys' \in [Containers -> [KS!Secrets -> Nat]]
      /\ KS!Total(keys'[dev]) = KS!Total(keys[dev]) - 1
      /\ \A e \in Containers \ {dev} : keys'[e] = keys[e]
  BY <1>1, <1>2, <1>3, RemovedKey
<1>5. /\ KS!Total(keys[dev]) = 2
      /\ \A e \in Containers \ {dev} : KS!Total(keys[e]) = 1
  BY <1>1, <1>2 DEF OneKeyInv
<1>6. \A e \in Containers : KS!Total(keys'[e]) = 1
  <2>1. KS!Total(keys'[dev]) = 1
    BY <1>4, <1>5
  <2> QED
    BY <1>4, <1>5, <2>1
<1>7. \A e \in Containers : keys'[e]["tpm"] = keys[e]["tpm"]
  <2>1. keys'[dev]["tpm"] = keys[dev]["tpm"]
    BY <1>1, <1>2, <1>3, PassphrasesAreSecrets
  <2> QED
    BY <1>4, <2>1
<1>8. Binding' = Binding /\ step' \notin Doubled
  BY <1>1 DEF Binding, Doubled
<1>9. (Binding => tpm)
      /\ \A e \in Containers : keys[e]["tpm"] > 0 => tpm /\ (aware \/ Binding)
  BY <1>1 DEF OneKeyInv
<1> HIDE DEF Binding
<1> QED
  BY <1>1, <1>6, <1>7, <1>8, <1>9 DEF OneKeyInv, KS!Total

LEMMA OneKeyInit == Init => OneKeyInv
  BY DEF Init, OneKeyInv

LEMMA OneKeyStep ==
    ASSUME OneKeyInv, KeyInv, PlaceInv, [Next]_vars
    PROVE  OneKeyInv'
<1>1. CASE Editing \/ Export \/ PowerOff
  BY <1>1 DEF Editing, Export, PowerOff, OneKeyInv
<1>2. CASE Restore
  <2>1. /\ keys' = [d \in Containers |-> KS!Formatted]
        /\ step' = "item" /\ stage' = "run"
    BY <1>2 DEF Restore, PlaceInv, place
  <2>2. \A d \in Containers : KS!Total(keys'[d]) = 1 /\ keys'[d]["tpm"] = 0
    BY <2>1, FormattedKeys DEF KS!Formatted, KS!Secrets
  <2> QED
    BY <2>1, <2>2 DEF OneKeyInv, Binding, Doubled, KS!Total
<1>3. CASE UNCHANGED vars
  BY <1>3 DEF vars, OneKeyInv, Binding, KS!Total
<1>4. CASE Run
  <2>1. CASE Complete
    <3>1. /\ stage' = "ended" /\ pos' \notin DOMAIN script' /\ step = "item"
          /\ UNCHANGED <<step, dev, keys, aware, tpm, script>> /\ stage = "run"
      <4>1. pos \notin DOMAIN script
        <5>1. script \in Seq(Items) /\ pos > Len(script)
          BY <2>1 DEF Complete, PlaceInv
        <5> QED
          BY <5>1
      <4>2. step = "item"
        BY <4>1 DEF PlaceInv
      <4> QED
        BY <1>4, <2>1, <4>1, <4>2 DEF Run, Complete, place, disk, machine
    <3> QED
      BY <3>1 DEF OneKeyInv, Binding, Doubled, KS!Total
  <2>2. CASE ~Complete
    <3>1. Working
      BY <1>4, <2>2 DEF Working, Run, Hostname, LocalUser, AdJoin, StaticIp, Bootloader,
          Registration, WaitForEnter, CustomScript, RotateDevices, RotateNext,
          RotateCurrent, RotateNew, RotateAdd, RotateRemove, TpmDevices, TpmNext,
          TpmCurrent, TpmBind, TpmList, TpmDrop, TpmRegenerate, Runs
    <3>2. CASE RotateAdd /\ ~Fail
      <4>1. /\ step = "add" /\ step' = "remove" /\ stage' = "run"
            /\ keys' = [keys EXCEPT ![dev][fresh] = keys[dev][fresh] + 1]
            /\ UNCHANGED <<pos, dev, aware>>
        BY <3>1, <3>2 DEF RotateAdd, Runs, Working
      <4>2. dev \in Containers /\ fresh \in KS!Secrets /\ fresh # "tpm"
        BY <4>1, PassphrasesAreSecrets DEF KeyInv, Holding, Passphrases
      <4> QED
        BY <3>1, <4>1, <4>2, OneKeyAdds DEF Doubled
    <3>3. CASE TpmBind /\ ~Goto(Unbound)
      <4>1. /\ step = "bind" /\ step' = "list" /\ stage' = "run" /\ Binding
            /\ keys' = [keys EXCEPT ![dev]["tpm"] = keys[dev]["tpm"] + 1]
            /\ UNCHANGED <<pos, dev, aware>>
        BY <3>1, <3>3 DEF TpmBind, Runs, Working, Binding
      <4>2. dev \in Containers /\ "tpm" \in KS!Secrets
        BY <4>1, PassphrasesAreSecrets DEF KeyInv, Holding
      <4> QED
        BY <3>1, <4>1, <4>2, OneKeyAdds DEF Doubled
    <3>4. CASE (RotateRemove \/ TpmDrop) /\ ~Fail
      BY <3>1, <3>4, OneKeyRemoves
    <3> QED
      BY <1>4, <2>2, <3>1, <3>2, <3>3, <3>4, OneKeyFails, OneKeyOfOthers,
         OneKeyOfRotation, OneKeyOfBinding DEF Run
  <2> QED
    BY <2>1, <2>2
<1> QED
  BY <1>1, <1>2, <1>3, <1>4 DEF Next

LEMMA OneKeyServes == OneKeyInv /\ KeyInv => ItemsLeaveOneKey
<1> SUFFICES ASSUME OneKeyInv, KeyInv PROVE ItemsLeaveOneKey
  OBVIOUS
<1>1. ASSUME stage = "ended" \/ (stage = "run" /\ step = "item"), NEW d \in Containers
      PROVE  KS!Total(keys[d]) = 1 /\ Bootable(d)
  <2>1. step = "item" /\ stage \in {"run", "ended"}
    BY <1>1 DEF OneKeyInv
  <2>2. /\ KS!Total(keys[d]) = 1
        /\ keys[d]["tpm"] > 0 => tpm /\ aware
    BY <2>1 DEF OneKeyInv, Doubled, Binding
  <2>3. keys[d]["build"] \in Nat /\ keys[d]["new"] \in Nat /\ keys[d]["tpm"] \in Nat
    BY DEF KeyInv, KS!Secrets
  <2>4. keys[d]["build"] > 0 \/ keys[d]["new"] > 0 \/ keys[d]["tpm"] > 0
    BY <2>2, <2>3 DEF KS!Total
  <2> QED
    BY <2>2, <2>4 DEF Bootable, Opens, Passphrases
<1> QED
  BY <1>1 DEF ItemsLeaveOneKey, OneKeyInv

\* After every item each container has one key and the machine starts with it, and only
\* a missing TPM ends the script early (_build_item_snippet).
THEOREM OneKeyBetweenItems == Spec => []ItemsLeaveOneKey
<1>1. Init => RowsInv /\ KeyInv /\ SomeKey /\ PlaceInv /\ OneKeyInv
  BY RowsInit, KeyInit, PlaceInit, OneKeyInit
<1>2. RowsInv /\ KeyInv /\ SomeKey /\ PlaceInv /\ OneKeyInv /\ [Next]_vars
        => (RowsInv /\ KeyInv /\ SomeKey /\ PlaceInv /\ OneKeyInv)'
  BY RowsStep, KeyStep, PlaceStep, OneKeyStep
<1> QED
  BY <1>1, <1>2, OneKeyServes, PTL DEF Spec

-----------------------------------------------------------------------------
(* A profile that sets the LUKS password and then binds the TPM *)

Profile ==
    /\ [n \in DOMAIN script |-> script[n].type] = <<"luks_rotate", "tpm_integration">>
    /\ Unattended(script[1]) /\ script[2].auto

\* The passphrase the answers file gives to both items.
Answer == answers[script[1].secret]

\* The first item: the containers that are done open with the answer.
Rotating ==
    /\ \A d \in Containers : keys[d]["tpm"] = 0
    /\ step # "item" =>
        /\ todo \subseteq Found
        /\ step # "next" => dev \in Found
        /\ \A d \in Found \ todo : step = "next" \/ d # dev => keys[d][Answer] > 0
    /\ step \in {"add", "remove"} => fresh = Answer
    /\ step = "remove" => keys[dev][Answer] > (IF known = Answer THEN 1 ELSE 0)

\* The second item: those that are left to bind do.
Bound ==
    /\ step = "item" => \A d \in Found : keys[d][Answer] > 0
    /\ step # "item" => todo \subseteq Containers /\ \A d \in todo : keys[d][Answer] > 0
    /\ step = "current" => dev \in Containers /\ keys[dev][Answer] > 0
    /\ step \in {"current", "bind", "list", "drop"} => dev \notin todo

PairInv == stage = "run" /\ Profile => (pos = 1 => Rotating) /\ (pos = 2 => Bound)

\* The two items share their answer keys (_sync_shared_luks_tpm_answer_keys).
LEMMA ProfileFacts ==
    ASSUME PlaceInv, Profile
    PROVE  /\ DOMAIN script = {1, 2}
           /\ script[1].type = "luks_rotate" /\ script[2].type = "tpm_integration"
           /\ \A n \in {1, 2} : Ask(script[n].flag, {"yes", "no"}) = {"yes"}
           /\ \A n \in {1, 2} : Secret(script[n]) = {Answer}
           /\ Answer \in Passphrases
           /\ Found \subseteq Containers
<1>1. DOMAIN script = {1, 2} /\ script[1].type = "luks_rotate"
      /\ script[2].type = "tpm_integration"
  <2> DEFINE types == [n \in DOMAIN script |-> script[n].type]
             pair == <<"luks_rotate", "tpm_integration">>
  <2>1. types = pair
    BY DEF Profile
  <2>2. DOMAIN pair = {1, 2} /\ pair[1] = "luks_rotate" /\ pair[2] = "tpm_integration"
    OBVIOUS
  <2>3. DOMAIN script = {1, 2}
    <3>1. DOMAIN types = DOMAIN script
      OBVIOUS
    <3> HIDE DEF types, pair
    <3> QED
      BY <2>1, <2>2, <3>1
  <2>4. types[1] = script[1].type /\ types[2] = script[2].type
    BY <2>3
  <2> HIDE DEF types, pair
  <2> QED
    BY <2>1, <2>2, <2>3, <2>4
<1>2. SharedKeys(script)
  BY DEF PlaceInv
<1>3. script[2].flag = script[1].flag /\ script[2].secret = script[1].secret
  BY <1>1, <1>2 DEF SharedKeys, LuksTypes
<1>4. /\ script[1].flag # "" /\ answers[script[1].flag] = "yes"
      /\ script[1].secret # "" /\ Answer \in Passphrases
  BY DEF Profile, Unattended, Answer
<1>5. Answer # Missing
  BY <1>4 DEF Passphrases, Missing
<1>6. \A n \in {1, 2} : Ask(script[n].flag, {"yes", "no"}) = {"yes"}
  BY <1>3, <1>4 DEF Ask, Missing
<1>7. \A n \in {1, 2} : Secret(script[n]) = {Answer}
  BY <1>3, <1>4, <1>5 DEF Secret, Ask, Answer
<1>8. Found \subseteq Containers
  BY DEF Found, PlaceInv
<1> QED
  BY <1>1, <1>4, <1>6, <1>7, <1>8

\* What the steps of the script leave alone.
LEMMA WorkingKeeps ==
    ASSUME Working
    PROVE  /\ script' = script /\ answers' = answers /\ listed' = listed
           /\ Answer' = Answer /\ Found' = Found /\ Profile' = Profile
  BY DEF Working, machine, Answer, Found, Profile, Unattended

LEMMA RotationPair ==
    ASSUME PlaceInv, KeyInv, Working, stage' = "run", Profile, pos = 1, Rotating,
           \/ RotateDevices \/ RotateNext \/ RotateCurrent \/ RotateNew
           \/ RotateAdd \/ RotateRemove
    PROVE  (pos' = 1 => Rotating') /\ (pos' = 2 => Bound')
<1>1. /\ Answer' = Answer /\ Found' = Found
      /\ Answer \in Passphrases /\ Answer \in KS!Secrets /\ Found \subseteq Containers
      /\ keys \in [Containers -> [KS!Secrets -> Nat]] /\ ~Fail
  BY WorkingKeeps, ProfileFacts, PassphrasesAreSecrets DEF KeyInv, Fail
<1>2. ASSUME Advance, \A d \in Found : keys[d][Answer] > 0
      PROVE  (pos' = 1 => Rotating') /\ (pos' = 2 => Bound')
  <2>1. pos' = 1 + 1 /\ step' = "item" /\ keys' = keys
    BY <1>2 DEF Advance, NextItem
  <2>2. Bound'
    BY <1>1, <1>2, <2>1 DEF Bound
  <2> QED
    BY <2>1, <2>2
<1>3. CASE RotateDevices
  <2>1. Take(Found)
    BY <1>1, <1>3, ProfileFacts DEF RotateDevices, ChooseDevices, Item
  <2>2. CASE Found = {}
    BY <1>2, <2>1, <2>2 DEF Take
  <2>3. CASE Found # {}
    BY <1>1, <2>1, <2>3 DEF Take, Rotating, disk
  <2> QED
    BY <2>2, <2>3
<1>4. CASE RotateNext
  <2>1. step = "next"
    BY <1>4 DEF RotateNext, Runs
  <2>2. CASE todo = {} /\ Advance
    BY <1>2, <2>1, <2>2 DEF Rotating
  <2>3. CASE ~(todo = {} /\ Advance)
    <3>1. PICK d \in todo :
            /\ todo' = todo \ {d} /\ dev' = d
            /\ step' = IF Opens(d, "build") THEN "new" ELSE "current"
            /\ UNCHANGED <<stage, pos, fresh, disk>>
      BY <1>4, <2>3 DEF RotateNext
    <3>2. pos' = 1 /\ keys' = keys /\ step' \in {"new", "current"}
      BY <3>1 DEF disk
    <3>3. Rotating'
      BY <1>1, <2>1, <3>1, <3>2 DEF Rotating
    <3> QED
      BY <3>2, <3>3
  <2> QED
    BY <2>2, <2>3
<1>5. CASE RotateCurrent
  BY <1>1, <1>5 DEF RotateCurrent, Runs, Rotating, disk
<1>6. CASE RotateNew
  <2>1. Secret(Item) = {Answer}
    BY ProfileFacts DEF Item
  <2>2. fresh' = Answer
    BY <1>6, <2>1 DEF RotateNew
  <2> QED
    <3>1. step = "new" /\ step' = "add" /\ UNCHANGED <<pos, todo, dev, known, keys>>
      BY <1>6 DEF RotateNew, Runs, disk
    <3> QED
      BY <1>1, <2>2, <3>1 DEF Rotating
<1>7. CASE RotateAdd
  <2>1. /\ step = "add" /\ step' = "remove" /\ fresh = Answer /\ dev \in Found
        /\ keys' = [keys EXCEPT ![dev][fresh] = keys[dev][fresh] + 1]
        /\ UNCHANGED <<pos, todo, dev, known, fresh>>
    BY <1>1, <1>7 DEF RotateAdd, Runs, Rotating
  <2>2. keys[dev][known] > 0 /\ known \in KS!Secrets /\ dev \in Containers
    BY <2>1, PassphrasesAreSecrets DEF KeyInv, Holding
  <2>3. /\ keys'[dev][Answer] = keys[dev][Answer] + 1
        /\ keys'[dev]["tpm"] = keys[dev]["tpm"]
        /\ \A e \in Containers \ {dev} : keys'[e] = keys[e]
    BY <1>1, <2>1, <2>2, PassphrasesAreSecrets DEF Passphrases
  <2>4. keys[dev][Answer] \in Nat
    BY <1>1, <2>2
  <2>5. keys'[dev][Answer] > (IF known = Answer THEN 1 ELSE 0)
    BY <2>2, <2>3, <2>4
  <2> QED
    BY <1>1, <2>1, <2>2, <2>3, <2>5 DEF Rotating
<1>8. CASE RotateRemove
  <2>1. /\ step = "remove" /\ step' = "next" /\ dev \in Found
        /\ keys' = [keys EXCEPT ![dev][known] = keys[dev][known] - 1]
        /\ UNCHANGED <<pos, todo, dev>>
    BY <1>1, <1>8 DEF RotateRemove, Runs, Rotating
  <2>2. known \in Passphrases /\ known \in KS!Secrets /\ known # "tpm" /\ dev \in Containers
    BY <2>1, PassphrasesAreSecrets DEF KeyInv, Holding, Passphrases
  <2>3. /\ keys'[dev][Answer]
              = IF known = Answer THEN keys[dev][Answer] - 1 ELSE keys[dev][Answer]
        /\ keys'[dev]["tpm"] = keys[dev]["tpm"]
        /\ \A e \in Containers \ {dev} : keys'[e] = keys[e]
    BY <1>1, <2>1, <2>2, PassphrasesAreSecrets
  <2>4. keys[dev][Answer] > (IF known = Answer THEN 1 ELSE 0) /\ keys[dev][Answer] \in Nat
    BY <1>1, <2>1, <2>2 DEF Rotating
  <2>5. keys'[dev][Answer] > 0
    BY <2>3, <2>4
  <2> QED
    BY <1>1, <2>1, <2>2, <2>3, <2>5 DEF Rotating
<1> QED
  BY <1>3, <1>4, <1>5, <1>6, <1>7, <1>8

LEMMA BindingPair ==
    ASSUME PlaceInv, KeyInv, Working, stage' = "run", Profile, pos = 2, Bound,
           \/ TpmDevices \/ TpmNext \/ TpmCurrent \/ TpmBind
           \/ TpmList \/ TpmDrop \/ TpmRegenerate
    PROVE  pos' \in {2, 3} /\ (pos' = 2 => Bound')
<1>1. /\ Answer' = Answer /\ Found' = Found
      /\ Answer \in Passphrases /\ Answer \in KS!Secrets /\ Found \subseteq Containers
      /\ keys \in [Containers -> [KS!Secrets -> Nat]] /\ ~Fail
  BY WorkingKeeps, ProfileFacts, PassphrasesAreSecrets DEF KeyInv, Fail
<1>2. NextItem => pos' = 3
  <2>1. NextItem => pos' = 2 + 1
    BY DEF NextItem
  <2> QED
    BY <2>1
<1>3. CASE TpmDevices
  <2>1. step = "item" /\ ChooseDevices
    BY <1>1, <1>3 DEF TpmDevices, Runs
  <2>2. Take(Found)
    BY <1>1, <2>1, ProfileFacts DEF ChooseDevices, Item
  <2>3. CASE Found = {}
    BY <1>2, <2>2, <2>3 DEF Take, Advance
  <2>4. CASE Found # {}
    BY <1>1, <2>1, <2>2, <2>4 DEF Take, Bound, disk
  <2> QED
    BY <2>3, <2>4
<1>4. CASE TpmNext
  BY <1>1, <1>4 DEF TpmNext, Runs, Goto, Bound, disk
<1>5. CASE TpmCurrent
  BY <1>1, <1>5 DEF TpmCurrent, Runs, Bound, disk
<1>6. CASE TpmBind
  <2>1. step = "bind"
    BY <1>6 DEF TpmBind, Runs
  <2>2. CASE Goto(Unbound)
    BY <1>1, <2>1, <2>2 DEF Goto, Unbound, Bound, disk
  <2>3. CASE ~Goto(Unbound)
    <3>1. /\ step' = "list" /\ UNCHANGED <<pos, todo, dev>>
          /\ keys' = [keys EXCEPT ![dev]["tpm"] = keys[dev]["tpm"] + 1]
      BY <1>6, <2>3 DEF TpmBind
    <3>2. dev \notin todo /\ todo \subseteq Containers /\ \A d \in todo : keys[d][Answer] > 0
      BY <2>1 DEF Bound
    <3>3. \A d \in todo : keys'[d] = keys[d]
      BY <1>1, <3>1, <3>2
    <3> QED
      BY <1>1, <3>1, <3>2, <3>3 DEF Bound
  <2> QED
    BY <2>2, <2>3
<1>7. CASE TpmList
  BY <1>1, <1>7 DEF TpmList, Runs, Goto, Bound, disk
<1>8. CASE TpmDrop
  <2>1. /\ step = "drop" /\ step' = "next" /\ UNCHANGED <<pos, todo, dev>>
        /\ keys' = [keys EXCEPT ![dev][known] = keys[dev][known] - 1]
    BY <1>1, <1>8 DEF TpmDrop, Runs
  <2>2. dev \notin todo /\ todo \subseteq Containers /\ \A d \in todo : keys[d][Answer] > 0
    BY <2>1 DEF Bound
  <2>3. \A d \in todo : keys'[d] = keys[d]
    BY <1>1, <2>1, <2>2
  <2> QED
    BY <1>1, <2>1, <2>2, <2>3 DEF Bound
<1>9. CASE TpmRegenerate
  BY <1>1, <1>2, <1>9 DEF TpmRegenerate
<1> QED
  BY <1>3, <1>4, <1>5, <1>6, <1>7, <1>8, <1>9

LEMMA PairStep ==
    ASSUME PairInv, PlaceInv, KeyInv, [Next]_vars
    PROVE  PairInv'
<1>1. CASE Editing \/ Export \/ PowerOff
  BY <1>1 DEF Editing, Export, PowerOff, PairInv
<1>2. CASE Restore
  <2>1. /\ keys' = [d \in Containers |-> KS!Formatted]
        /\ step' = "item" /\ pos' = 1
    BY <1>2 DEF Restore, PlaceInv, place
  <2>2. \A d \in Containers : keys'[d]["tpm"] = 0
    BY <2>1 DEF KS!Formatted, KS!Secrets
  <2> QED
    BY <2>1, <2>2 DEF PairInv, Rotating
<1>3. CASE UNCHANGED vars
  BY <1>3 DEF vars, PairInv, Profile, Unattended, Rotating, Bound, Answer, Found
<1>4. CASE Run
  <2>1. CASE Complete
    BY <2>1 DEF Complete, PairInv
  <2>2. CASE ~Complete
    <3>1. Working
      BY <1>4, <2>2 DEF Working, Run, Hostname, LocalUser, AdJoin, StaticIp, Bootloader,
          Registration, WaitForEnter, CustomScript, RotateDevices, RotateNext,
          RotateCurrent, RotateNew, RotateAdd, RotateRemove, TpmDevices, TpmNext,
          TpmCurrent, TpmBind, TpmList, TpmDrop, TpmRegenerate, Runs
    <3> SUFFICES ASSUME stage' = "run", Profile
                 PROVE  (pos' = 1 => Rotating') /\ (pos' = 2 => Bound')
      BY <3>1, WorkingKeeps DEF PairInv
    <3>2. pos \in {1, 2} /\ stage = "run"
      BY <3>1, ProfileFacts DEF Working
    <3>3. CASE pos = 1
      <4>1. script[pos].type = "luks_rotate" /\ Rotating
        BY <3>2, <3>3, ProfileFacts DEF PairInv
      <4>2. \/ RotateDevices \/ RotateNext \/ RotateCurrent \/ RotateNew
            \/ RotateAdd \/ RotateRemove
        BY <1>4, <2>2, <4>1 DEF Run, Hostname, LocalUser, AdJoin, StaticIp, Bootloader,
          Registration, WaitForEnter, CustomScript, TpmDevices, TpmNext,
          TpmCurrent, TpmBind, TpmList, TpmDrop, TpmRegenerate, Runs
      <4> QED
        BY <3>1, <3>3, <4>1, <4>2, RotationPair
    <3>4. CASE pos = 2
      <4>1. script[pos].type = "tpm_integration" /\ Bound
        BY <3>2, <3>4, ProfileFacts DEF PairInv
      <4>2. \/ TpmDevices \/ TpmNext \/ TpmCurrent \/ TpmBind
            \/ TpmList \/ TpmDrop \/ TpmRegenerate
        BY <1>4, <2>2, <4>1 DEF Run, Hostname, LocalUser, AdJoin, StaticIp, Bootloader,
          Registration, WaitForEnter, CustomScript, RotateDevices, RotateNext,
          RotateCurrent, RotateNew, RotateAdd, RotateRemove, Runs
      <4> QED
        BY <3>1, <3>4, <4>1, <4>2, BindingPair
    <3> QED
      BY <3>2, <3>3, <3>4
  <2> QED
    BY <2>1, <2>2
<1> QED
  BY <1>1, <1>2, <1>3, <1>4 DEF Next

LEMMA PairServes == PairInv /\ PlaceInv /\ KeyInv /\ SomeKey => RotateThenBind
<1> SUFFICES ASSUME PairInv, PlaceInv, KeyInv, SomeKey, Profile, AskedInVain
             PROVE  FALSE
  BY DEF RotateThenBind, Profile
<1>1. /\ stage = "run" /\ pos \in {1, 2} /\ Secret(Item) = {Answer}
      /\ Answer \in Passphrases /\ Answer # ""
  BY ProfileFacts DEF AskedInVain, Item, Passphrases
<1>2. CASE step = "current" /\ Item.type = "luks_rotate"
            /\ ~\E secret \in Passphrases : Opens(dev, secret)
  <2>1. pos = 1 /\ Rotating
    BY <1>1, <1>2, ProfileFacts DEF Item, PairInv
  <2>2. dev \in Containers /\ keys[dev]["tpm"] = 0
    BY <1>2, <2>1, ProfileFacts DEF Rotating
  <2>3. keys[dev] \in [KS!Secrets -> Nat] /\ KS!Total(keys[dev]) > 0
    BY <2>2 DEF KeyInv, SomeKey
  <2>4. keys[dev]["build"] > 0 \/ keys[dev]["new"] > 0
    BY <2>2, <2>3 DEF KS!Total, KS!Secrets
  <2> QED
    BY <1>2, <2>2, <2>4 DEF Opens, Passphrases
<1>3. CASE step = "current" /\ Item.type = "tpm_integration"
            /\ ~\E secret \in Secret(Item) \ {""} : Opens(dev, secret)
  <2>1. pos = 2 /\ Bound
    BY <1>1, <1>3, ProfileFacts DEF Item, PairInv
  <2>2. Opens(dev, Answer)
    BY <1>3, <2>1 DEF Bound, Opens
  <2> QED
    BY <1>1, <1>3, <2>2
<1> QED
  BY <1>1, <1>2, <1>3 DEF AskedInVain

\* With a password in the answers file, setting the LUKS password and binding the TPM
\* ask nobody in vain: the second item finds what the first one left.
THEOREM RotateThenBindIsAnswered == Spec => []RotateThenBind
<1>1. Init => RowsInv /\ KeyInv /\ SomeKey /\ PlaceInv /\ PairInv
  BY RowsInit, KeyInit, PlaceInit DEF Init, PairInv
<1>2. RowsInv /\ KeyInv /\ SomeKey /\ PlaceInv /\ PairInv /\ [Next]_vars
        => (RowsInv /\ KeyInv /\ SomeKey /\ PlaceInv /\ PairInv)'
  BY RowsStep, KeyStep, PlaceStep, PairStep
<1> QED
  BY <1>1, <1>2, PairServes, PTL DEF Spec
=============================================================================
