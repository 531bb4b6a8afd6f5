----------------------- MODULE ConnectionConfigs_proofs -----------------------
(***************************************************************************)
(* Proofs about ConnectionConfigs, for any sets of connections, names and  *)
(* validations, and any number of lives of the process.                    *)
(***************************************************************************)
EXTENDS ConnectionConfigs, TLAPS

-----------------------------------------------------------------------------
(* Types.                                                                  *)

LEMMA KeyTypes ==
    ASSUME SavedTypeOK, NEW empty \in BOOLEAN
    PROVE  Encrypted(empty) \in 0 .. KeyOfLife(MaxLives)
BY SavedAssumption DEF SavedTypeOK, Encrypted, EncryptionKey, Plain, EnvironmentKey, KeyOfLife

LEMMA IdleType == Idle \in [of : Entries, revision : 0 .. MaxRevision]
<1>1. \E i \in Entries : TRUE BY SavedAssumption
<1> QED BY <1>1, SavedAssumption DEF Idle

LEMMA NoEntryType == NoEntry \in Saved
BY SavedAssumption DEF NoEntry, Saved, Plain, KeyOfLife

LEMMA TypeInit == SavedInit => SavedTypeOK
BY NoEntryType, IdleType, SavedAssumption DEF SavedInit, SavedTypeOK

LEMMA CreateType ==
    ASSUME SavedTypeOK, NEW i \in Entries, NEW n \in Names, NEW empty \in BOOLEAN,
           CreateEntry(i, n, empty)
    PROVE  SavedTypeOK'
<1>1. Encrypted(empty) \in 0 .. KeyOfLife(MaxLives) BY KeyTypes
<1>2. [NoEntry EXCEPT !.name = n, !.active = TRUE, !.revision = 1,
                      !.key = Encrypted(empty)] \in Saved
  <2>1. 0 \in 0 .. MaxRevision /\ 1 \in 0 .. MaxRevision BY SavedAssumption
  <2>2. NoEntry \in Saved BY NoEntryType
  <2> QED BY <1>1, <2>1, <2>2 DEF Saved
<1>3. entry' \in [Entries -> Saved] BY <1>2 DEF SavedTypeOK, CreateEntry
<1> QED BY <1>3 DEF SavedTypeOK, CreateEntry

\* An update replaces one row by a row.
LEMMA UpdatedRow ==
    ASSUME SavedTypeOK, NEW i \in Entries, NEW n \in Names \cup {NoName},
           NEW change \in {"none", "other", "empty", "new"},
           NEW active \in {"unset", "on", "off"},
           UpdateEntry(i, n, change, active)
    PROVE  \E e \in Saved : entry' = [entry EXCEPT ![i] = e]
<1>1. Encrypted(change = "empty") \in 0 .. KeyOfLife(MaxLives) BY KeyTypes
<1>2. entry[i] \in Saved BY DEF SavedTypeOK
<1> DEFINE e == [entry[i] EXCEPT
                    !.name = IF n = NoName THEN @ ELSE n,
                    !.key = IF change \in {"none", "other"} THEN @
                            ELSE Encrypted(change = "empty"),
                    !.revision = IF change = "none" THEN @ ELSE @ + 1,
                    !.active = (active = "on" \/ (active = "unset" /\ @))]
<1>3. e \in Saved
  <2>1. (IF change = "none" THEN entry[i].revision ELSE entry[i].revision + 1)
            \in 0 .. MaxRevision
      BY <1>2, SavedAssumption DEF Saved, UpdateEntry
  <2>2. (IF n = NoName THEN entry[i].name ELSE n) \in Names \cup {NoName}
      BY <1>2 DEF Saved
  <2>3. (IF change \in {"none", "other"} THEN entry[i].key
         ELSE Encrypted(change = "empty")) \in 0 .. KeyOfLife(MaxLives)
      BY <1>1, <1>2 DEF Saved
  <2>4. (active = "on" \/ (active = "unset" /\ entry[i].active)) \in BOOLEAN
      OBVIOUS
  <2> QED BY <1>2, <2>1, <2>2, <2>3, <2>4 DEF Saved
<1>4. entry' = [entry EXCEPT ![i] = e] BY <1>2 DEF UpdateEntry, SavedTypeOK, Saved
<1> HIDE DEF e
<1> QED BY <1>3, <1>4

LEMMA UpdateType ==
    ASSUME SavedTypeOK, NEW i \in Entries, NEW n \in Names \cup {NoName},
           NEW change \in {"none", "other", "empty", "new"},
           NEW active \in {"unset", "on", "off"},
           UpdateEntry(i, n, change, active)
    PROVE  SavedTypeOK'
<1>1. entry' \in [Entries -> Saved] BY UpdatedRow DEF SavedTypeOK
<1> QED BY <1>1 DEF SavedTypeOK, UpdateEntry

LEMMA TestType ==
    ASSUME SavedTypeOK, NEW i \in Entries, NEW result \in {"success", "failed"},
           TestEntry(i, result)
    PROVE  SavedTypeOK'
<1>1. entry[i] \in Saved BY DEF SavedTypeOK
<1>2. [entry[i] EXCEPT !.status = result, !.tested = entry[i].revision] \in Saved
    BY <1>1 DEF Saved
<1>3. entry' \in [Entries -> Saved] BY <1>2 DEF SavedTypeOK, TestEntry, TestedWith
<1> QED BY <1>3 DEF SavedTypeOK, TestEntry

LEMMA EndValidateType ==
    ASSUME SavedTypeOK, NEW p \in Probes, NEW result \in {"success", "failed"},
           EndValidate(p, result)
    PROVE  SavedTypeOK'
<1>1. /\ probe[p].of \in Entries /\ probe[p].revision \in 0 .. MaxRevision
      /\ entry[probe[p].of] \in Saved
    BY DEF SavedTypeOK
<1>2. [entry[probe[p].of] EXCEPT !.status = result, !.tested = probe[p].revision] \in Saved
    BY <1>1 DEF Saved
<1>3. entry' \in [Entries -> Saved] BY <1>1, <1>2 DEF SavedTypeOK, EndValidate
<1>4. probe' \in [Probes -> [of : Entries, revision : 0 .. MaxRevision]]
    BY IdleType DEF SavedTypeOK, EndValidate
<1> QED BY <1>3, <1>4 DEF SavedTypeOK, EndValidate

LEMMA TypeStep == SavedTypeOK /\ [SavedNext]_savedVars => SavedTypeOK'
<1> SUFFICES ASSUME SavedTypeOK, [SavedNext]_savedVars PROVE SavedTypeOK' OBVIOUS
<1>1. CASE UNCHANGED savedVars BY <1>1 DEF savedVars, SavedTypeOK
<1>2. ASSUME NEW i \in Entries, DeleteEntry(i) PROVE SavedTypeOK'
  <2>0. entry[i] \in Saved BY DEF SavedTypeOK
  <2>1. [entry[i] EXCEPT !.active = FALSE] \in Saved BY <2>0 DEF Saved
  <2>2. entry' \in [Entries -> Saved] BY <1>2, <2>1 DEF SavedTypeOK, DeleteEntry
  <2> QED BY <1>2, <2>2 DEF SavedTypeOK, DeleteEntry
<1>3. ASSUME NEW i \in Entries, NEW p \in Probes, BeginValidate(p, i) PROVE SavedTypeOK'
  <2>1. entry[i].revision \in 0 .. MaxRevision BY DEF SavedTypeOK, Saved
  <2> QED BY <1>3, <2>1 DEF SavedTypeOK, BeginValidate
<1>4. CASE StartLife
    BY <1>4, IdleType, SavedAssumption DEF SavedTypeOK, StartLife
<1> QED
    BY <1>1, <1>2, <1>3, <1>4, CreateType, UpdateType, TestType, EndValidateType
    DEF SavedNext

\* Every variable keeps its type.
THEOREM TypeCorrect == SavedSpec => []SavedTypeOK
BY TypeInit, TypeStep, PTL DEF SavedSpec

-----------------------------------------------------------------------------
(* Secrets.                                                                *)

\* As long as every life had the key of the environment, no other key was used.
KeyInv ==
    alwaysKeyed =>
        keyed /\ \A i \in Entries : Exists(i) => entry[i].key \in {Plain, EnvironmentKey}

LEMMA KeyStep == SavedTypeOK /\ KeyInv /\ [SavedNext]_savedVars => KeyInv'
<1> SUFFICES ASSUME SavedTypeOK, KeyInv, [SavedNext]_savedVars, alwaysKeyed'
             PROVE  keyed' /\ \A i \in Entries :
                                Exists(i)' => entry'[i].key \in {Plain, EnvironmentKey}
    BY DEF KeyInv
<1>0. alwaysKeyed /\ keyed'
  <2>1. CASE StartLife BY <2>1 DEF StartLife
  <2>2. CASE keyed' = keyed /\ alwaysKeyed' = alwaysKeyed
    <3>1. alwaysKeyed BY <2>2, Zenon
    <3>2. keyed BY <3>1, Zenon DEF KeyInv
    <3> QED BY <2>2, <3>1, <3>2, Zenon
  <2>3. StartLife \/ UNCHANGED <<keyed, alwaysKeyed>>
    <3>1. CASE UNCHANGED savedVars BY <3>1, Zenon DEF savedVars
    <3>2. CASE \E i \in Entries, n \in Names, empty \in BOOLEAN : CreateEntry(i, n, empty)
        BY <3>2, Zenon DEF CreateEntry
    <3>3. CASE \E i \in Entries, n \in Names \cup {NoName},
                  change \in {"none", "other", "empty", "new"},
                  active \in {"unset", "on", "off"} : UpdateEntry(i, n, change, active)
      <4> PICK i \in Entries, n \in Names \cup {NoName},
               change \in {"none", "other", "empty", "new"},
               active \in {"unset", "on", "off"} : UpdateEntry(i, n, change, active)
          BY <3>3
      <4>1. UNCHANGED <<kind, probe, life, keyed, alwaysKeyed>> BY DEF UpdateEntry
      <4> QED BY <4>1, Zenon
    <3>4. CASE \E i \in Entries : DeleteEntry(i) BY <3>4, Zenon DEF DeleteEntry
    <3>5. CASE \E i \in Entries, result \in {"success", "failed"} : TestEntry(i, result)
        BY <3>5, Zenon DEF TestEntry
    <3>6. CASE \E p \in Probes, i \in Entries : BeginValidate(p, i)
        BY <3>6, Zenon DEF BeginValidate
    <3>7. CASE \E p \in Probes, result \in {"success", "failed"} : EndValidate(p, result)
        BY <3>7, Zenon DEF EndValidate
    <3> QED BY <3>1, <3>2, <3>3, <3>4, <3>5, <3>6, <3>7 DEF SavedNext
  <2> QED BY <2>1, <2>2, <2>3, Zenon
<1>a. \A empty \in BOOLEAN : Encrypted(empty) \in {Plain, EnvironmentKey}
    BY <1>0 DEF KeyInv, Encrypted, EncryptionKey
<1>b. \A i \in Entries : Exists(i) => entry[i].key \in {Plain, EnvironmentKey}
    BY <1>0 DEF KeyInv
<1>1. ASSUME UNCHANGED entry
      PROVE  \A i \in Entries : Exists(i)' => entry'[i].key \in {Plain, EnvironmentKey}
    BY <1>b, <1>1 DEF Exists
<1>2. ASSUME NEW i \in Entries, NEW n \in Names, NEW empty \in BOOLEAN,
             CreateEntry(i, n, empty)
      PROVE  \A j \in Entries : Exists(j)' => entry'[j].key \in {Plain, EnvironmentKey}
    BY <1>2, <1>a, <1>b DEF CreateEntry, Exists, SavedTypeOK, NoEntry
<1>3. ASSUME NEW i \in Entries, NEW n \in Names \cup {NoName},
             NEW change \in {"none", "other", "empty", "new"},
             NEW active \in {"unset", "on", "off"}, UpdateEntry(i, n, change, active)
      PROVE  \A j \in Entries : Exists(j)' => entry'[j].key \in {Plain, EnvironmentKey}
  <2> SUFFICES ASSUME NEW j \in Entries, Exists(j)'
               PROVE  entry'[j].key \in {Plain, EnvironmentKey}
      OBVIOUS
  <2>0. entry[i] \in Saved /\ entry[j] \in Saved BY DEF SavedTypeOK
  <2>1. CASE j # i BY <1>3, <1>b, <2>1 DEF UpdateEntry, Exists, SavedTypeOK
  <2>2. CASE j = i
    <3>1. entry'[i].key = IF change \in {"none", "other"} THEN entry[i].key
                          ELSE Encrypted(change = "empty")
        BY <1>3, <2>0 DEF UpdateEntry, SavedTypeOK, Saved
    <3>2. Exists(i) BY <1>3 DEF UpdateEntry, Updatable
    <3> QED BY <2>2, <3>1, <3>2, <1>a, <1>b
  <2> QED BY <2>1, <2>2
<1>4. ASSUME NEW i \in Entries, DeleteEntry(i)
      PROVE  \A j \in Entries : Exists(j)' => entry'[j].key \in {Plain, EnvironmentKey}
    BY <1>4, <1>b DEF DeleteEntry, Exists, SavedTypeOK, Saved
<1>5. ASSUME NEW i \in Entries, NEW result \in {"success", "failed"}, TestEntry(i, result)
      PROVE  \A j \in Entries : Exists(j)' => entry'[j].key \in {Plain, EnvironmentKey}
    BY <1>5, <1>b DEF TestEntry, Exists, SavedTypeOK, Saved
<1>6. ASSUME NEW p \in Probes, NEW result \in {"success", "failed"}, EndValidate(p, result)
      PROVE  \A j \in Entries : Exists(j)' => entry'[j].key \in {Plain, EnvironmentKey}
  <2>1. entry' = [entry EXCEPT ![probe[p].of] =
                    [@ EXCEPT !.status = result, !.tested = probe[p].revision]]
      BY <1>6 DEF EndValidate
  <2> QED BY <2>1, <1>b DEF Exists, SavedTypeOK, Saved
<1> QED
    BY <1>0, <1>1, <1>2, <1>3, <1>4, <1>5, <1>6
    DEF SavedNext, savedVars, BeginValidate, StartLife

\* With a valid ENCRYPTION_KEY in every life each stored secret can be read.
THEOREM SecretsCorrect == SavedSpec => []SecretsReadable
<1>1. SavedInit => KeyInv BY DEF SavedInit, KeyInv, Exists, NoEntry
<1>2. KeyInv => SecretsReadable
    BY DEF KeyInv, SecretsReadable, Readable, EncryptionKey
<1> QED BY <1>1, <1>2, TypeCorrect, KeyStep, PTL DEF SavedSpec

-----------------------------------------------------------------------------
(* Test results.                                                           *)

\* No result is of credentials that the row has not had yet, a row that is not
\* there has none, and only a Tencent connection is validated with a wait.
TestedInv ==
    /\ \A i \in Entries : entry[i].tested <= entry[i].revision
    /\ \A i \in Entries : ~Exists(i) => entry[i].revision = 0
    /\ \A p \in Probes : probe[p].revision <= entry[probe[p].of].revision
    /\ kind # "tencent" => \A p \in Probes : probe[p].revision = 0

\* What StatusNotOfOlder says of one row.
NotOfOlder(i) ==
    /\ entry'[i].tested >= entry[i].tested
    /\ (entry'[i].tested # entry[i].tested => entry'[i].tested = entry[i].revision)

\* What a step does to one row, as far as the results go.
Follows(i) ==
    /\ entry'[i].tested \in {entry[i].tested, entry[i].revision}
          \cup {probe[p].revision : p \in {q \in Probes : probe[q].of = i
                                                        /\ probe[q].revision > 0}}
    /\ entry'[i].revision \in {entry[i].revision, entry[i].revision + 1}
    /\ ~Exists(i)' => entry'[i].revision = entry[i].revision /\ ~Exists(i)

LEMMA FollowsStep ==
    ASSUME SavedTypeOK, TestedInv, SavedNext, NEW i \in Entries
    PROVE  Follows(i)
<1>0. entry[i] \in Saved BY DEF SavedTypeOK
<1>1. CASE entry'[i] = entry[i] BY <1>0, <1>1 DEF Follows, Exists
<1>2. ASSUME NEW j \in Entries, NEW n \in Names, NEW empty \in BOOLEAN,
             CreateEntry(j, n, empty), j = i
      PROVE  Follows(i)
  <2>1. /\ entry'[i].name = n /\ entry'[i].revision = 1 /\ entry'[i].tested = 0
      BY <1>2 DEF CreateEntry, NoEntry, SavedTypeOK
  <2>2. entry[i].revision = 0 /\ entry[i].tested = 0
      BY <1>0, <1>2 DEF CreateEntry, TestedInv, Saved
  <2> QED BY <2>1, <2>2, SavedAssumption DEF Follows, Exists
<1>3. ASSUME NEW j \in Entries, NEW n \in Names \cup {NoName},
             NEW change \in {"none", "other", "empty", "new"},
             NEW active \in {"unset", "on", "off"}, UpdateEntry(j, n, change, active), j = i
      PROVE  Follows(i)
  <2>1. /\ entry'[i].name = (IF n = NoName THEN entry[i].name ELSE n)
        /\ entry'[i].revision = (IF change = "none" THEN entry[i].revision
                                 ELSE entry[i].revision + 1)
        /\ entry'[i].tested = entry[i].tested
      BY <1>0, <1>3 DEF UpdateEntry, SavedTypeOK, Saved
  <2>2. entry[i].name # NoName BY <1>3 DEF UpdateEntry, Updatable, Exists
  <2> QED BY <2>1, <2>2 DEF Follows, Exists
<1>4. ASSUME NEW j \in Entries, DeleteEntry(j), j = i PROVE Follows(i)
  <2>1. /\ entry'[i].name = entry[i].name /\ entry'[i].revision = entry[i].revision
        /\ entry'[i].tested = entry[i].tested
      BY <1>0, <1>4 DEF DeleteEntry, SavedTypeOK, Saved
  <2> QED BY <2>1 DEF Follows, Exists
<1>5. ASSUME NEW j \in Entries, NEW result \in {"success", "failed"}, TestEntry(j, result),
             j = i
      PROVE  Follows(i)
  <2>1. /\ entry'[i].name = entry[i].name /\ entry'[i].revision = entry[i].revision
        /\ entry'[i].tested = entry[i].revision
      BY <1>0, <1>5 DEF TestEntry, TestedWith, SavedTypeOK, Saved
  <2> QED BY <2>1 DEF Follows, Exists
<1>6. ASSUME NEW p \in Probes, NEW result \in {"success", "failed"}, EndValidate(p, result),
             probe[p].of = i
      PROVE  Follows(i)
  <2>1. /\ entry'[i].name = entry[i].name /\ entry'[i].revision = entry[i].revision
        /\ entry'[i].tested = probe[p].revision
      BY <1>0, <1>6 DEF EndValidate, SavedTypeOK, Saved
  <2>2. probe[p].revision > 0 BY <1>6 DEF EndValidate
  <2> QED BY <1>6, <2>1, <2>2 DEF Follows, Exists
<1>7. ASSUME NEW j \in Entries, j # i,
             \/ \E n \in Names, empty \in BOOLEAN : CreateEntry(j, n, empty)
             \/ \E n \in Names \cup {NoName}, change \in {"none", "other", "empty", "new"},
                   active \in {"unset", "on", "off"} : UpdateEntry(j, n, change, active)
             \/ DeleteEntry(j)
             \/ \E result \in {"success", "failed"} : TestEntry(j, result)
      PROVE  entry'[i] = entry[i]
  <2>1. CASE \E n \in Names, empty \in BOOLEAN : CreateEntry(j, n, empty)
    BY <1>7, <2>1 DEF CreateEntry, SavedTypeOK
  <2>2. CASE \E n \in Names \cup {NoName}, change \in {"none", "other", "empty", "new"},
                active \in {"unset", "on", "off"} : UpdateEntry(j, n, change, active)
    <3>1. PICK n \in Names \cup {NoName}, change \in {"none", "other", "empty", "new"},
               active \in {"unset", "on", "off"} : UpdateEntry(j, n, change, active)
      BY <2>2
    <3>2. \E e : entry' = [entry EXCEPT ![j] = e]
      BY <1>7, <3>1, UpdatedRow
    <3> QED
      BY <1>7, <3>2 DEF SavedTypeOK
  <2>3. CASE DeleteEntry(j)
    BY <1>7, <2>3 DEF DeleteEntry, SavedTypeOK
  <2>4. CASE \E result \in {"success", "failed"} : TestEntry(j, result)
    BY <1>7, <2>4 DEF TestEntry, SavedTypeOK
  <2> QED
    BY <1>7, <2>1, <2>2, <2>3, <2>4
<1>8. ASSUME NEW p \in Probes, NEW result \in {"success", "failed"}, EndValidate(p, result),
             probe[p].of # i
      PROVE  entry'[i] = entry[i]
    BY <1>8 DEF EndValidate, SavedTypeOK
<1>9. ASSUME StartLife \/ \E p \in Probes, j \in Entries : BeginValidate(p, j)
      PROVE  entry'[i] = entry[i]
    BY <1>9 DEF StartLife, BeginValidate
<1> QED BY <1>1, <1>2, <1>3, <1>4, <1>5, <1>6, <1>7, <1>8, <1>9 DEF SavedNext

\* A validation that waits has the credentials its row had when it began.
LEMMA ProbeStep ==
    ASSUME SavedTypeOK, TestedInv, SavedNext, NEW p \in Probes
    PROVE  /\ probe'[p].revision <= entry[probe'[p].of].revision
           /\ probe'[p].of \in Entries
           /\ kind' = kind
           /\ kind # "tencent" => probe'[p].revision = 0
<1>0. Idle.of \in Entries /\ Idle.revision = 0 BY IdleType DEF Idle
<1>a. \A i \in Entries : entry[i].revision \in Nat BY SavedAssumption DEF SavedTypeOK, Saved
<1>1. CASE UNCHANGED <<kind, probe>> BY <1>1 DEF TestedInv, SavedTypeOK
<1>2. ASSUME NEW q \in Probes, NEW i \in Entries, BeginValidate(q, i)
      PROVE  /\ probe'[p].revision <= entry[probe'[p].of].revision
             /\ probe'[p].of \in Entries
             /\ kind' = kind
             /\ kind # "tencent" => probe'[p].revision = 0
    BY <1>2, <1>a DEF BeginValidate, TestedInv, SavedTypeOK
<1>3. ASSUME NEW q \in Probes, NEW result \in {"success", "failed"}, EndValidate(q, result)
      PROVE  /\ probe'[p].revision <= entry[probe'[p].of].revision
             /\ probe'[p].of \in Entries
             /\ kind' = kind
             /\ kind # "tencent" => probe'[p].revision = 0
    BY <1>0, <1>3, <1>a DEF EndValidate, TestedInv, SavedTypeOK
<1>4. CASE StartLife BY <1>0, <1>4, <1>a DEF StartLife
<1>5. ASSUME NEW i \in Entries,
             \/ \E n \in Names, empty \in BOOLEAN : CreateEntry(i, n, empty)
             \/ \E n \in Names \cup {NoName}, change \in {"none", "other", "empty", "new"},
                   active \in {"unset", "on", "off"} : UpdateEntry(i, n, change, active)
             \/ DeleteEntry(i)
             \/ \E result \in {"success", "failed"} : TestEntry(i, result)
      PROVE  UNCHANGED <<kind, probe>>
    BY <1>5 DEF CreateEntry, UpdateEntry, DeleteEntry, TestEntry
<1> QED BY <1>1, <1>2, <1>3, <1>4, <1>5 DEF SavedNext

LEMMA TestedStep ==
    SavedTypeOK /\ TestedInv /\ [SavedNext]_savedVars => TestedInv'
<1> SUFFICES ASSUME SavedTypeOK, TestedInv, [SavedNext]_savedVars PROVE TestedInv' OBVIOUS
<1>1. CASE UNCHANGED savedVars BY <1>1 DEF savedVars, TestedInv, Exists
<1>2. CASE SavedNext
  <2>0. \A i \in Entries : entry[i].tested \in Nat /\ entry[i].revision \in Nat
      BY SavedAssumption DEF SavedTypeOK, Saved
  <2>a. \A p \in Probes : probe[p].revision \in Nat BY SavedAssumption DEF SavedTypeOK
  <2>1. \A i \in Entries : Follows(i) BY <1>2, FollowsStep
  <2>2. \A i \in Entries : entry'[i].revision >= entry[i].revision
                            /\ entry'[i].revision \in Nat
      BY <2>0, <2>1 DEF Follows
  <2>3. ASSUME NEW i \in Entries PROVE entry'[i].tested <= entry'[i].revision
    <3>1. CASE entry'[i].tested \in {entry[i].tested, entry[i].revision}
        BY <2>0, <2>2, <3>1 DEF TestedInv
    <3>2. ASSUME NEW p \in Probes, probe[p].of = i, entry'[i].tested = probe[p].revision
          PROVE  entry'[i].tested <= entry'[i].revision
        BY <2>0, <2>a, <2>2, <3>2 DEF TestedInv
    <3> QED BY <2>1, <3>1, <3>2 DEF Follows
  <2>4. ASSUME NEW i \in Entries, ~Exists(i)' PROVE entry'[i].revision = 0
      BY <2>1, <2>4 DEF Follows, TestedInv
  <2>5. ASSUME NEW p \in Probes
        PROVE  /\ probe'[p].revision <= entry'[probe'[p].of].revision
               /\ kind' # "tencent" => probe'[p].revision = 0
    <3>1. /\ probe'[p].revision <= entry[probe'[p].of].revision
          /\ probe'[p].of \in Entries
          /\ kind' = kind
          /\ kind # "tencent" => probe'[p].revision = 0
        BY <1>2, ProbeStep
    <3>2. SavedTypeOK' BY TypeStep
    <3>3. probe'[p].revision \in Nat BY <3>2, SavedAssumption DEF SavedTypeOK
    <3> QED BY <2>0, <2>2, <3>1, <3>3
  <2> QED BY <2>3, <2>4, <2>5 DEF TestedInv
<1> QED BY <1>1, <1>2

\* The result of a database test is not replaced by one of older credentials.
THEOREM TestsCorrect == SavedSpec => StatusNotOfOlder
<1>1. SavedInit => TestedInv
  <2> SUFFICES ASSUME SavedInit PROVE TestedInv OBVIOUS
  <2>1. Idle.of \in Entries BY IdleType
  <2>2. Idle.revision = 0 BY DEF Idle
  <2>3. \A i \in Entries : entry[i].tested = 0 /\ entry[i].revision = 0
      BY DEF SavedInit, NoEntry
  <2>4. \A p \in Probes : probe[p] = Idle BY DEF SavedInit
  <2> QED BY <2>1, <2>2, <2>3, <2>4 DEF TestedInv
<1>2. SavedTypeOK /\ TestedInv /\ [SavedNext]_savedVars =>
        [kind # "tencent" =>
           \A i \in Entries :
              /\ entry'[i].tested >= entry[i].tested
              /\ (entry'[i].tested # entry[i].tested
                    => entry'[i].tested = entry[i].revision)]_savedVars
  <2> SUFFICES ASSUME SavedTypeOK, TestedInv, SavedNext, kind # "tencent", NEW i \in Entries
               PROVE  NotOfOlder(i)
      BY DEF NotOfOlder
  <2>1. Follows(i) BY FollowsStep
  <2>2. entry[i].tested \in Nat /\ entry[i].revision \in Nat
      BY SavedAssumption DEF SavedTypeOK, Saved
  <2>3. \A p \in Probes : probe[p].revision = 0 BY DEF TestedInv
  <2>4. entry'[i].tested \in {entry[i].tested, entry[i].revision} BY <2>1, <2>3 DEF Follows
  <2>5. entry[i].tested <= entry[i].revision BY DEF TestedInv
  <2> QED BY <2>2, <2>4, <2>5 DEF NotOfOlder
<1> QED BY <1>1, <1>2, TypeCorrect, TestedStep, PTL DEF SavedSpec, StatusNotOfOlder

-----------------------------------------------------------------------------
(* Deletion.                                                               *)

\* A deleted connection stays deleted, and keeps a name.
THEOREM DeletionCorrect == SavedSpec => DeletedStayDeleted
<1>1. SavedTypeOK /\ [SavedNext]_savedVars =>
        [\A i \in Entries : Exists(i) /\ ~entry[i].active
                               => Exists(i)' /\ ~entry[i].active']_savedVars
  <2> SUFFICES ASSUME SavedTypeOK, SavedNext, NEW i \in Entries, Exists(i), ~entry[i].active
               PROVE  Exists(i)' /\ ~entry'[i].active
      BY DEF savedVars
  <2>0. entry[i] \in Saved /\ entry[i].name # NoName BY DEF SavedTypeOK, Exists
  <2>1. CASE UNCHANGED entry BY <2>1 DEF Exists
  <2>2. ASSUME NEW j \in Entries, NEW n \in Names, NEW empty \in BOOLEAN,
               CreateEntry(j, n, empty)
        PROVE  Exists(i)' /\ ~entry'[i].active
    <3>1. j # i BY <2>2 DEF CreateEntry
    <3>2. entry'[i] = entry[i] BY <2>2, <3>1 DEF CreateEntry, SavedTypeOK
    <3> QED BY <3>2 DEF Exists
  <2>3. ASSUME NEW j \in Entries, NEW n \in Names \cup {NoName},
               NEW change \in {"none", "other", "empty", "new"},
               NEW active \in {"unset", "on", "off"}, UpdateEntry(j, n, change, active)
        PROVE  Exists(i)' /\ ~entry'[i].active
    <3>1. CASE j # i
      <4>1. entry'[i] = entry[i] BY <2>3, <3>1 DEF UpdateEntry, SavedTypeOK
      <4> QED BY <4>1 DEF Exists
    <3>2. CASE j = i
      <4>1. active = "unset" BY <2>3, <3>2 DEF UpdateEntry, Updatable
      <4>2. /\ entry'[i].name = IF n = NoName THEN entry[i].name ELSE n
            /\ entry'[i].active = (active = "on" \/ (active = "unset" /\ entry[i].active))
          BY <2>0, <2>3, <3>2 DEF UpdateEntry, SavedTypeOK, Saved
      <4> QED BY <2>0, <4>1, <4>2 DEF Exists
    <3> QED BY <3>1, <3>2
  <2>4. ASSUME NEW j \in Entries, DeleteEntry(j) PROVE Exists(i)' /\ ~entry'[i].active
    <3>1. j # i BY <2>4 DEF DeleteEntry
    <3>2. entry'[i] = entry[i] BY <2>4, <3>1 DEF DeleteEntry, SavedTypeOK
    <3> QED BY <3>2 DEF Exists
  <2>5. ASSUME NEW j \in Entries, NEW result \in {"success", "failed"}, TestEntry(j, result)
        PROVE  Exists(i)' /\ ~entry'[i].active
    <3>1. entry'[i].name = entry[i].name /\ entry'[i].active = entry[i].active
        BY <2>0, <2>5 DEF TestEntry, SavedTypeOK, Saved
    <3> QED BY <3>1 DEF Exists
  <2>6. ASSUME NEW p \in Probes, NEW result \in {"success", "failed"}, EndValidate(p, result)
        PROVE  Exists(i)' /\ ~entry'[i].active
    <3>1. entry'[i].name = entry[i].name /\ entry'[i].active = entry[i].active
        BY <2>0, <2>6 DEF EndValidate, SavedTypeOK, Saved
    <3> QED BY <3>1 DEF Exists
  <2> QED BY <2>1, <2>2, <2>3, <2>4, <2>5, <2>6 DEF SavedNext, BeginValidate, StartLife
<1> QED BY <1>1, TypeCorrect, PTL DEF SavedSpec, DeletedStayDeleted
=============================================================================
