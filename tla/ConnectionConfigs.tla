-------------------------- MODULE ConnectionConfigs --------------------------
(***************************************************************************)
(* Saved connections (services/mysql_config_service.py,                    *)
(* services/tencent_config_service.py,                                     *)
(* services/postgresql_config_service.py with their routers) and the key   *)
(* their secrets are encrypted with (utils/encryption.py).                 *)
(*                                                                         *)
(* One of the three tables.  Every operation but one is synchronous inside *)
(* a coroutine, so nothing comes between its statements; validating a      *)
(* Tencent connection waits for the API between reading and writing.       *)
(***************************************************************************)
EXTENDS Naturals

CONSTANTS
    Entries,        \* ids of saved connections
    Names, NoName,  \* their names, and none
    Probes,         \* validations that may be under way together
    MaxRevision,    \* bound on the credentials an entry has had
    MaxLives        \* bound on the lives of the process

ASSUME SavedAssumption ==
    /\ NoName \notin Names
    /\ Entries # {}
    /\ {MaxRevision, MaxLives} \subseteq Nat \ {0}

\* Keys by number: a secret that is empty is stored as it is, one may be in
\* ENCRYPTION_KEY, and each life of the process can make one of its own.
Plain == 0
EnvironmentKey == 1
KeyOfLife(n) == 1 + n

VARIABLES
    kind,       \* the table: "mysql", "postgresql" or "tencent"
    entry,      \* entry[i]: its row; no name: no such row
    probe,      \* probe[p]: the credentials a validation waits with
    life,       \* lives of the process so far
    keyed,      \* ENCRYPTION_KEY holds a valid key
    alwaysKeyed \* history: and did in every life

savedVars == <<kind, entry, probe, life, keyed, alwaysKeyed>>

Saved ==
    [name : Names \cup {NoName}, active : BOOLEAN,
     revision : 0 .. MaxRevision, key : 0 .. KeyOfLife(MaxLives),
     status : {"untested", "success", "failed"}, tested : 0 .. MaxRevision]

NoEntry == [name |-> NoName, active |-> FALSE, revision |-> 0, key |-> Plain,
            status |-> "untested", tested |-> 0]

Idle == [of |-> CHOOSE i \in Entries : TRUE, revision |-> 0]

SavedTypeOK ==
    /\ kind \in {"mysql", "postgresql", "tencent"}
    /\ entry \in [Entries -> Saved]
    /\ probe \in [Probes -> [of : Entries, revision : 0 .. MaxRevision]]
    /\ life \in 1 .. MaxLives
    /\ {keyed, alwaysKeyed} \subseteq BOOLEAN

SavedInit ==
    /\ kind \in {"mysql", "postgresql", "tencent"}
    /\ entry = [i \in Entries |-> NoEntry]
    /\ probe = [p \in Probes |-> Idle]
    /\ life = 1
    /\ keyed \in BOOLEAN
    /\ alwaysKeyed = keyed

-----------------------------------------------------------------------------
(* The key.                                                                *)

\* Mutant of EncryptionKey: every life makes its own key.
EncryptionKeyFresh == KeyOfLife(life)

\* _get_encryption_key: a key that is missing or malformed is replaced by one
\* that lives as long as the process.
EncryptionKey == IF keyed THEN EnvironmentKey ELSE KeyOfLife(life)

\* encrypt_password and decrypt_password.
Encrypted(empty) == IF empty THEN Plain ELSE EncryptionKey

Readable(i) == entry[i].key \in {Plain, EncryptionKey}

-----------------------------------------------------------------------------
(* Create, update, delete.                                                 *)

Exists(i) == entry[i].name # NoName

\* The name is UNIQUE over all rows, those made inactive too.
NameFree(n) == \A i \in Entries : entry[i].name # n

\* create_config; a taken name is answered with 400.  The form wants a password
\* for PostgreSQL.
CreateEntry(i, n, empty) ==
    /\ ~Exists(i)
    /\ NameFree(n)
    /\ kind = "postgresql" => ~empty
    /\ entry' = [entry EXCEPT ![i] =
                    [NoEntry EXCEPT !.name = n, !.active = TRUE, !.revision = 1,
                                    !.key = Encrypted(empty)]]
    /\ UNCHANGED <<kind, probe, life, keyed, alwaysKeyed>>

\* Mutant of Updatable: the UPDATE does not ask for is_active.
UpdatableAny(i) == Exists(i)

\* The UPDATE of the PostgreSQL table does not ask for is_active.  Its form does
\* not have the field, so there a deleted row is changed and stays deleted.
Updatable(i) == Exists(i) /\ (kind = "postgresql" \/ entry[i].active)

\* update_config: a name may be given, a secret ("empty" or "new") or only other
\* credentials, and is_active.  Switching it off ends in a 404, since the row is read back as an
\* active one, and so does every change of a deleted row.  The result of the last
\* test stays.
UpdateEntry(i, n, change, active) ==
    /\ Updatable(i)
    /\ n = NoName \/ n = entry[i].name \/ NameFree(n)
    /\ kind = "postgresql" => active = "unset"
    /\ change # "none" => entry[i].revision < MaxRevision
    /\ entry' = [entry EXCEPT
          ![i].name = IF n = NoName THEN @ ELSE n,
          ![i].key = IF change \in {"none", "other"} THEN @ ELSE Encrypted(change = "empty"),
          ![i].revision = IF change = "none" THEN @ ELSE @ + 1,
          ![i].active = (active = "on" \/ (active = "unset" /\ @))]
    /\ entry' # entry
    /\ UNCHANGED <<kind, probe, life, keyed, alwaysKeyed>>

\* delete_config: the row is made inactive; the answer is the same for all ids.
DeleteEntry(i) ==
    /\ entry[i].active
    /\ entry' = [entry EXCEPT ![i].active = FALSE]
    /\ UNCHANGED <<kind, probe, life, keyed, alwaysKeyed>>

-----------------------------------------------------------------------------
(* Tests.                                                                  *)

\* Mutant of TestedWith: the runtime service is made once per connection.
TestedWithFirst(i) == 1

\* build_mysql_service and the others read the row at each test.
TestedWith(i) == entry[i].revision

\* test_connection: a row that is gone or whose secret cannot be read is an error
\* that is written down as a failed test; the statement does not ask for is_active.
\* The Tencent test only looks whether the fields are there.
TestEntry(i, result) ==
    /\ Exists(i)
    /\ result = "success" => entry[i].active /\ Readable(i)
    /\ kind = "tencent" /\ entry[i].key = Plain => result = "failed"
    /\ entry' = [entry EXCEPT ![i].status = result, ![i].tested = TestedWith(i)]
    /\ UNCHANGED <<kind, probe, life, keyed, alwaysKeyed>>

\* validate_sheet_access_async builds the client outside its try ...
BeginValidate(p, i) ==
    /\ kind = "tencent"
    /\ probe[p].revision = 0
    /\ entry[i].active /\ Readable(i)
    /\ probe' = [probe EXCEPT ![p] = [of |-> i, revision |-> entry[i].revision]]
    /\ UNCHANGED <<kind, entry, life, keyed, alwaysKeyed>>

\* ... and writes what came of it to the row as it is after the wait.
EndValidate(p, result) ==
    /\ probe[p].revision > 0
    /\ entry' = [entry EXCEPT ![probe[p].of].status = result,
                              ![probe[p].of].tested = probe[p].revision]
    /\ probe' = [probe EXCEPT ![p] = Idle]
    /\ UNCHANGED <<kind, life, keyed, alwaysKeyed>>

-----------------------------------------------------------------------------
\* The process starts again, perhaps with another environment.
StartLife ==
    /\ life < MaxLives
    /\ life' = life + 1
    /\ keyed' \in BOOLEAN
    /\ alwaysKeyed' = (alwaysKeyed /\ keyed')
    /\ probe' = [p \in Probes |-> Idle]
    /\ UNCHANGED <<kind, entry>>

SavedNext ==
    \/ \E i \in Entries :
          \/ \E n \in Names, empty \in BOOLEAN : CreateEntry(i, n, empty)
          \/ \E n \in Names \cup {NoName}, change \in {"none", "other", "empty", "new"},
                active \in {"unset", "on", "off"} : UpdateEntry(i, n, change, active)
          \/ DeleteEntry(i)
          \/ \E result \in {"success", "failed"} : TestEntry(i, result)
          \/ \E p \in Probes : BeginValidate(p, i)
    \/ \E p \in Probes, result \in {"success", "failed"} : EndValidate(p, result)
    \/ StartLife

SavedSpec == SavedInit /\ [][SavedNext]_savedVars

-----------------------------------------------------------------------------
(* What holds of saved connections.                                        *)

\* With a valid ENCRYPTION_KEY in every life, each stored secret can be read,
\* whichever life wrote it.  (Without one, secrets of earlier lives are lost.)
SecretsReadable == alwaysKeyed => \A i \in Entries : Exists(i) => Readable(i)

\* A deleted connection does not come back, by whatever updates, tests and
\* restarts follow, and its name stays taken.
DeletedStayDeleted ==
    [][\A i \in Entries :
          Exists(i) /\ ~entry[i].active => Exists(i)' /\ ~entry[i].active']_savedVars

\* The result of a database test is not replaced by one of older credentials,
\* also when edits and tests come in any order.  (A Tencent validation that was
\* under way during an edit can do that.)
StatusNotOfOlder ==
    [][kind # "tencent" =>
          \A i \in Entries :
              /\ entry'[i].tested >= entry[i].tested
              /\ (entry'[i].tested # entry[i].tested
                    => entry'[i].tested = entry[i].revision)]_savedVars
=============================================================================
