------------------------------ MODULE MCServices ------------------------------
(***************************************************************************)
(* The components around the engine, checked in one run.  They share no    *)
(* state, so that a behaviour of all of them says no more than one of each *)
(* would: part is the component that is at work, the others lie in an      *)
(* initial state.                                                          *)
(***************************************************************************)
EXTENDS TencentClient, ConnectionPool, Configurations, ConnectionConfigs, MCMapping,
        Validation, Batches, Telemetry, Reports

VARIABLE part

Parts == {"client", "pool", "configs", "saved", "mapping", "validation", "batches",
          "telemetry", "reports"}

servicesVars == <<part, clientVars, poolVars, configVars, savedVars, mappingVars,
                  validationVars, batchVars, telemetryVars, answer>>

Init ==
    /\ part \in Parts
    /\ \/ part = "client"
       \/ (mode = "oauth" /\ accessToken = GivenToken /\ valid = {})
    /\ part = "pool" \/ backend = "mysql"
    /\ part = "saved" \/ (kind = "mysql" /\ keyed = TRUE)
    /\ part = "validation" \/ form = CHOOSE f \in Forms : TRUE
    /\ part = "batches" \/ (types = [f \in BatchColumns |-> "INT"] /\ size = 1)
    /\ ClientInit /\ PoolInit /\ ConfigInit /\ SavedInit /\ MappingInit
    /\ ValidationInit /\ BatchInit /\ TelemetryInit /\ ReportsInit

\* vars lies still, unless component p is at work.
Rest(p, vars) == IF part = p THEN TRUE ELSE UNCHANGED vars

OthersRest ==
    /\ UNCHANGED part
    /\ Rest("client", clientVars) /\ Rest("pool", poolVars)
    /\ Rest("configs", configVars) /\ Rest("saved", savedVars)
    /\ Rest("mapping", mappingVars) /\ Rest("validation", validationVars)
    /\ Rest("batches", batchVars) /\ Rest("telemetry", telemetryVars)
    /\ Rest("reports", answer)

Next ==
    \/ part = "client" /\ ClientNext /\ OthersRest
    \/ part = "pool" /\ PoolNext /\ OthersRest
    \/ part = "configs" /\ ConfigNext /\ OthersRest
    \/ part = "saved" /\ SavedNext /\ OthersRest
    \/ part = "mapping" /\ MappingNext /\ OthersRest
    \/ part = "validation" /\ ValidationNext /\ OthersRest
    \/ part = "batches" /\ BatchNext /\ OthersRest
    \/ part = "telemetry" /\ TelemetryNext /\ OthersRest
    \/ part = "reports" /\ ReportsNext /\ OthersRest

Spec == Init /\ [][Next]_servicesVars /\ ClientFairness

\* Every variable of every component has its type.
ServicesTypeOK ==
    /\ ClientTypeOK /\ PoolTypeOK /\ ConfigTypeOK /\ SavedTypeOK /\ MappingTypeOK
    /\ ValidationTypeOK /\ BatchTypeOK /\ TelemetryTypeOK /\ ReportsTypeOK

-----------------------------------------------------------------------------
(* Values of the constants.                                                *)

IntColumn == [sheet |-> <<0>>, db |-> "f", type |-> [base |-> "INT", rest |-> "none"],
              key |-> TRUE, direction |-> "bidirectional", transform |-> "none"]

CommonForm == [spreadsheet |-> "abcde", sheet |-> "s", table |-> "g", database |-> "g",
               mapping |-> "object", columns |-> <<IntColumn>>, header |-> 1, start |-> 2,
               direction |-> "bidirectional", interval |-> 30]

\* Names of every kind the validators tell apart.
FormNames == {"f", "select", "f$", "1st", "xmin", "chars64", "chars65"}

\* Configurations that differ from a common one in what one part of the validator
\* looks at: the fields beside the mapping, the mapping's own, one column, two columns.
MCForms ==
    {[CommonForm EXCEPT !.spreadsheet = s, !.sheet = t, !.direction = d, !.interval = i] :
        s \in {"", "abcd", "abcde"}, t \in {"", "s"},
        d \in {"", "bidirectional", "sideways"}, i \in {4, 30, 3601}}
    \cup {[CommonForm EXCEPT !.table = n, !.database = m] :
            n \in {""} \cup FormNames, m \in {"", "g", "1st"}}
    \cup {[CommonForm EXCEPT !.mapping = m, !.columns = <<>>] :
            m \in {"absent", "broken", "list", "object"}}
    \cup {[CommonForm EXCEPT !.header = h, !.start = n] : h \in 0 .. 2, n \in 1 .. 3}
    \cup {[CommonForm EXCEPT !.columns = <<c>>] : c \in
            [sheet : {<<>>, <<0>>}, db : {NoField} \cup FormNames, type : Type,
             key : BOOLEAN, direction : {"to_mysql_only"}, transform : {"known"}]
            \cup [sheet : {<<0>>}, db : {"f"}, type : {IntColumn.type}, key : {TRUE},
                  direction : {"sideways", "from_mysql"}, transform : {"none", "unknown"}]}
    \cup {[CommonForm EXCEPT !.columns =
                <<[IntColumn EXCEPT !.db = f, !.key = k],
                  [IntColumn EXCEPT !.sheet = s, !.db = g, !.type = t]>>] :
            f \in {"f", "select", "f$"}, k \in BOOLEAN, s \in {<<0>>, <<1>>},
            g \in {NoField, "f", "select", "f$"}, t \in Type}
=============================================================================
