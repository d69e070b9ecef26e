--------------------------- MODULE StartupProofs ---------------------------
(***************************************************************************)
(* The safety of start and stop, for any number of migrations and of       *)
(* handlers and any settings: what the secret of the running server is,    *)
(* what the schema is when it serves, and under whom its database closes.  *)
(***************************************************************************)
EXTENDS Startup, TLAPS

ProcType == [pc : Step, secret : Secret \union {"none"}, version : 1 .. Latest + 1]

\* Before its secret is resolved a process has none.
Unresolved == {"off", "configure", "secret", "truncate", "fill"}

(***************************************************************************)
(* The health check may write the file of a server that has its secret     *)
(* only when that server had found it missing, too.                        *)
(***************************************************************************)
SecretInv ==
    /\ SecretAgrees
    /\ proc["server"].pc \in Unresolved => ~HasSecret("server")
    /\ \A p \in Process : proc[p].pc \in {"truncate", "fill"} =>
          p \in missing /\ env.secret # "given"
    /\ At("check", "truncate") => secretFile = "absent" \/ "server" \in missing
    /\ At("check", "fill") =>
          "server" \in missing \/ (~HasSecret("server") /\ secretFile = "short")

\* The versions a process has passed are in the schema.
SchemaInv ==
    /\ \A i \in 1 .. Len(schema) : schema[i] = i
    /\ \A p \in Process :
          /\ proc[p].pc \in {"migrate", "apply"} => proc[p].version <= Len(schema) + 1
          /\ proc[p].pc = "apply" => proc[p].version <= Latest
          /\ proc[p].pc \notin Starting \union {"off"} => Len(schema) = Latest

\* Main goes past workerWg.Wait only when the worker has stopped.
StopInv ==
    /\ proc["server"].pc \in {"drain", "close", "force"} => worker = "stopped"
    /\ At("server", "close") => busy = {}

StartupInv == StartupTypeOK /\ SecretInv /\ SchemaInv /\ StopInv

-----------------------------------------------------------------------------
\* The end of a process is harmless at any point.
LEMMA EndType ==
    ASSUME StartupTypeOK, NEW p \in Process, End(p)
    PROVE  /\ proc' \in [Process -> ProcType] /\ missing' \subseteq Process
           /\ worker' \in {"none", "waiting", "pass", "stopped"} /\ busy' \subseteq Handlers
           /\ \A q \in Process : proc'[q] = Down \/ (q = "server" /\ p = "check" /\ proc'[q] = proc[q])
           /\ p = "check" => UNCHANGED <<worker, busy, missing>>
<1>1. Down \in ProcType
  BY StartupAssumption DEF Down, ProcType, Step, Secret
<1> QED
  BY <1>1 DEF StartupTypeOK, End, ProcType, Process

LEMMA EndKeepsInv ==
    ASSUME StartupInv, NEW p \in Process, End(p), UNCHANGED <<env, secretFile, schema>>,
           wanted' \in BOOLEAN
    PROVE  StartupInv'
<1>1. StartupTypeOK
  BY DEF StartupInv
<1>2. /\ proc' \in [Process -> ProcType] /\ missing' \subseteq Process
      /\ worker' \in {"none", "waiting", "pass", "stopped"} /\ busy' \subseteq Handlers
      /\ \A q \in Process : proc'[q] = Down \/ (q = "server" /\ p = "check" /\ proc'[q] = proc[q])
      /\ p = "check" => UNCHANGED <<worker, busy, missing>>
  BY <1>1, EndType
<1>3. StartupTypeOK'
  BY <1>1, <1>2 DEF StartupTypeOK, ProcType
<1>4. /\ Down.pc = "off" /\ Down.secret = "none"
      /\ "server" \in Process /\ "check" \in Process
  BY DEF Down, Process
<1>5. CASE p = "check"
  <2>1. /\ UNCHANGED <<worker, busy, missing>> /\ proc'["check"] = Down
        /\ proc'["server"] \in {Down, proc["server"]}
    BY <1>2, <1>4, <1>5
  <2>2. SecretInv'
    BY <1>4, <2>1 DEF StartupInv, SecretInv, SecretAgrees, HasSecret, At, Process, Unresolved
  <2>3. SchemaInv'
    BY <1>4, <2>1 DEF StartupInv, SchemaInv, Process
  <2>4. StopInv'
    BY <1>4, <2>1 DEF StartupInv, StopInv, At
  <2> QED
    BY <1>3, <2>2, <2>3, <2>4 DEF StartupInv
<1>6. CASE p # "check"
  <2>1. \A q \in Process : proc'[q] = Down
    BY <1>2, <1>6
  <2>2. SecretInv'
    BY <1>4, <2>1 DEF SecretInv, SecretAgrees, HasSecret, At, Process
  <2>3. SchemaInv'
    BY <1>4, <2>1 DEF StartupInv, SchemaInv, Process
  <2>4. StopInv'
    BY <1>4, <2>1 DEF StopInv, At
  <2> QED
    BY <1>3, <2>2, <2>3, <2>4 DEF StartupInv
<1> QED
  BY <1>5, <1>6

\* A process goes on to another step and changes nothing else of itself.
LEMMA GotoType ==
    ASSUME StartupTypeOK, NEW p \in Process, NEW step \in Step, Goto(p, step)
    PROVE  /\ proc' \in [Process -> ProcType]
           /\ proc'[p] = [proc[p] EXCEPT !.pc = step]
           /\ proc'[p].pc = step /\ proc'[p].secret = proc[p].secret
           /\ proc'[p].version = proc[p].version
           /\ \A q \in Process \ {p} : proc'[q] = proc[q]
  BY DEF StartupTypeOK, Goto, ProcType

LEMMA MoveKeepsInv ==
    ASSUME StartupInv, NEW p \in Process,
           NEW step \in Step \ {"truncate", "fill", "migrate", "apply"}, Goto(p, step),
           UNCHANGED <<env, store, busy>>, wanted' \in BOOLEAN,
           worker' \in {"none", "waiting", "pass", "stopped"},
           p = "server" /\ step \in Unresolved => ~HasSecret("server"),
           step \notin Starting \union {"off"} => Len(schema) = Latest,
           p = "check" => worker' = worker,
           p = "server" /\ step \in {"drain", "close", "force"} => worker' = "stopped",
           step = "close" => busy = {}
    PROVE  StartupInv'
<1>1. StartupTypeOK
  BY DEF StartupInv
<1>2. /\ proc' \in [Process -> ProcType]
      /\ proc'[p].pc = step /\ proc'[p].secret = proc[p].secret
      /\ proc'[p].version = proc[p].version
      /\ \A q \in Process \ {p} : proc'[q] = proc[q]
  BY <1>1, GotoType
<1>3. StartupTypeOK'
  BY <1>1, <1>2 DEF StartupTypeOK, ProcType, store
<1>4. SecretInv'
  BY <1>2 DEF StartupInv, SecretInv, SecretAgrees, HasSecret, At, Process, Unresolved, store
<1>5. SchemaInv'
  BY <1>2 DEF StartupInv, SchemaInv, store
<1>6. StopInv'
  BY <1>2 DEF StartupInv, StopInv, At, Process
<1> QED
  BY <1>3, <1>4, <1>5, <1>6 DEF StartupInv

-----------------------------------------------------------------------------
\* Steps of the operator, of Docker, and faults.
LEMMA WorldKeepsInv ==
    ASSUME StartupInv,
           Want \/ Launch \/ LaunchCheck \/ Stop \/ ListenFails \/ \E p \in Process : Kill(p)
    PROVE  StartupInv'
<1>1. StartupTypeOK /\ "server" \in Process /\ "check" \in Process
  BY DEF StartupInv, Process
<1>2. worker \in {"none", "waiting", "pass", "stopped"} /\ wanted \in BOOLEAN
  BY <1>1 DEF StartupTypeOK
<1>3. CASE Want
  <2>1. UNCHANGED <<env, proc, store, worker, busy>> /\ wanted' = TRUE
    BY <1>3 DEF Want
  <2> QED
    BY <2>1 DEF StartupInv, StartupTypeOK, SecretInv, SecretAgrees, HasSecret, At,
                SchemaInv, StopInv, store
<1>4. CASE Launch
  <2>1. ~HasSecret("server")
    BY <1>4 DEF Launch, StartupInv, SecretInv, At, Unresolved
  <2> QED
    BY <1>1, <1>2, <1>4, <2>1, MoveKeepsInv DEF Launch, Step, Starting
<1>5. CASE LaunchCheck
  BY <1>1, <1>2, <1>5, MoveKeepsInv DEF LaunchCheck, Step, Starting
<1>6. CASE Stop
  <2>1. CASE At("server", "serve")
    <3>1. Len(schema) = Latest
      BY <1>1, <2>1 DEF StartupInv, SchemaInv, At, Starting
    <3>2. Goto("server", "halt") /\ UNCHANGED <<env, store, worker, busy>> /\ wanted' = FALSE
      BY <1>6, <2>1 DEF Stop, store
    <3> QED
      BY <1>1, <1>2, <3>1, <3>2, MoveKeepsInv DEF Step, Unresolved
  <2>2. CASE ~At("server", "serve")
    <3>1. CASE End("server")
      BY <1>1, <1>6, <3>1, EndKeepsInv DEF Stop
    <3>2. CASE UNCHANGED <<proc, worker, busy, missing>>
      <4>1. UNCHANGED <<env, proc, store, worker, busy>> /\ wanted' = FALSE
        BY <1>6, <3>2 DEF Stop, store
      <4> QED
        BY <4>1 DEF StartupInv, StartupTypeOK, SecretInv, SecretAgrees, HasSecret, At,
                    SchemaInv, StopInv, store
    <3> QED
      BY <1>6, <2>2, <3>1, <3>2 DEF Stop
  <2> QED
    BY <2>1, <2>2
<1>7. CASE ListenFails
  <2>1. Len(schema) = Latest
    BY <1>1, <1>7 DEF ListenFails, StartupInv, SchemaInv, At, Starting
  <2> QED
    BY <1>1, <1>2, <1>7, <2>1, MoveKeepsInv DEF ListenFails, Step, Unresolved
<1>8. ASSUME NEW p \in Process, Kill(p)
      PROVE  StartupInv'
  BY <1>2, <1>8, EndKeepsInv DEF Kill
<1> QED
  BY <1>3, <1>4, <1>5, <1>6, <1>7, <1>8

-----------------------------------------------------------------------------
(***************************************************************************)
(* The steps of New.                                                       *)
(***************************************************************************)
LEMMA ConfigureKeepsInv ==
    ASSUME StartupInv, NEW p \in Process, Configure(p)
    PROVE  StartupInv'
<1>1. StartupTypeOK
  BY DEF StartupInv
<1>2. worker \in {"none", "waiting", "pass", "stopped"} /\ wanted \in BOOLEAN
  BY <1>1 DEF StartupTypeOK
<1>3. CASE End(p)
  BY <1>2, <1>3, EndKeepsInv DEF Configure
<1>4. CASE Goto(p, "secret") /\ UNCHANGED <<worker, busy, missing>>
  <2>1. p = "server" => ~HasSecret("server")
    BY DEF Configure, StartupInv, SecretInv, At, Unresolved
  <2> QED
    BY <1>2, <1>4, <2>1, MoveKeepsInv DEF Configure, Step, Starting, store
<1> QED
  BY <1>3, <1>4 DEF Configure

LEMMA ResolvedType ==
    ASSUME StartupTypeOK, NEW p \in Process, NEW secret \in Secret, Resolved(p, secret)
    PROVE  /\ proc' \in [Process -> ProcType]
           /\ proc'[p].pc = "open" /\ proc'[p].secret = secret
           /\ \A q \in Process \ {p} : proc'[q] = proc[q]
  BY DEF StartupTypeOK, Resolved, ProcType, Step, Starting

\* Schema and shutdown are not the business of a process that finds its secret.
LEMMA EarlyStep ==
    ASSUME StartupInv, NEW p \in Process, proc'[p].pc \in {"truncate", "fill", "open"},
           \A q \in Process \ {p} : proc'[q] = proc[q], UNCHANGED <<schema, worker, busy>>
    PROVE  SchemaInv' /\ StopInv'
<1>1. SchemaInv'
  BY DEF StartupInv, SchemaInv, Starting
<1>2. StopInv'
  BY DEF StartupInv, StopInv, At, Process
<1> QED
  BY <1>1, <1>2

LEMMA ReadSecretKeepsInv ==
    ASSUME StartupInv, NEW p \in Process, ReadSecret(p)
    PROVE  StartupInv'
<1>1. StartupTypeOK /\ At(p, "secret") /\ UNCHANGED <<env, wanted, secretFile, schema>>
  BY DEF StartupInv, ReadSecret
<1>2. CASE env.secret = "none" /\ secretFile = "short" /\ End(p)
  BY <1>1, <1>2, EndKeepsInv DEF StartupTypeOK
<1>3. CASE env.secret = "none" /\ secretFile = "absent" /\ Goto(p, "truncate")
           /\ missing' = missing \union {p} /\ UNCHANGED <<worker, busy>>
  <2>1. /\ proc' \in [Process -> ProcType]
        /\ proc'[p].pc = "truncate" /\ proc'[p].secret = proc[p].secret
        /\ \A q \in Process \ {p} : proc'[q] = proc[q]
    BY <1>1, <1>3, GotoType DEF Step, Starting
  <2>2. StartupTypeOK'
    BY <1>1, <1>3, <2>1 DEF StartupTypeOK, ProcType
  <2>3. SecretInv'
    BY <1>1, <1>3, <2>1
       DEF StartupInv, SecretInv, SecretAgrees, HasSecret, At, Process, Unresolved
  <2>4. SchemaInv' /\ StopInv'
    BY <1>1, <1>3, <2>1, EarlyStep
  <2> QED
    BY <2>2, <2>3, <2>4 DEF StartupInv
<1>4. ASSUME NEW secret \in Secret, Resolved(p, secret), UNCHANGED <<worker, busy, missing>>,
             \/ env.secret = "given" /\ secret = "given"
             \/ env.secret = "none" /\ secretFile \in Secret /\ secret = secretFile
      PROVE  StartupInv'
  <2>1. /\ proc' \in [Process -> ProcType]
        /\ proc'[p].pc = "open" /\ proc'[p].secret = secret
        /\ \A q \in Process \ {p} : proc'[q] = proc[q]
    BY <1>1, <1>4, ResolvedType
  <2>2. StartupTypeOK'
    BY <1>1, <1>4, <2>1 DEF StartupTypeOK, ProcType
  <2>3. SecretInv'
    <3>1. secretFile \in Secret => secretFile # "short" /\ secretFile # "absent"
      BY DEF Secret, Process
    <3>2. secretFile' = secretFile /\ missing' = missing /\ env' = env
      BY <1>1, <1>4
    <3>3. SecretInv
      BY DEF StartupInv
    <3>4. CASE p = "check"
      BY <1>4, <2>1, <3>2, <3>3, <3>4
         DEF SecretInv, SecretAgrees, HasSecret, At, Process, Unresolved
    <3>5. CASE p = "server"
      BY <1>4, <2>1, <3>1, <3>2, <3>3, <3>5
         DEF SecretInv, SecretAgrees, HasSecret, At, Process, Unresolved
    <3> QED
      BY <3>4, <3>5 DEF Process
  <2>4. SchemaInv' /\ StopInv'
    BY <1>1, <1>4, <2>1, EarlyStep
  <2> QED
    BY <2>2, <2>3, <2>4 DEF StartupInv
<1> QED
  BY <1>2, <1>3, <1>4 DEF ReadSecret, Secret

LEMMA WriteSecretKeepsInv ==
    ASSUME StartupInv, NEW p \in Process, TruncateSecret(p) \/ FillSecret(p)
    PROVE  StartupInv'
<1>1. StartupTypeOK /\ SecretInv /\ UNCHANGED <<env, wanted, missing, schema, worker, busy>>
  BY DEF StartupInv, TruncateSecret, FillSecret
<1>2. \A q \in Process : proc[q].secret = "none" \/ proc[q].secret \in Secret
  BY <1>1 DEF StartupTypeOK
<1>3. Process = {"server", "check"} /\ "absent" \notin Secret /\ "short" \notin Secret
      /\ "none" \notin Secret /\ missing \subseteq Process
  BY <1>1 DEF Process, Secret, StartupTypeOK
<1>4. CASE TruncateSecret(p)
  <2>1. /\ proc' \in [Process -> ProcType]
        /\ proc'[p].pc = "fill" /\ proc'[p].secret = proc[p].secret
        /\ \A q \in Process \ {p} : proc'[q] = proc[q]
        /\ proc[p].pc = "truncate" /\ secretFile' = "short"
    BY <1>1, <1>4, GotoType DEF TruncateSecret, Step, Starting, At
  <2>2. StartupTypeOK'
    BY <1>1, <2>1 DEF StartupTypeOK, ProcType
  <2>3. SecretInv'
    <3>1. p = "check" /\ HasSecret("server") => "server" \in missing
      BY <1>1, <1>2, <1>3, <2>1 DEF SecretInv, SecretAgrees, HasSecret, At
    <3>2. p = "server" => ~HasSecret("server")
      BY <1>1, <2>1 DEF SecretInv, Unresolved
    <3>3. SecretAgrees'
      BY <1>1, <1>3, <2>1, <3>1, <3>2 DEF SecretInv, SecretAgrees, HasSecret
    <3> QED
      BY <1>1, <1>3, <2>1, <3>1, <3>2, <3>3 DEF SecretInv, HasSecret, At, Unresolved
  <2>4. SchemaInv' /\ StopInv'
    BY <1>1, <2>1, EarlyStep
  <2> QED
    BY <2>2, <2>3, <2>4 DEF StartupInv
<1>5. CASE FillSecret(p)
  <2>1. p \in Secret
    BY DEF Secret
  <2>2. /\ proc' \in [Process -> ProcType]
        /\ proc'[p].pc = "open" /\ proc'[p].secret = p
        /\ \A q \in Process \ {p} : proc'[q] = proc[q]
        /\ proc[p].pc = "fill" /\ secretFile' = p
    BY <1>1, <1>5, <2>1, ResolvedType DEF FillSecret, At
  <2>3. StartupTypeOK'
    BY <1>1, <2>1, <2>2 DEF StartupTypeOK, ProcType
  <2>4. SecretInv'
    BY <1>1, <1>3, <2>2 DEF SecretInv, SecretAgrees, HasSecret, At, Unresolved
  <2>5. SchemaInv' /\ StopInv'
    BY <1>1, <2>2, EarlyStep
  <2> QED
    BY <2>3, <2>4, <2>5 DEF StartupInv
<1> QED
  BY <1>4, <1>5

-----------------------------------------------------------------------------
(***************************************************************************)
(* The migrations.                                                         *)
(***************************************************************************)
\* The schema is 1 .. n, so a version is applied when it is not above n.
LEMMA AppliedIsPrefix ==
    ASSUME StartupTypeOK, SchemaInv
    PROVE  /\ Len(schema) \in Nat /\ schema \in Seq(Nat)
           /\ Applied = 1 .. Len(schema) /\ Len(schema) <= Latest
<1>1. /\ schema \in Seq(1 .. Latest) /\ Len(schema) \in Nat
      /\ DOMAIN schema = 1 .. Len(schema)
      /\ \A i \in 1 .. Len(schema) : schema[i] \in 1 .. Latest
  <2> DEFINE Versions == 1 .. Latest
  <2>1. schema \in Seq(Versions)
    BY DEF StartupTypeOK
  <2> HIDE DEF Versions
  <2>2. /\ Len(schema) \in Nat /\ DOMAIN schema = 1 .. Len(schema)
        /\ \A i \in 1 .. Len(schema) : schema[i] \in Versions
    BY <2>1
  <2> QED
    BY <2>1, <2>2 DEF Versions
<1>2. Applied = 1 .. Len(schema)
  BY <1>1 DEF Applied, SchemaInv
<1>3. Len(schema) <= Latest
  <2>1. CASE Len(schema) = 0
    BY <2>1, StartupAssumption
  <2>2. CASE Len(schema) # 0
    <3>1. Len(schema) \in 1 .. Len(schema)
      BY <1>1, <2>2
    <3>2. schema[Len(schema)] = Len(schema)
      BY <3>1 DEF SchemaInv
    <3> QED
      BY <1>1, <3>1, <3>2, StartupAssumption
  <2> QED
    BY <2>1, <2>2
<1>4. schema \in Seq(Nat)
  BY <1>1
<1> QED
  BY <1>1, <1>2, <1>3, <1>4

\* Recording the next version.
LEMMA AppendNext ==
    ASSUME StartupTypeOK, SchemaInv, NEW n \in 1 .. Latest, n = Len(schema) + 1,
           schema' = Append(schema, n)
    PROVE  /\ schema' \in Seq(1 .. Latest) /\ Len(schema') = n
           /\ \A i \in 1 .. Len(schema') : schema'[i] = i
<1>1. schema \in Seq(1 .. Latest) /\ Len(schema) \in Nat
  BY DEF StartupTypeOK
<1>2. schema' \in Seq(1 .. Latest) /\ Len(schema') = Len(schema) + 1
  BY <1>1
<1>3. ASSUME NEW i \in 1 .. Len(schema')
      PROVE  schema'[i] = i
  <2>1. CASE i \in 1 .. Len(schema)
    BY <1>1, <2>1 DEF SchemaInv
  <2>2. CASE i = Len(schema) + 1
    BY <1>1, <2>2
  <2> QED
    BY <1>1, <1>2, <2>1, <2>2
<1> QED
  BY <1>2, <1>3

\* The type and the parts of the invariant a migrating process cannot disturb.
LEMMA MigrationStep ==
    ASSUME StartupInv, NEW p \in Process, proc[p].pc \in {"open", "migrate", "apply"},
           NEW step \in {"migrate", "apply"}, NEW version \in 1 .. Latest + 1,
           proc' = [proc EXCEPT ![p].pc = step, ![p].version = version],
           schema' \in Seq(1 .. Latest), UNCHANGED <<env, wanted, secretFile, missing, worker, busy>>
    PROVE  /\ StartupTypeOK' /\ SecretInv' /\ StopInv'
           /\ proc'[p].pc = step /\ proc'[p].version = version
           /\ \A q \in Process \ {p} : proc'[q] = proc[q]
<1>1. /\ proc' \in [Process -> ProcType]
      /\ proc'[p].pc = step /\ proc'[p].version = version
      /\ proc'[p].secret = proc[p].secret
      /\ \A q \in Process \ {p} : proc'[q] = proc[q]
  BY DEF StartupInv, StartupTypeOK, ProcType, Step, Starting
<1>2. StartupTypeOK'
  BY <1>1 DEF StartupInv, StartupTypeOK, ProcType
<1>3. SecretInv'
  BY <1>1 DEF StartupInv, SecretInv, SecretAgrees, HasSecret, At, Process, Unresolved
<1>4. StopInv'
  BY <1>1 DEF StartupInv, StopInv, At, Process
<1> QED
  BY <1>1, <1>2, <1>3, <1>4

\* Both forms the schema may take after a step of p.
LEMMA SchemaStep ==
    ASSUME StartupInv, NEW p \in Process, \A q \in Process \ {p} : proc'[q] = proc[q],
           proc'[p].pc \in {"migrate", "apply"},
           proc'[p].version <= Len(schema') + 1, proc'[p].pc = "apply" => proc'[p].version <= Latest,
           \/ schema' = schema
           \/ /\ Len(schema) + 1 \in 1 .. Latest
              /\ schema' = Append(schema, Len(schema) + 1)
    PROVE  SchemaInv'
<1>1. StartupTypeOK /\ SchemaInv
  BY DEF StartupInv
<1>2. CASE schema' = schema
  BY <1>1, <1>2 DEF SchemaInv, Starting
<1>3. CASE Len(schema) + 1 \in 1 .. Latest /\ schema' = Append(schema, Len(schema) + 1)
  <2>1. Len(schema) \in Nat
    BY <1>1 DEF StartupTypeOK
  <2>2. /\ Len(schema') = Len(schema) + 1
        /\ \A i \in 1 .. Len(schema') : schema'[i] = i
    BY <1>1, <1>3, AppendNext
  <2>3. Len(schema) # Latest
    BY <1>3, <2>1, StartupAssumption
  <2>4. ASSUME NEW q \in Process
        PROVE  /\ proc'[q].pc \in {"migrate", "apply"} => proc'[q].version <= Len(schema') + 1
               /\ proc'[q].pc = "apply" => proc'[q].version <= Latest
               /\ proc'[q].pc \notin Starting \union {"off"} => Len(schema') = Latest
    <3>1. CASE q = p
      BY <3>1 DEF Starting
    <3>2. CASE q # p
      <4>1. proc'[q] = proc[q] /\ proc[q].version \in Nat
        BY <1>1, <3>2, StartupAssumption DEF StartupTypeOK
      <4> QED
        BY <1>1, <2>1, <2>2, <2>3, <4>1 DEF SchemaInv
    <3> QED
      BY <3>1, <3>2
  <2> QED
    BY <2>2, <2>4 DEF SchemaInv
<1> QED
  BY <1>2, <1>3

LEMMA MigrationsKeepInv ==
    ASSUME StartupInv, NEW p \in Process,
           RecordFoundation(p) \/ CheckMigration(p) \/ ApplyMigration(p)
    PROVE  StartupInv'
<1> DEFINE n == Len(schema)
           v == proc[p].version
<1>1. StartupTypeOK /\ SchemaInv /\ n \in Nat /\ Applied = 1 .. n /\ n <= Latest
  BY AppliedIsPrefix DEF StartupInv
<1>2. /\ schema \in Seq(1 .. Latest) /\ v \in 1 .. Latest + 1 /\ Latest \in Nat
      /\ 1 <= Latest /\ wanted \in BOOLEAN
      /\ worker \in {"none", "waiting", "pass", "stopped"}
  BY <1>1, StartupAssumption DEF StartupTypeOK
<1>3. CASE RecordFoundation(p)
  <2>1. /\ proc[p].pc = "open" /\ UNCHANGED <<env, wanted, secretFile, missing, worker, busy>>
        /\ proc' = [proc EXCEPT ![p].pc = "migrate", ![p].version = 2]
        /\ schema' = IF 1 \in Applied THEN schema ELSE Append(schema, 1)
    BY <1>3 DEF RecordFoundation, At
  <2>2. 1 \notin Applied => n = 0
    BY <1>1
  <2>3. \/ schema' = schema /\ 1 <= n
        \/ n + 1 \in 1 .. Latest /\ schema' = Append(schema, n + 1) /\ n = 0
    BY <1>1, <1>2, <2>1, <2>2
  <2>4. schema' \in Seq(1 .. Latest) /\ 2 <= Len(schema') + 1
    BY <1>1, <1>2, <2>3, AppendNext
  <2>5. 2 \in 1 .. Latest + 1
    BY <1>2
  <2>6. /\ StartupTypeOK' /\ SecretInv' /\ StopInv'
        /\ proc'[p].pc = "migrate" /\ proc'[p].version = 2
        /\ \A q \in Process \ {p} : proc'[q] = proc[q]
    BY <2>1, <2>4, <2>5, MigrationStep
  <2>7. SchemaInv'
    BY <2>3, <2>4, <2>6, SchemaStep
  <2> QED
    BY <2>6, <2>7 DEF StartupInv
<1>4. CASE CheckMigration(p)
  <2>1. /\ proc[p].pc = "migrate" /\ UNCHANGED <<env, wanted, secretFile, missing, worker, busy>>
        /\ schema' = schema /\ v <= n + 1
    BY <1>1, <1>4 DEF CheckMigration, At, store, SchemaInv
  <2>2. CASE v > Latest
    <3> DEFINE next == IF p = "server" THEN "sweep" ELSE "ready"
    <3>1. Goto(p, next)
      BY <1>4, <2>2 DEF CheckMigration
    <3>2. n = Latest
      BY <1>1, <1>2, <2>1, <2>2
    <3>3. /\ next \in Step \ {"truncate", "fill", "migrate", "apply"}
          /\ next \notin Unresolved /\ next \notin {"drain", "close", "force"}
      BY DEF Step, Starting, Unresolved
    <3>4. UNCHANGED <<env, store, busy>> /\ worker' = worker /\ wanted' = wanted
      BY <2>1 DEF store
    <3> HIDE DEF next
    <3> QED
      BY <1>2, <3>1, <3>2, <3>3, <3>4, MoveKeepsInv
  <2>3. CASE v <= Latest /\ v \in Applied
    <3>1. proc' = [proc EXCEPT ![p].version = v + 1]
      BY <1>2, <1>4, <2>3 DEF CheckMigration
    <3>2. v + 1 \in 1 .. Latest + 1 /\ v + 1 <= n + 1
      BY <1>1, <1>2, <2>3
    <3>3. proc' = [proc EXCEPT ![p].pc = "migrate", ![p].version = v + 1]
      BY <1>1, <2>1, <3>1 DEF StartupTypeOK
    <3>4. /\ StartupTypeOK' /\ SecretInv' /\ StopInv'
          /\ proc'[p].pc = "migrate" /\ proc'[p].version = v + 1
          /\ \A q \in Process \ {p} : proc'[q] = proc[q]
      BY <1>2, <2>1, <3>2, <3>3, MigrationStep
    <3>5. SchemaInv'
      BY <2>1, <3>2, <3>4, SchemaStep
    <3> QED
      BY <3>4, <3>5 DEF StartupInv
  <2>4. CASE v <= Latest /\ v \notin Applied
    <3>1. Goto(p, "apply")
      BY <1>2, <1>4, <2>4 DEF CheckMigration
    <3>2. proc' = [proc EXCEPT ![p].pc = "apply", ![p].version = v]
      BY <1>1, <3>1 DEF StartupTypeOK, Goto
    <3>3. /\ StartupTypeOK' /\ SecretInv' /\ StopInv'
          /\ proc'[p].pc = "apply" /\ proc'[p].version = v
          /\ \A q \in Process \ {p} : proc'[q] = proc[q]
      BY <1>2, <2>1, <3>2, MigrationStep
    <3>4. SchemaInv'
      BY <2>1, <2>4, <3>3, SchemaStep
    <3> QED
      BY <3>3, <3>4 DEF StartupInv
  <2> QED
    BY <1>2, <2>2, <2>3, <2>4
<1>5. CASE ApplyMigration(p)
  <2>1. /\ proc[p].pc = "apply" /\ UNCHANGED <<env, wanted, secretFile>>
        /\ v <= n + 1 /\ v <= Latest
    BY <1>1, <1>5 DEF ApplyMigration, At, SchemaInv
  <2>2. CASE End(p) /\ UNCHANGED schema
    BY <1>2, <2>1, <2>2, EndKeepsInv
  <2>3. CASE /\ v \notin Applied /\ schema' = Append(schema, v)
             /\ proc' = [proc EXCEPT ![p].pc = "migrate", ![p].version = v + 1]
             /\ UNCHANGED <<worker, busy, missing>>
    <3>1. v = n + 1 /\ v \in 1 .. Latest /\ v + 1 \in 1 .. Latest + 1
      BY <1>1, <1>2, <2>1, <2>3
    <3>2. schema' \in Seq(1 .. Latest) /\ v + 1 <= Len(schema') + 1
      BY <1>1, <1>2, <2>3, <3>1, AppendNext
    <3>3. /\ StartupTypeOK' /\ SecretInv' /\ StopInv'
          /\ proc'[p].pc = "migrate" /\ proc'[p].version = v + 1
          /\ \A q \in Process \ {p} : proc'[q] = proc[q]
      BY <2>1, <2>3, <3>1, <3>2, MigrationStep
    <3>4. SchemaInv'
      BY <2>3, <3>1, <3>2, <3>3, SchemaStep
    <3> QED
      BY <3>3, <3>4 DEF StartupInv
  <2> QED
    BY <1>1, <1>5, <2>2, <2>3 DEF ApplyMigration, StartupTypeOK
<1> QED
  BY <1>3, <1>4, <1>5

-----------------------------------------------------------------------------
(***************************************************************************)
(* The steps after New.                                                    *)
(***************************************************************************)
LEMMA ServingKeepsInv ==
    ASSUME StartupInv,
           \/ Ready \/ FirstSweep \/ WorkerStep \/ WorkerGone \/ Shutdown
           \/ CloseDatabase \/ Exit
           \/ \E h \in Handlers : Accept(h) \/ Answer(h)
    PROVE  StartupInv'
<1>1. /\ StartupTypeOK /\ SecretInv /\ SchemaInv /\ StopInv
      /\ "server" \in Process /\ "check" \in Process
  BY DEF StartupInv, Process
<1>2. /\ worker \in {"none", "waiting", "pass", "stopped"} /\ wanted \in BOOLEAN
      /\ busy \subseteq Handlers
  BY <1>1 DEF StartupTypeOK
<1>3. proc["server"].pc \notin Starting \union {"off"} => Len(schema) = Latest
  BY <1>1 DEF SchemaInv
<1>4. CASE Ready
  BY <1>1, <1>2, <1>4, EndKeepsInv DEF Ready
<1>5. CASE FirstSweep
  BY <1>1, <1>2, <1>3, <1>5, MoveKeepsInv DEF FirstSweep, Step, Starting, Unresolved, At
<1>6. CASE WorkerStep
  <2>1. UNCHANGED <<env, wanted, proc, store, busy>>
        /\ worker' \in {"none", "waiting", "pass", "stopped"}
        /\ worker # "stopped"
    BY <1>6 DEF WorkerStep, WorkerBegins, WorkerEnds, WorkerStops
  <2>2. StartupTypeOK' /\ SecretInv' /\ SchemaInv'
    BY <1>1, <2>1 DEF StartupTypeOK, SecretInv, SecretAgrees, HasSecret, At, SchemaInv, store
  <2>3. StopInv'
    BY <1>1, <2>1 DEF StopInv, At
  <2> QED
    BY <2>2, <2>3 DEF StartupInv
<1>7. CASE WorkerGone
  <2>1. CASE At("server", "abandon") /\ End("server")
    BY <1>1, <1>2, <1>7, <2>1, EndKeepsInv DEF WorkerGone
  <2>2. CASE At("server", "halt") /\ Goto("server", "drain") /\ UNCHANGED <<worker, busy, missing>>
    BY <1>1, <1>2, <1>3, <1>7, <2>2, MoveKeepsInv
       DEF WorkerGone, Step, Starting, Unresolved, At, store
  <2> QED
    BY <1>7, <2>1, <2>2 DEF WorkerGone
<1>8. CASE Shutdown
  <2>1. worker = "stopped"
    BY <1>1, <1>8 DEF Shutdown, StopInv, At
  <2>2. Len(schema) = Latest
    BY <1>3, <1>8 DEF Shutdown, At, Starting
  <2>3. CASE busy = {} /\ Goto("server", "close")
    BY <1>1, <1>2, <1>8, <2>1, <2>2, <2>3, MoveKeepsInv DEF Shutdown, Step, Starting, Unresolved
  <2>4. CASE busy # {} /\ Goto("server", "force")
    BY <1>1, <1>2, <1>8, <2>1, <2>2, <2>4, MoveKeepsInv DEF Shutdown, Step, Starting, Unresolved
  <2> QED
    BY <1>8, <2>3, <2>4 DEF Shutdown
<1>9. CASE CloseDatabase
  BY <1>1, <1>2, <1>3, <1>9, MoveKeepsInv DEF CloseDatabase, Step, Starting, Unresolved
<1>10. CASE Exit
  BY <1>1, <1>2, <1>10, EndKeepsInv DEF Exit
<1>11. ASSUME NEW h \in Handlers, Accept(h) \/ Answer(h)
       PROVE  StartupInv'
  <2>1. UNCHANGED <<env, wanted, proc, store, worker>> /\ busy' \subseteq Handlers
        /\ (At("server", "close") => busy' \subseteq busy)
    BY <1>2, <1>11 DEF Accept, Answer, At
  <2>2. StartupTypeOK' /\ SecretInv' /\ SchemaInv'
    BY <1>1, <2>1 DEF StartupTypeOK, SecretInv, SecretAgrees, HasSecret, At, SchemaInv, store
  <2>3. StopInv'
    BY <1>1, <2>1 DEF StopInv, At
  <2> QED
    BY <2>2, <2>3 DEF StartupInv
<1> QED
  BY <1>4, <1>5, <1>6, <1>7, <1>8, <1>9, <1>10, <1>11

-----------------------------------------------------------------------------
\* Secret, schema and shutdown are in order in every reachable state
\* (storage.go:33-62, database.go:32-213, main.go:18-108).
THEOREM StartupInvariant == Spec => []StartupInv
<1>1. Init => StartupInv
  <2> SUFFICES ASSUME Init PROVE StartupInv
    OBVIOUS
  <2>1. \A p \in Process : proc[p] = Down
    BY DEF Init
  <2>2. /\ Down \in ProcType /\ Down.pc = "off" /\ Down.secret = "none"
        /\ "server" \in Process /\ "check" \in Process
    BY StartupAssumption DEF Down, ProcType, Step, Secret, Process
  <2>3. StartupTypeOK
    BY <2>2 DEF Init, StartupTypeOK, ProcType
  <2>4. SecretInv
    BY <2>1, <2>2 DEF SecretInv, SecretAgrees, HasSecret, At
  <2>5. SchemaInv
    BY <2>1, <2>2 DEF Init, SchemaInv
  <2>6. StopInv
    BY <2>1, <2>2 DEF StopInv, At
  <2> QED
    BY <2>3, <2>4, <2>5, <2>6 DEF StartupInv
<1>2. StartupInv /\ [Next]_vars => StartupInv'
  <2> SUFFICES ASSUME StartupInv, [Next]_vars PROVE StartupInv'
    OBVIOUS
  <2>1. ASSUME NEW p \in Process, StartStep(p)
        PROVE  StartupInv'
    BY <2>1, ConfigureKeepsInv, ReadSecretKeepsInv, WriteSecretKeepsInv, MigrationsKeepInv
       DEF StartStep
  <2>2. CASE UNCHANGED vars
    BY <2>2 DEF vars, store, StartupInv, StartupTypeOK, SecretInv, SecretAgrees, HasSecret,
                At, SchemaInv, StopInv
  <2>3. "server" \in Process /\ "check" \in Process
    BY DEF Process
  <2> QED
    BY <2>1, <2>2, <2>3, WorldKeepsInv, ServingKeepsInv
       DEF Next, Ordinary, Fault, ServerStep
<1> QED
  BY <1>1, <1>2, PTL DEF Spec

\* Processes, files and tables keep their types.
THEOREM StartupTypeCorrect == Spec => []StartupTypeOK
<1>1. StartupInv => StartupTypeOK
  BY DEF StartupInv
<1> QED
  BY <1>1, StartupInvariant, PTL

\* The secret a server works with is the one on disk, unless server and health
\* check both found the file missing (storage.go:40-61).
THEOREM SecretAlwaysAgrees == Spec => []SecretAgrees
<1>1. StartupInv => SecretAgrees
  BY DEF StartupInv, SecretInv
<1> QED
  BY <1>1, StartupInvariant, PTL

\* Migrations are applied in order, each once, and all of them before anybody
\* is served (database.go:40-212).
THEOREM SchemaAlwaysComplete == Spec => []SchemaComplete
<1>1. StartupInv => SchemaComplete
  <2> SUFFICES ASSUME StartupInv PROVE SchemaComplete
    OBVIOUS
  <2> DEFINE Versions == 1 .. Latest
  <2>1. schema \in Seq(Versions)
    BY DEF StartupInv, StartupTypeOK
  <2> HIDE DEF Versions
  <2>2. schema = [i \in 1 .. Len(schema) |-> schema[i]]
    BY <2>1
  <2>3. \A i \in 1 .. Len(schema) : schema[i] = i
    BY DEF StartupInv, SchemaInv
  <2>4. schema = [i \in 1 .. Len(schema) |-> i]
    BY <2>2, <2>3
  <2> QED
    BY <2>4 DEF StartupInv, SchemaInv, SchemaComplete
<1> QED
  BY <1>1, StartupInvariant, PTL

\* The database closes under no cleanup pass, and under handlers only when
\* Shutdown has given up on them (main.go:95-108).
THEOREM AlwaysStopsCleanly == Spec => StopsCleanly
<1>1. StartupInv /\ [Next]_vars
        => (At("server", "exit")' /\ ~At("server", "exit") =>
              worker = "stopped" /\ (busy # {} => At("server", "force")))
  <2> SUFFICES ASSUME StartupInv, [Next]_vars, At("server", "exit")',
                      ~At("server", "exit")
               PROVE  worker = "stopped" /\ (busy # {} => At("server", "force"))
    OBVIOUS
  <2>1. StartupTypeOK /\ "server" \in Process /\ Down.pc # "exit"
    BY DEF StartupInv, Process, Down
  <2>2. CASE CloseDatabase
    BY <2>2 DEF CloseDatabase, StartupInv, StopInv, At
  <2>3. CASE proc'["server"] \in {proc["server"], Down}
    BY <2>1, <2>3 DEF At
  <2>4. ASSUME NEW p \in Process, End(p)
        PROVE  proc'["server"] \in {proc["server"], Down}
    BY <2>1, <2>4, EndType
  <2>5. ASSUME NEW p \in Process, NEW step \in Step \ {"exit"}, Goto(p, step)
        PROVE  FALSE
    <3>1. CASE p = "server"
      BY <2>1, <2>5, <3>1, GotoType DEF At
    <3>2. CASE p # "server"
      BY <2>1, <2>5, <3>2, GotoType DEF At
    <3> QED
      BY <3>1, <3>2
  <2>6. ASSUME NEW p \in Process, NEW secret \in Secret, Resolved(p, secret)
        PROVE  FALSE
    <3>1. CASE p = "server"
      BY <2>1, <2>6, <3>1, ResolvedType DEF At
    <3>2. CASE p # "server"
      BY <2>1, <2>6, <3>2, ResolvedType DEF At
    <3> QED
      BY <3>1, <3>2
  <2> DEFINE Elsewhere ==
          \/ \E p \in Process : End(p)
          \/ \E p \in Process, step \in Step \ {"exit"} : Goto(p, step)
          \/ \E p \in Process, secret \in Secret : Resolved(p, secret)
          \/ proc'["server"].pc \in {"migrate", proc["server"].pc}
  <2>7. Elsewhere => FALSE
    BY <2>1, <2>3, <2>4, <2>5, <2>6 DEF At
  <2>8. ASSUME NEW p \in Process, StartStep(p)
        PROVE  Elsewhere
    <3>1. CASE Configure(p) \/ TruncateSecret(p)
      BY <3>1 DEF Configure, TruncateSecret, Step, Starting
    <3>2. CASE ReadSecret(p)
      BY <3>2 DEF ReadSecret, Step, Starting, Secret
    <3>3. CASE FillSecret(p)
      BY <3>3 DEF FillSecret, Secret
    <3>4. CASE RecordFoundation(p)
      BY <2>1, <3>4 DEF RecordFoundation, StartupTypeOK
    <3>5. CASE CheckMigration(p)
      BY <2>1, <3>5 DEF CheckMigration, StartupTypeOK, Step, Starting
    <3>6. CASE ApplyMigration(p)
      BY <2>1, <3>6 DEF ApplyMigration, StartupTypeOK
    <3> QED
      BY <2>8, <3>1, <3>2, <3>3, <3>4, <3>5, <3>6 DEF StartStep
  <2>9. ASSUME Want \/ Launch \/ LaunchCheck \/ Stop \/ ListenFails
               \/ \E p \in Process : Kill(p)
        PROVE  Elsewhere
    BY <2>1, <2>9
       DEF Want, Launch, LaunchCheck, Stop, ListenFails, Kill, Process, Step, Starting
  <2>10. ASSUME \/ Ready \/ FirstSweep \/ WorkerStep \/ WorkerGone \/ Shutdown \/ Exit
                \/ \E h \in Handlers : Accept(h) \/ Answer(h)
         PROVE  Elsewhere
    BY <2>1, <2>10
       DEF Ready, FirstSweep, WorkerStep, WorkerGone, Shutdown, Exit, Accept, Answer,
           Process, Step, Starting
  <2>11. UNCHANGED vars => Elsewhere
    BY DEF vars
  <2> HIDE DEF Elsewhere
  <2> QED
    BY <2>1, <2>2, <2>7, <2>8, <2>9, <2>10, <2>11
       DEF Next, Ordinary, Fault, ServerStep, Process
<1> QED
  BY <1>1, StartupInvariant, PTL DEF Spec, StopsCleanly
-----------------------------------------------------------------------------
(***************************************************************************)
(* The settings.                                                           *)
(***************************************************************************)
\* Who is past the settings has found them acceptable.
Settled(p) == proc[p].pc \notin {"off", "configure"} => Accepted(env)

\* A step leaves the environment alone, and nobody else gets past Configure.
LEMMA SettledStays ==
    ASSUME StartupInv, [Next]_vars, NEW p \in Process, Settled(p)
    PROVE  Settled(p)'
<1>1. StartupTypeOK /\ "server" \in Process /\ "check" \in Process
         /\ Down.pc = "off"
  BY DEF StartupInv, Process, Down
<1>2. env' = env
  BY DEF Next, Ordinary, Fault, ServerStep, StartStep, vars, Want, Launch, LaunchCheck, Stop,
         ListenFails, Kill, Configure, ReadSecret, TruncateSecret, FillSecret,
         RecordFoundation, CheckMigration, ApplyMigration, Ready, FirstSweep, WorkerStep,
         WorkerGone, Shutdown, CloseDatabase, Exit, Accept, Answer
<1> SUFFICES ASSUME proc'[p].pc \notin {"off", "configure"}
             PROVE  Accepted(env)
  BY <1>2 DEF Settled
<1> DEFINE Past == proc[p].pc \notin {"off", "configure"}
<1>3. ASSUME NEW q \in Process, End(q)
      PROVE  Past
  BY <1>1, <1>3, EndType
<1>4. ASSUME NEW q \in Process, NEW step \in Step, Goto(q, step),
             proc[q].pc \notin {"off", "configure"} \/ step = "configure"
      PROVE  Past
  <2>1. CASE p = q
    BY <1>1, <1>4, <2>1, GotoType
  <2>2. CASE p # q
    BY <1>1, <1>4, <2>2, GotoType
  <2> QED
    BY <2>1, <2>2
<1>5. ASSUME proc' = proc
      PROVE  Past
  BY <1>5
<1>6. ASSUME NEW q \in Process, proc[q].pc \notin {"off", "configure"},
             \A o \in Process \ {q} : proc'[o] = proc[o]
      PROVE  Past
  BY <1>6
<1>7. ASSUME NEW q \in Process, Configure(q)
      PROVE  Past \/ Accepted(env)
  BY <1>3, <1>7 DEF Configure
<1>8. ASSUME NEW q \in Process, StartStep(q)
      PROVE  Past \/ Accepted(env)
  <2>1. ASSUME \E rest : proc' = [proc EXCEPT ![q] = rest],
               proc[q].pc \notin {"off", "configure"}
        PROVE  Past
    BY <1>1, <1>6, <2>1 DEF StartupTypeOK
  <2>2. CASE TruncateSecret(q) \/ FillSecret(q) \/ RecordFoundation(q)
    BY <2>1, <2>2 DEF TruncateSecret, FillSecret, RecordFoundation, At, Goto, Resolved
  <2>3. CASE ReadSecret(q)
    BY <1>3, <2>1, <2>3 DEF ReadSecret, At, Goto, Resolved
  <2>4. CASE CheckMigration(q)
    BY <2>1, <2>4 DEF CheckMigration, At, Goto
  <2>5. CASE ApplyMigration(q)
    BY <1>3, <2>1, <2>5 DEF ApplyMigration, At
  <2> QED
    BY <1>7, <1>8, <2>2, <2>3, <2>4, <2>5 DEF StartStep
<1>9. ASSUME Want \/ Launch \/ LaunchCheck \/ Stop \/ ListenFails
             \/ \E q \in Process : Kill(q)
      PROVE  Past
  BY <1>1, <1>3, <1>4, <1>5, <1>9
     DEF Want, Launch, LaunchCheck, Stop, ListenFails, Kill, Step, Starting, At
<1>10. ASSUME \/ Ready \/ FirstSweep \/ WorkerStep \/ WorkerGone \/ Shutdown
              \/ CloseDatabase \/ Exit \/ \E h \in Handlers : Accept(h) \/ Answer(h)
       PROVE  Past
  BY <1>1, <1>3, <1>4, <1>5, <1>10
     DEF Ready, FirstSweep, WorkerStep, WorkerGone, Shutdown, CloseDatabase, Exit, Accept,
         Answer, Step, Starting, At
<1>11. UNCHANGED vars => Past
  BY <1>5 DEF vars
<1>12. Past => Accepted(env)
  BY DEF Settled
<1> HIDE DEF Past
<1> QED
  BY <1>1, <1>8, <1>9, <1>10, <1>11, <1>12 DEF Next, Ordinary, Fault, ServerStep

\* What fits a word is kept by one.
LEMMA WrapKeeps ==
    ASSUME SettingsAssumption, NEW n \in Nat, n < Word
    PROVE  Wrap(n) = n
<1>1. Word \in Nat \ {0}
  BY DEF SettingsAssumption
<1>2. (n + Word) % (2 * Word) = n + Word
  <2> DEFINE m == n + Word
             two == 2 * Word
  <2>1. m \in Nat /\ two \in Nat \ {0} /\ m < two
    BY <1>1
  <2> HIDE DEF m, two
  <2>2. m % two = m
    BY <2>1, SMT
  <2> QED
    BY <2>2 DEF m, two
<1> QED
  BY <1>1, <1>2 DEF Wrap

LEMMA ProductNatural ==
    ASSUME NEW a \in Nat, NEW b \in Nat
    PROVE  a * b \in Nat
  BY SMT

\* An accepted byte size is the one written, if it fits.
LEMMA BytesKept ==
    ASSUME SettingsAssumption, env \in Environments, Accepted(env), NEW f \in ByteSettings
    PROVE  Load(env)[f] = Written(f) \/ Written(f) >= Word
<1>1. /\ env[f].unit \in UnitNames /\ Factor[env[f].unit] \in Nat
      /\ CutUnit(env[f].unit) = env[f].unit /\ env[f].digits \in Nat
  BY DEF SettingsAssumption, Accepted, BytesParse
<1>2. Written(f) \in Nat
  BY <1>1, ProductNatural DEF Written
<1>3. Load(env)[f] = Wrap(Written(f))
  BY <1>1 DEF Load, EnvBytes, Written
<1>4. Word \in Nat
  BY DEF SettingsAssumption
<1> QED
  BY <1>2, <1>3, <1>4, WrapKeeps

\* A limiter with a rate lets a client act and refills in ten minutes, if its
\* burst is not larger than that.
LEMMA LimiterSound ==
    ASSUME NEW rate \in Int, rate > 0, NEW burst \in Int, burst <= 10 * rate
    PROVE  Sound(NewIPRateLimiter(rate, burst))
<1>1. rate \div 6 \in Int /\ rate \div 6 <= rate
  BY SMT
<1> QED
  BY <1>1 DEF Sound, NewIPRateLimiter

\* The settings of a server that serves are the operator's (config.go:64-321),
\* and its limiters are usable (app.go:89-92), for any settings and any width
\* of a word.
THEOREM SettingsAlwaysFaithful == Spec => []SettingsFaithful
<1> DEFINE AllSettled == \A p \in Process : Settled(p)
<1>1. Init => AllSettled
  BY DEF Init, Settled, Down
<1>2. StartupInv /\ AllSettled /\ [Next]_vars => AllSettled'
  BY SettledStays
<1>3. StartupInv /\ AllSettled => SettingsFaithful
  <2> SUFFICES ASSUME StartupInv, AllSettled, At("server", "serve")
               PROVE  LET c == Load(env)
                      IN  /\ \A f \in ByteSettings : c[f] = Written(f) \/ Written(f) >= Word
                          /\ \A l \in {"room", "auth", "download"} : Sound(Limiters(c)[l])
                          /\ \/ Sound(Limiters(c).upload)
                             \/ 2 * env["ShareManagementRateLimit"] >= Word
    BY DEF SettingsFaithful
  <2> DEFINE c == Load(env)
             manage == env["ShareManagementRateLimit"]
             access == env["ShareAccessRateLimit"]
  <2>1. env \in Environments /\ Accepted(env)
    BY DEF StartupInv, StartupTypeOK, Settled, At, Process
  <2>2. \A f \in ByteSettings : c[f] = Written(f) \/ Written(f) >= Word
    BY <2>1, SettingsAssumption, BytesKept
  <2>3. c["ShareManagementRateLimit"] = manage /\ c["ShareAccessRateLimit"] = access
    BY DEF Load, NumberSettings, ByteSettings
  <2>4. manage \in Int /\ access \in Int /\ Word \in Nat \ {0}
    BY <2>1, SettingsAssumption DEF SettingsAssumption, NumberSettings
  <2>5. manage > 0 /\ access > 0
    BY <2>1, <2>3 DEF Accepted, Validate
  <2> HIDE DEF c, manage, access
  <2>6. /\ manage \div 3 \in Int /\ manage \div 3 <= 10 * manage
        /\ access \div 6 \in Int /\ access \div 6 <= 10 * access
    BY <2>4, <2>5, SMT
  <2>7. /\ Sound(NewIPRateLimiter(manage, manage \div 3))
        /\ Sound(NewIPRateLimiter(access, access \div 6))
    BY <2>4, <2>5, <2>6, LimiterSound
  <2>8. \A l \in {"room", "auth", "download"} : Sound(Limiters(c)[l])
    BY <2>3, <2>7 DEF Limiters
  <2>9. ASSUME 2 * manage < Word
        PROVE  Sound(Limiters(c).upload)
    <3>1. Wrap(manage * 2) = manage * 2
      BY <2>4, <2>5, <2>9, SettingsAssumption, WrapKeeps
    <3>2. Sound(NewIPRateLimiter(manage * 2, manage))
      BY <2>4, <2>5, LimiterSound
    <3> QED
      BY <2>3, <3>1, <3>2 DEF Limiters
  <2> QED
    BY <2>2, <2>4, <2>8, <2>9 DEF c, manage
<1> QED
  BY <1>1, <1>2, <1>3, StartupInvariant, PTL DEF Spec
=============================================================================
