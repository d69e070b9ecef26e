------------------------------- MODULE Startup -------------------------------
(***************************************************************************)
(* The life of the program's processes on one data directory: main of      *)
(* cmd/lan-drop/main.go, New and Close of internal/app/app.go, the server  *)
(* secret (internal/storage/storage.go), the migrations                    *)
(* (internal/database/database.go) and the cleanup worker's loop.          *)
(*                                                                         *)
(* The container runs the server; while it is up, Docker starts the same   *)
(* program again and again as a health check (Dockerfile), which goes      *)
(* through New like the server.  Both can be killed between any two steps; *)
(* when the server ends, the container ends, and the health check with it. *)
(* The operator starts and stops the container; a container that ends by   *)
(* itself is started again (docker-compose.yml, restart: unless-stopped).  *)
(*                                                                         *)
(* A step is one system call on the secret's file, one statement or        *)
(* transaction of the database, or one event of the running server.  A     *)
(* write that fails (full disk, database busy for five seconds) ends the   *)
(* process where it stands, as a kill does.                                *)
(***************************************************************************)
EXTENDS Settings

CONSTANTS Latest,    \* the last migration, 6 in the code
          Handlers   \* requests the server may be handling

ASSUME StartupAssumption == Latest \in Nat \ {0}

VARIABLES env,         \* the environment of the container
          wanted,      \* the operator wants the service up
          proc,        \* process |-> its step, its secret, the next migration
          secretFile,  \* the content of secrets/server-secret
          missing,     \* history: processes of this container that found no file
          schema,      \* migrations applied to the database, in order
          worker,      \* the cleanup worker's goroutine
          busy         \* handlers at work

vars == <<env, wanted, proc, secretFile, missing, schema, worker, busy>>
store == <<secretFile, missing, schema>>

Process == {"server", "check"}

\* A generated secret bears the name of the process that made it.
Secret == {"given"} \union Process
Starting == {"configure", "secret", "truncate", "fill", "open", "migrate", "apply"}
Step == Starting \union {"off", "sweep", "serve", "halt", "abandon", "drain",
                         "close", "force", "exit", "ready"}

Down == [pc |-> "off", secret |-> "none", version |-> 1]
Applied == {schema[i] : i \in DOMAIN schema}

At(p, step) == proc[p].pc = step
Goto(p, step) == proc' = [proc EXCEPT ![p].pc = step]

\* The server takes the whole container with it.
End(p) ==
    IF p = "check"
    THEN /\ proc' = [proc EXCEPT ![p] = Down]
         /\ UNCHANGED <<worker, busy, missing>>
    ELSE /\ proc' = [q \in Process |-> Down]
         /\ worker' = "none" /\ busy' = {} /\ missing' = {}

Init ==
    /\ env \in Environments
    /\ wanted = TRUE
    /\ proc = [p \in Process |-> Down]
    /\ secretFile = "absent" /\ missing = {}
    /\ schema = << >>
    /\ worker = "none" /\ busy = {}

-----------------------------------------------------------------------------
(***************************************************************************)
(* The operator, Docker, and what goes wrong.                              *)
(***************************************************************************)
Want == /\ ~wanted /\ At("server", "off") /\ wanted' = TRUE
        /\ UNCHANGED <<env, proc, store, worker, busy>>

Launch ==
    /\ wanted /\ At("server", "off")
    /\ Goto("server", "configure")
    /\ UNCHANGED <<env, wanted, store, worker, busy>>

LaunchCheck ==
    /\ ~At("server", "off") /\ At("check", "off")
    /\ Goto("check", "configure")
    /\ UNCHANGED <<env, wanted, store, worker, busy>>

\* SIGTERM: until main has asked to be told (main.go:79) it kills the process,
\* then main halts, and once main is past its select nobody is told.
Stop ==
    /\ wanted /\ wanted' = FALSE
    /\ IF At("server", "serve")
       THEN Goto("server", "halt") /\ UNCHANGED <<worker, busy, missing>>
       ELSE IF proc["server"].pc \in Starting \union {"off", "sweep"}
       THEN End("server")
       ELSE UNCHANGED <<proc, worker, busy, missing>>
    /\ UNCHANGED <<env, secretFile, schema>>

Kill(p) ==
    /\ ~At(p, "off")
    /\ End(p)
    /\ UNCHANGED <<env, wanted, secretFile, schema>>

ListenFails ==
    /\ At("server", "serve")
    /\ Goto("server", "abandon")
    /\ UNCHANGED <<env, wanted, store, worker, busy>>

-----------------------------------------------------------------------------
(***************************************************************************)
(* New: the settings, then the secret ...                                  *)
(***************************************************************************)
Configure(p) ==
    /\ At(p, "configure")
    /\ IF Accepted(env)
       THEN Goto(p, "secret") /\ UNCHANGED <<worker, busy, missing>>
       ELSE End(p)
    /\ UNCHANGED <<env, wanted, secretFile, schema>>

Resolved(p, secret) ==
    proc' = [proc EXCEPT ![p].pc = "open", ![p].secret = secret]

\* Mutant: a malformed secret is replaced instead of refused.
ReadSecretRepairing(p) ==
    /\ At(p, "secret")
    /\ \/ /\ env.secret = "given" /\ Resolved(p, "given")
          /\ UNCHANGED missing
       \/ /\ env.secret = "none" /\ secretFile \in {"absent", "short"}
          /\ Goto(p, "truncate")
          /\ missing' = IF secretFile = "absent" THEN missing \union {p} ELSE missing
       \/ /\ env.secret = "none" /\ secretFile \in Secret /\ Resolved(p, secretFile)
          /\ UNCHANGED missing
    /\ UNCHANGED <<env, wanted, secretFile, schema, worker, busy>>

ReadSecret(p) ==
    /\ At(p, "secret")
    /\ \/ /\ env.secret = "given" /\ Resolved(p, "given")
          /\ UNCHANGED <<worker, busy, missing>>
       \/ /\ env.secret = "none" /\ secretFile = "absent"
          /\ Goto(p, "truncate")
          /\ missing' = missing \union {p}
          /\ UNCHANGED <<worker, busy>>
       \/ /\ env.secret = "none" /\ secretFile = "short"
          /\ End(p)
       \/ /\ env.secret = "none" /\ secretFile \in Secret
          /\ Resolved(p, secretFile)
          /\ UNCHANGED <<worker, busy, missing>>
    /\ UNCHANGED <<env, wanted, secretFile, schema>>

\* os.WriteFile opens and truncates the file ...
TruncateSecret(p) ==
    /\ At(p, "truncate")
    /\ secretFile' = "short"
    /\ Goto(p, "fill")
    /\ UNCHANGED <<env, wanted, missing, schema, worker, busy>>

\* ... and writes the secret that was generated.
FillSecret(p) ==
    /\ At(p, "fill")
    /\ secretFile' = p
    /\ Resolved(p, p)
    /\ UNCHANGED <<env, wanted, missing, schema, worker, busy>>

(***************************************************************************)
(* ... and the database: the first migration is recorded if it is not, any *)
(* other is looked for and then applied in a transaction, which fails as a *)
(* whole when another process has applied it in between.                   *)
(***************************************************************************)
\* Mutant: the row of the first migration is inserted without ON CONFLICT.
RecordFoundationOnce(p) ==
    /\ At(p, "open")
    /\ IF 1 \in Applied
       THEN End(p) /\ UNCHANGED schema
       ELSE /\ schema' = Append(schema, 1)
            /\ proc' = [proc EXCEPT ![p].pc = "migrate", ![p].version = 2]
            /\ UNCHANGED <<worker, busy, missing>>
    /\ UNCHANGED <<env, wanted, secretFile>>

RecordFoundation(p) ==
    /\ At(p, "open")
    /\ schema' = IF 1 \in Applied THEN schema ELSE Append(schema, 1)
    /\ proc' = [proc EXCEPT ![p].pc = "migrate", ![p].version = 2]
    /\ UNCHANGED <<env, wanted, secretFile, missing, worker, busy>>

CheckMigration(p) ==
    /\ At(p, "migrate")
    /\ IF proc[p].version > Latest
       THEN Goto(p, IF p = "server" THEN "sweep" ELSE "ready")
       ELSE IF proc[p].version \in Applied
       THEN proc' = [proc EXCEPT ![p].version = @ + 1]
       ELSE Goto(p, "apply")
    /\ UNCHANGED <<env, wanted, store, worker, busy>>

\* Mutant: the version's row is inserted with ON CONFLICT DO NOTHING.
ApplyMigrationTwice(p) ==
    /\ At(p, "apply")
    /\ schema' = Append(schema, proc[p].version)
    /\ proc' = [proc EXCEPT ![p].pc = "migrate", ![p].version = @ + 1]
    /\ UNCHANGED <<env, wanted, secretFile, missing, worker, busy>>

ApplyMigration(p) ==
    /\ At(p, "apply")
    /\ IF proc[p].version \in Applied
       THEN End(p) /\ UNCHANGED schema
       ELSE /\ schema' = Append(schema, proc[p].version)
            /\ proc' = [proc EXCEPT ![p].pc = "migrate", ![p].version = @ + 1]
            /\ UNCHANGED <<worker, busy, missing>>
    /\ UNCHANGED <<env, wanted, secretFile>>

-----------------------------------------------------------------------------
(***************************************************************************)
(* The health check looks at the database and the directories, and ends.   *)
(***************************************************************************)
Ready ==
    /\ At("check", "ready")
    /\ End("check")
    /\ UNCHANGED <<env, wanted, secretFile, schema>>

(***************************************************************************)
(* The server: a first cleanup pass, then worker and listener.             *)
(***************************************************************************)
FirstSweep ==
    /\ At("server", "sweep")
    /\ Goto("server", "serve")
    /\ worker' = "waiting"
    /\ UNCHANGED <<env, wanted, store, busy>>

\* The ticker fires, which a select may take even over a cancelled context.
WorkerBegins == worker = "waiting" /\ worker' = "pass"
WorkerEnds == worker = "pass" /\ worker' = "waiting"
WorkerStops ==
    /\ worker = "waiting" /\ proc["server"].pc \in {"halt", "abandon"}
    /\ worker' = "stopped"

WorkerStep ==
    /\ WorkerBegins \/ WorkerEnds \/ WorkerStops
    /\ UNCHANGED <<env, wanted, proc, store, busy>>

\* The listener is open until Shutdown.
Accept(h) ==
    /\ proc["server"].pc \in {"serve", "halt"} /\ h \notin busy
    /\ busy' = busy \union {h}
    /\ UNCHANGED <<env, wanted, proc, store, worker>>

Answer(h) ==
    /\ h \in busy /\ busy' = busy \ {h}
    /\ UNCHANGED <<env, wanted, proc, store, worker>>

\* Mutant: main does not wait for the worker.
WorkerGoneUnawaited ==
    /\ \/ At("server", "halt") /\ Goto("server", "drain") /\ UNCHANGED <<worker, busy, missing>>
       \/ At("server", "abandon") /\ End("server")
    /\ UNCHANGED <<env, wanted, secretFile, schema>>

\* workerWg.Wait returns: Shutdown follows the signal, os.Exit a failed listener.
WorkerGone ==
    /\ worker = "stopped"
    /\ \/ At("server", "halt") /\ Goto("server", "drain") /\ UNCHANGED <<worker, busy, missing>>
       \/ At("server", "abandon") /\ End("server")
    /\ UNCHANGED <<env, wanted, secretFile, schema>>

\* Shutdown waits for the handlers, for fifteen seconds at most.
Shutdown ==
    /\ At("server", "drain")
    /\ \/ busy = {} /\ Goto("server", "close")
       \/ busy # {} /\ Goto("server", "force")
    /\ UNCHANGED <<env, wanted, store, worker, busy>>

\* The deferred Close of the database, and the end of main.
CloseDatabase ==
    /\ proc["server"].pc \in {"close", "force"}
    /\ Goto("server", "exit")
    /\ UNCHANGED <<env, wanted, store, worker, busy>>

Exit ==
    /\ At("server", "exit")
    /\ End("server")
    /\ UNCHANGED <<env, wanted, secretFile, schema>>

-----------------------------------------------------------------------------
StartStep(p) ==
    \/ Configure(p) \/ ReadSecret(p) \/ TruncateSecret(p) \/ FillSecret(p)
    \/ RecordFoundation(p) \/ CheckMigration(p) \/ ApplyMigration(p)

ServerStep ==
    StartStep("server") \/ FirstSweep \/ WorkerGone \/ Shutdown \/ CloseDatabase \/ Exit

Fault == ListenFails \/ \E p \in Process : Kill(p)

Ordinary ==
    \/ Want \/ Launch \/ LaunchCheck \/ Stop
    \/ ServerStep \/ WorkerStep
    \/ StartStep("check") \/ Ready
    \/ \E h \in Handlers : Accept(h) \/ Answer(h)

Next == Ordinary \/ Fault

Spec == Init /\ [][Next]_vars

(***************************************************************************)
(* Docker starts what is wanted, main and the worker's passes run on, and  *)
(* select, which picks at random, does not pass over a cancelled context   *)
(* for ever.  Handlers may hang and the operator may do nothing.  Kills    *)
(* and failing writes come to an end.                                      *)
(***************************************************************************)
Fairness ==
    /\ WF_vars(Launch) /\ WF_vars(ServerStep)
    /\ WF_vars(WorkerStep) /\ SF_vars(WorkerStops /\ UNCHANGED <<env, wanted, proc, store, busy>>)
    /\ <>[][Ordinary]_vars

FairSpec == Spec /\ Fairness

-----------------------------------------------------------------------------
\* Processes, files and tables keep their types.
StartupTypeOK ==
    /\ env \in Environments /\ wanted \in BOOLEAN
    /\ proc \in [Process -> [pc : Step, secret : Secret \union {"none"},
                             version : 1 .. Latest + 1]]
    /\ secretFile \in {"absent", "short"} \union Secret
    /\ missing \subseteq Process
    /\ schema \in Seq(1 .. Latest)
    /\ worker \in {"none", "waiting", "pass", "stopped"}
    /\ busy \subseteq Handlers

(***************************************************************************)
(* A server works with the secret that is on disk, the one its successor   *)
(* will read, whatever health check starts, writes or dies beside it - but *)
(* for one case: in a container where both found the file missing, the     *)
(* health check's write may replace the secret the server goes on using.   *)
(***************************************************************************)
HasSecret(p) == proc[p].secret # "none"
SecretAgrees ==
    HasSecret("server") =>
        \/ env.secret = "given" /\ proc["server"].secret = "given"
        \/ proc["server"].secret = secretFile
        \/ missing = Process

(***************************************************************************)
(* The migrations are applied in order and each once, by however many      *)
(* processes and with whatever crashes between, and no server sweeps or    *)
(* serves and no health check reports before all of them are there.        *)
(***************************************************************************)
SchemaComplete ==
    /\ schema = [i \in 1 .. Len(schema) |-> i]
    /\ \A p \in Process :
          proc[p].pc \notin Starting \union {"off"} => Len(schema) = Latest

(***************************************************************************)
(* The database is closed under nobody: not under a cleanup pass, and      *)
(* under a handler only when Shutdown has given up on it.                  *)
(***************************************************************************)
StopsCleanly ==
    [][At("server", "exit")' /\ ~At("server", "exit") =>
            worker = "stopped" /\ (busy # {} => At("server", "force"))]_vars

(***************************************************************************)
(* The settings a server runs with are the ones the operator wrote: a size *)
(* in any unit is exact, unless it does not fit a word, and each rate      *)
(* limiter lets a client act at least once and refills within ten minutes, *)
(* unless twice the rate does not fit a word, which turns it off.          *)
(***************************************************************************)
Written(f) == env[f].digits * Factor[env[f].unit]
Sound(limiter) == limiter.burst \in 1 .. 10 * limiter.rate

SettingsFaithful ==
    At("server", "serve") =>
        LET c == Load(env)
        IN  /\ \A f \in ByteSettings : c[f] = Written(f) \/ Written(f) >= Word
            /\ \A l \in {"room", "auth", "download"} : Sound(Limiters(c)[l])
            /\ \/ Sound(Limiters(c).upload)
               \/ 2 * env["ShareManagementRateLimit"] >= Word

(***************************************************************************)
(* A service that is wanted comes up and stays up once faults end, though  *)
(* the health check may beat the server to a migration - unless a process  *)
(* ended while it wrote the secret and left a short one, which every later *)
(* start refuses.  A service that is not wanted ends, though handlers hang.*)
(***************************************************************************)
OperatorObeyed ==
    /\ (Accepted(env) /\ <>[]wanted) =>
            <>[]At("server", "serve") \/ <>[](secretFile = "short")
    /\ <>[](~wanted) => <>[]At("server", "off")
=============================================================================
