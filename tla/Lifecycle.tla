----------------------------- MODULE Lifecycle -----------------------------
(***************************************************************************)
(* The command line of scripts/lifecycle.py on one work directory, with    *)
(* the host and the shell scripts it runs.  A command is the list of its   *)
(* accesses to the directory; the computations between them (proving, a    *)
(* test chain) touch nothing here.  Commands run at any time, and each may *)
(* be killed between any two accesses.  deposit and inspect only read, and *)
(* refund works in a temporary directory of its own: they are left out.    *)
(*                                                                         *)
(* A file's contents are the run that produced them.  Killing a process    *)
(* loses nothing it has written; a power failure is not modelled.          *)
(***************************************************************************)
EXTENDS Integers, FiniteSets, SequencesExt

CONSTANTS
  Actions,          \* ACTIONS: the transitions proved, in order
  MaxRuns,          \* bound: the commands invoked
  MaxConcurrent     \* bound: the commands running at a time

ASSUME LifecycleAssumption ==
  /\ Actions \in Seq(STRING) /\ Actions # <<>>
  /\ MaxRuns \in Nat /\ MaxConcurrent \in Nat

VARIABLES
  files,    \* path -> contents, for the paths that exist
  job,      \* the commands running, by the number of their invocation
  runs      \* the number of invocations so far

vars == <<files, job, runs>>

-----------------------------------------------------------------------------
(* Paths, relative to the work directory, and contents                     *)

Work == <<>>
Inputs == <<"inputs">>
Proofs == <<"proofs">>
Scripts == <<"scripts">>
Fixtures == <<"fixtures">>
DeploymentDir == <<"deployment">>
Deployment == <<"deployment", "deployment.json">>
Scenario == <<"scenario.json">>
StateFile == <<"state.json">>
Result == <<"result.json">>
Request(a) == <<"inputs", a, "request.json">>
Input(a) == <<"inputs", a, "input.json">>
Proof(a) == <<"proofs", a, "proof.bin">>
Verified(a) == <<"proofs", a, "verified.json">>
ScriptOf(a) == <<"scripts", a>>
Fixture(a, name) == <<"fixtures", a, name>>
FixtureNames == {"input.json", "proof.bin", "verified.json", "script.json"}

\* path.with_suffix(path.suffix + ".new")
Temporary(path) ==
  Front(path) \o (IF Last(path) = "state.json" THEN <<"state.json.new">>
                  ELSE <<"request.json.new">>)

\* No open file: the work directory itself is never opened.
Closed == Work

Directory == [kind |-> "directory"]
Torn == [kind |-> "torn"]
Missing == [kind |-> "missing"]
Made(run) == [kind |-> "made", run |-> run]

\* What state.json says: the digests of the proofs and of the result are the
\* contents they were taken of.
State(status, proofs, result) ==
  [kind |-> "state", status |-> status, proofs |-> proofs, result |-> result]

-----------------------------------------------------------------------------
(* Commands                                                                *)

Do(op, path) == [op |-> op, path |-> path]

ForAll(One(_)) == FlattenSeq([k \in DOMAIN Actions |-> One(Actions[k])])

\* write_text, std::fs::write: open and truncate, then fill.
Write(path) == <<Do("open", path), Do("make", path)>>

Copy(source, path) ==
  <<Do("open", path), [op |-> "copy", path |-> path, source |-> source]>>

\* write(): through a temporary that replaces the file.
WriteState_InPlace(status) ==
  <<[op |-> "label", path |-> StateFile, status |-> status],
    Do("open", StateFile), Do("save", StateFile)>>

WriteState(status) ==
  <<[op |-> "label", path |-> StateFile, status |-> status],
    Do("open", Temporary(StateFile)), Do("save", StateFile),
    Do("replace", StateFile)>>

\* The host's prepare and derive, and the bridge test asked for a scenario.
PrepareDeployment ==
  <<Do("absent", DeploymentDir), Do("mkdir", DeploymentDir)>> \o Write(Deployment)

PrepareScenario == <<Do("absent", Scenario)>> \o Write(Scenario)

DeriveInput(a) ==
  <<Do("absent", Input(a)), Do("read", Request(a))>> \o Write(Input(a))

WriteRequest(a) ==
  <<Do("mkdir", <<"inputs", a>>),
    Do("open", Temporary(Request(a))), Do("make", Request(a)),
    Do("replace", Request(a))>>

GenesisSteps_StateFirst ==
  <<Do("absent", Work), Do("mkdir", Work), Do("mkdir", Inputs)>>
  \o PrepareDeployment \o PrepareScenario
  \o WriteState("prepared")
  \o ForAll(LAMBDA a : WriteRequest(a) \o DeriveInput(a))

GenesisSteps_LateRefusal ==
  <<Do("mkdirs", Work)>> \o WriteState("prepared")
  \o <<Do("mkdir", Inputs)>> \o PrepareDeployment \o PrepareScenario
  \o ForAll(LAMBDA a : WriteRequest(a) \o DeriveInput(a))

GenesisSteps ==
  <<Do("absent", Work), Do("mkdir", Work), Do("mkdir", Inputs)>>
  \o PrepareDeployment \o PrepareScenario
  \o <<Do("read", Scenario)>>
  \o ForAll(LAMBDA a : WriteRequest(a) \o DeriveInput(a))
  \o WriteState("prepared")

\* The host's prove, behind prove-input.sh, and its verify, which writes
\* verified.json again.
HostProve(a) ==
  <<Do("absent", <<"proofs", a>>), Do("read", Input(a)),
    Do("absent", <<"proofs", a>>), Do("mkdir", <<"proofs", a>>)>>
  \o Write(Proof(a)) \o Write(Verified(a))

HostVerify(a) ==
  <<Do("read", Input(a)), Do("read", Proof(a))>> \o Write(Verified(a))

BuildVerifierArtifact(a) ==
  <<Do("absent", ScriptOf(a)), Do("read", Verified(a)), Do("read", Deployment)>>
  \o Write(ScriptOf(a))

PackageFixtures_ProofLast ==
  <<Do("absent", Fixtures), Do("mkdirs", Fixtures)>>
  \o ForAll(LAMBDA a :
       <<Do("mkdir", <<"fixtures", a>>)>>
       \o Copy(Input(a), Fixture(a, "input.json"))
       \o Copy(Verified(a), Fixture(a, "verified.json"))
       \o Copy(ScriptOf(a), Fixture(a, "script.json"))
       \o Copy(Proof(a), Fixture(a, "proof.bin")))

\* The tests for missing artifacts are left out: this run made them all.
\* mkdir -p takes a directory that exists.
PackageFixtures ==
  <<Do("absent", Fixtures), Do("mkdirs", Fixtures)>>
  \o ForAll(LAMBDA a :
       <<Do("mkdir", <<"fixtures", a>>)>>
       \o Copy(Input(a), Fixture(a, "input.json"))
       \o Copy(Proof(a), Fixture(a, "proof.bin"))
       \o Copy(Verified(a), Fixture(a, "verified.json"))
       \o Copy(ScriptOf(a), Fixture(a, "script.json")))

ProveSteps ==
  <<Do("absent", Proofs), Do("absent", Scripts), Do("absent", Fixtures),
    Do("mkdir", Proofs), Do("mkdir", Scripts)>>
  \o ForAll(LAMBDA a : HostProve(a) \o HostVerify(a) \o BuildVerifierArtifact(a))
  \o PackageFixtures
  \o <<Do("load", StateFile)>> \o WriteState("proved")

LoadProofs_FirstOnly == <<Do("read", Fixture(Actions[1], "script.json"))>>

\* The bridge test reads the fixtures first and writes its result last.
LoadProofs ==
  <<Do("read", Fixture(Actions[1], "script.json"))>>
  \o ForAll(LAMBDA a : <<Do("read", Fixture(a, "input.json")),
                         Do("read", Fixture(a, "verified.json")),
                         Do("read", Fixture(a, "script.json"))>>)

SubmitSteps_Overwriting ==
  LoadProofs \o Write(Result)
  \o <<Do("load", StateFile), Do("read", Result)>> \o WriteState("mined")

SubmitSteps ==
  <<Do("absent", Result)>>
  \o LoadProofs \o <<Do("absent", Result)>> \o Write(Result)
  \o <<Do("load", StateFile), Do("read", Result)>> \o WriteState("mined")

Steps(command) ==
  CASE command = "genesis" -> GenesisSteps
    [] command = "prove" -> ProveSteps
    [] command = "submit" -> SubmitSteps

-----------------------------------------------------------------------------
(* Accesses to the directory                                               *)

Exists(path) == path \in DOMAIN files

Whole(path) == Exists(path) /\ files[path] # Torn

HasParent(path) == path = Work \/ Exists(Front(path))

With(path, contents) ==
  [q \in DOMAIN files \cup {path} |->
     IF q = path THEN contents ELSE files[q]]

Running == DOMAIN job

Finished(r) == job[r].pc > Len(Steps(job[r].command))

Current(r) == Steps(job[r].command)[job[r].pc]

Possible_ExistOk(step) ==
  CASE step.op = "absent" -> ~ Exists(step.path)
    [] step.op \in {"mkdir", "mkdirs", "open"} -> HasParent(step.path)
    [] step.op \in {"read", "load"} -> Whole(step.path)
    [] step.op = "copy" -> Exists(step.source)
    [] step.op = "replace" -> Exists(Temporary(step.path))
    [] OTHER -> TRUE

\* The checks of a step, and the errors the system calls raise.
Possible(step) ==
  CASE step.op = "absent" -> ~ Exists(step.path)
    [] step.op = "mkdir" -> ~ Exists(step.path) /\ HasParent(step.path)
    [] step.op \in {"mkdirs", "open"} -> HasParent(step.path)
    [] step.op \in {"read", "load"} -> Whole(step.path)
    [] step.op = "copy" -> Exists(step.source)
    [] step.op = "replace" -> Exists(Temporary(step.path))
    [] step.op = "label" ->
         /\ step.status = "proved" =>
              \A k \in DOMAIN Actions : Exists(Fixture(Actions[k], "proof.bin"))
         /\ step.status = "mined" => Exists(Result)
    [] OTHER -> TRUE

At(r, ops) ==
  /\ r \in Running
  /\ ~ Finished(r)
  /\ Current(r).op \in ops
  /\ Possible(Current(r))

Advance(r, fd, state) ==
  job' = [job EXCEPT ![r].pc = @ + 1, ![r].fd = fd, ![r].state = state]

-----------------------------------------------------------------------------
(* Actions                                                                 *)

Init ==
  /\ files = [path \in {} |-> Missing]
  /\ job = [r \in {} |-> Missing]
  /\ runs = 0

Invoke(command) ==
  /\ runs < MaxRuns
  /\ Cardinality(Running) < MaxConcurrent
  /\ runs' = runs + 1
  /\ job' = [r \in Running \cup {runs + 1} |->
               IF r \in Running THEN job[r]
               ELSE [command |-> command, pc |-> 1, fd |-> Closed,
                     state |-> Missing]]
  /\ UNCHANGED files

\* A check that passes, or a file that is read.
Look(r) ==
  /\ At(r, {"absent", "read"})
  /\ Advance(r, job[r].fd, job[r].state)
  /\ UNCHANGED <<files, runs>>

MakeDirectory(r) ==
  /\ At(r, {"mkdir", "mkdirs"})
  /\ files' = With(Current(r).path, Directory)
  /\ Advance(r, job[r].fd, job[r].state)
  /\ UNCHANGED runs

OpenFile(r) ==
  /\ At(r, {"open"})
  /\ files' = With(Current(r).path, Torn)
  /\ Advance(r, Current(r).path, job[r].state)
  /\ UNCHANGED runs

\* The contents go to the file that was opened, whatever its path is now.
FillFile(r) ==
  /\ At(r, {"make", "copy", "save"})
  /\ LET contents == CASE Current(r).op = "make" -> Made(r)
                       [] Current(r).op = "copy" -> files[Current(r).source]
                       [] Current(r).op = "save" -> job[r].state
     IN  files' = IF job[r].fd = Closed THEN files
                  ELSE With(job[r].fd, contents)
  /\ Advance(r, Closed, job[r].state)
  /\ UNCHANGED runs

\* A rename takes the open descriptors of its source along, and leaves those
\* of its target without a path.
ReplaceFile(r) ==
  /\ At(r, {"replace"})
  /\ LET target == Current(r).path
         source == Temporary(target)
         Renamed(fd) == IF fd = source THEN target
                        ELSE IF fd = target THEN Closed ELSE fd
     IN  /\ files' = Restrict(With(target, files[source]),
                              (DOMAIN files \cup {target}) \ {source})
         /\ job' = [s \in Running |->
                      [job[s] EXCEPT !.fd = Renamed(@),
                                     !.pc = IF s = r THEN @ + 1 ELSE @]]
  /\ UNCHANGED runs

LoadState(r) ==
  /\ At(r, {"load"})
  /\ Advance(r, job[r].fd, files[StateFile])
  /\ UNCHANGED <<files, runs>>

\* The new status, with the digests taken for it.
LabelState(r) ==
  /\ At(r, {"label"})
  /\ LET status == Current(r).status
         none == [k \in DOMAIN Actions |-> Missing]
         taken == [k \in DOMAIN Actions |->
                     files[Fixture(Actions[k], "proof.bin")]]
         loaded == job[r].state
     IN  Advance(r, job[r].fd,
           CASE status = "prepared" -> State(status, none, Missing)
             [] status = "proved" -> State(status, taken, loaded.result)
             [] status = "mined" -> State(status, loaded.proofs, files[Result]))
  /\ UNCHANGED <<files, runs>>

Leave(r) ==
  /\ job' = Restrict(job, Running \ {r})
  /\ UNCHANGED <<files, runs>>

Finish(r) == r \in Running /\ Finished(r) /\ Leave(r)

\* A refusal, or an error, ends the command; what it did stays.
Refuse(r) ==
  /\ r \in Running
  /\ ~ Finished(r)
  /\ ~ Possible(Current(r))
  /\ Leave(r)

Kill(r) == r \in Running /\ Leave(r)

Next ==
  \/ \E command \in {"genesis", "prove", "submit"} : Invoke(command)
  \/ \E r \in Running :
       \/ Look(r)
       \/ MakeDirectory(r)
       \/ OpenFile(r)
       \/ FillFile(r)
       \/ ReplaceFile(r)
       \/ LoadState(r)
       \/ LabelState(r)
       \/ Finish(r)
       \/ Refuse(r)
       \/ Kill(r)

Spec == Init /\ [][Next]_vars

-----------------------------------------------------------------------------
(* Properties                                                              *)

Statuses == <<"prepared", "proved", "mined">>

Proved == \E k \in 2 .. 3 : files[StateFile].status = Statuses[k]

\* lifecycle.py, genesis: a state file is there only when everything a later
\* command reads was written whole, wherever genesis was killed.
PreparedComplete ==
  Exists(StateFile) =>
    /\ Whole(Deployment) /\ Whole(Scenario)
    /\ \A k \in DOMAIN Actions :
         Whole(Request(Actions[k])) /\ Whole(Input(Actions[k]))

\* lifecycle.py, write(): at every moment state.json is whole, so that no
\* kill of a command leaves a work directory no later command can read.
StateFileWhole == Exists(StateFile) => Whole(StateFile)

\* IMPLEMENTATION_PLAN.md, "Do not label pending or merely proven actions as
\* confirmed": the status is never ahead of the artifacts it names.
StatusEarned ==
  Whole(StateFile) =>
    LET state == files[StateFile]
    IN  /\ Proved => \A k \in DOMAIN Actions : \A name \in FixtureNames :
                       Whole(Fixture(Actions[k], name))
        /\ state.status = "proved" =>
             \A k \in DOMAIN Actions :
               state.proofs[k] = files[Fixture(Actions[k], "proof.bin")]
        /\ state.status = "mined" => Whole(Result)

\* The same sentence, however many commands run at once and whoever fills or
\* replaces the state file they share: a proved state names the packaged
\* proofs, and behind a mined one every fixture is whole and a result is there.
StatusBacked ==
  Whole(StateFile) =>
    LET state == files[StateFile]
    IN  /\ Proved => \A k \in DOMAIN Actions : \A name \in FixtureNames :
                       Whole(Fixture(Actions[k], name))
        /\ state.status = "proved" =>
             \A k \in DOMAIN Actions :
               state.proofs[k] = files[Fixture(Actions[k], "proof.bin")]
        /\ state.status = "mined" => Exists(Result)

\* README.md, "The lifecycle commands refuse to overwrite existing proof or
\* result artifacts": the result a mined state recorded is the result there is.
ResultStands ==
  Whole(StateFile) /\ files[StateFile].status = "mined" =>
    files[StateFile].result = files[Result]

\* The same sentence, of proofs: one that was written stays, although two
\* provers may run at once.
ProofsStand ==
  [][\A k \in DOMAIN Actions :
       LET proof == Proof(Actions[k])
       IN  Whole(proof) => proof \in DOMAIN files' /\ files'[proof] = files[proof]]_vars

\* lifecycle.py, submit: a result is evidence of the packaged proofs, so it
\* is there only when every action's fixtures are.
ResultHasFixtures ==
  Exists(Result) =>
    \A k \in DOMAIN Actions : \A name \in FixtureNames :
      Whole(Fixture(Actions[k], name))

\* The status of a work directory does not move back.
StatusNotBack ==
  \A j, k \in 1 .. 3 :
    /\ Whole(StateFile) /\ files[StateFile].status = Statuses[j]
    /\ StateFile \in DOMAIN files' /\ files'[StateFile] # Torn
    /\ files'[StateFile].status = Statuses[k]
    => j <= k

\* IMPLEMENTATION_PLAN.md, "resumable artifact directories": with no command
\* running, proofs that a prepared directory lacks can still be made.
ProvingCanResume ==
  Running = {} /\ Whole(StateFile) /\ files[StateFile].status = "prepared" =>
    ~ Exists(Proofs) /\ ~ Exists(Scripts) /\ ~ Exists(Fixtures)

=============================================================================
