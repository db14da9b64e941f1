------------------------------- MODULE Manage -------------------------------
(***************************************************************************)
(* The menu and the start/stop/restart/status commands working on one       *)
(* configuration file (menu/manage.go, menu/wizard.go, main.go) through     *)
(* internal/procmgr: a pid file beside the configuration, a detached child  *)
(* that nobody waits for, signals by number.  Several menus and commands    *)
(* may run at once, the kernel reuses numbers, and any of them may be killed *)
(* between two steps.  Unix only: procmgr_windows.go is not modelled.       *)
(*                                                                          *)
(* os.WriteFile empties a file when it opens it and then writes from its     *)
(* start: what another caller wrote in between stays behind the end of a     *)
(* shorter text, and a file removed in between takes the text with it.       *)
(***************************************************************************)
EXTENDS Config, FiniteSets

CONSTANTS
    Menus, Clis,    \* interactive menus and one-shot commands (processes)
    Pid,            \* process numbers
    Digits,         \* how many digits each has
    Odd,            \* a number that no process has
    Strangers,      \* those that other programs of the machine may be given
    Polls,          \* how often Stop looks (20 in the code)
    MaxMishaps,     \* bound on deaths, failed writes and overlapping commands
    MaxMappings,    \* bound on the mappings of an edited configuration
    HandWritten,    \* files a user wrote
    Answers, Given, \* answers the wizard takes, and the bound of those it is given
    Names,          \* names the editor may add
    MuxNumbers, KCPNumbers,  \* numbers of a mux or KCP section
    None, Blank     \* no file, a truncated pid file

ManageAssumption ==
    /\ IsFiniteSet(Menus) /\ IsFiniteSet(Clis) /\ IsFiniteSet(Pid)
    /\ Menus \cap Clis = {} /\ Strangers \subseteq Pid
    /\ Polls \in Nat /\ MaxMishaps \in Nat /\ MaxMappings \in Nat
    /\ {None, Blank, Odd} \cap Pid = {} /\ None # Blank /\ Odd \notin {None, Blank}
    /\ Digits \in [Pid -> Nat]
\* The files a user wrote can be loaded.
FilesAssumption == HandWritten \subseteq Server \cup Client /\ \A c \in HandWritten : Loads(c)

\* The wizard insists on an address and on names, generates a token and adds a mapping
\* if there is none; a mapping is UDP or TCP.
WizardData == [scenario: {1, 2}, transport: Transports, token: Text \ {""}, addr: [port: Text \ {"no port"}],
           path: Text, obfs: BOOLEAN, pool: Int, mappings: Seq([name: Text \ {""}, proto: Protos])]

AnswersAssumption ==
    /\ Answers \subseteq WizardData /\ \A d \in Answers : d.mappings # <<>>
    /\ Given \subseteq Answers /\ Names \subseteq Text

\* Below 2^31, so that a period in seconds is a time.Duration and a size in MiB an int.
SectionsAssumption == MuxNumbers \subseteq {n \in Int : n <= 2147483647} /\ KCPNumbers \subseteq Int

ASSUME ManageAssumption
ASSUME SectionsAssumption
ASSUME FilesAssumption
ASSUME AnswersAssumption

VARIABLES
    file,     \* the configuration file
    draft,    \* the configuration a caller holds in memory
    pidfile,  \* <config>.pid
    proc,     \* what each process number stands for
    parent,   \* the caller a process is a child of
    pc, goal, \* what each caller is doing, and for which command
    want,     \* the number it read or was given
    polls,    \* how often Stop has looked
    mishaps   \* deaths, failed and overlaid writes, and overlapping commands so far

vars == <<file, draft, pidfile, proc, parent, pc, goal, want, polls, mishaps>>
procvars == <<pidfile, proc, parent>>
filevars == <<file, draft>>

Caller == Menus \cup Clis
Tunnels == {p \in Pid : proc[p] \in {"tunnel", "stopping"}}
Idle == \A i \in Caller : pc[i] = "idle"

Init ==
    /\ file \in HandWritten
    /\ draft = [i \in Caller |-> None]
    /\ pidfile = None
    /\ proc = [p \in Pid |-> "free"] /\ parent = [p \in Pid |-> None]
    /\ pc = [i \in Caller |-> "idle"] /\ goal = [i \in Caller |-> None]
    /\ want = [i \in Caller |-> None] /\ polls = [i \in Caller |-> 0]
    /\ mishaps = 0

-----------------------------------------------------------------------------
(* The kernel.                                                             *)

\* processAlive: signal 0 reaches every process there is, one that has ended
\* and waits for its parent and one that belongs to somebody else (EPERM) included.
Alive(p) == p \in Pid /\ proc[p] # "free"

\* A process that ends stays a zombie for as long as its parent lives: Start
\* releases the child and never waits for it.
Ended(p) == [proc EXCEPT ![p] = IF parent[p] = None THEN "free" ELSE "zombie"]

\* The children of a caller that exits go to init, which reaps the dead ones.
Orphaned(i) ==
    /\ proc' = [p \in Pid |-> IF parent[p] = i /\ proc[p] = "zombie" THEN "free" ELSE proc[p]]
    /\ parent' = [p \in Pid |-> IF parent[p] = i THEN None ELSE parent[p]]

TunnelExits(p) ==
    /\ p \in Tunnels
    /\ proc' = Ended(p)
    /\ UNCHANGED <<filevars, pidfile, parent, pc, goal, want, polls, mishaps>>

PidReused(p) ==
    /\ p \in Strangers /\ proc[p] = "free"
    /\ proc' = [proc EXCEPT ![p] = "stranger"]
    /\ UNCHANGED <<filevars, pidfile, parent, pc, goal, want, polls, mishaps>>

StrangerExits(p) ==
    /\ proc[p] = "stranger"
    /\ proc' = [proc EXCEPT ![p] = "free"]
    /\ UNCHANGED <<filevars, pidfile, parent, pc, goal, want, polls, mishaps>>

-----------------------------------------------------------------------------
(* Commands.                                                               *)

Mishap == mishaps < MaxMishaps /\ mishaps' = mishaps + 1

\* The caller goes on at step l.
Go(i, l) == pc' = [pc EXCEPT ![i] = l] /\ UNCHANGED <<goal, mishaps>>

Forget(i) ==
    /\ goal' = [goal EXCEPT ![i] = None]
    /\ want' = [want EXCEPT ![i] = None]
    /\ polls' = [polls EXCEPT ![i] = 0]
    /\ draft' = [draft EXCEPT ![i] = None]

\* The command is over.  A one-shot command exits, a menu shows its prompt.
Finish(i) == pc' = [pc EXCEPT ![i] = "idle"] /\ Forget(i)

\* A one-shot command leaves its children behind when it exits.
Leave(i) == IF i \in Clis THEN Orphaned(i) ELSE UNCHANGED <<proc, parent>>

Over(i) == Finish(i) /\ Leave(i) /\ UNCHANGED <<file, pidfile, mishaps>>

Goals(i) == IF i \in Menus THEN {"start", "stop", "status", "edit", "wizard"}
            ELSE {"start", "stop", "status", "restart"}

FirstStep(g) == CASE g \in {"start", "restart", "edit"} -> "load" [] g = "stop" -> "stop_read"
                  [] g = "status" -> "status_read" [] OTHER -> "answer"

\* A command starts; one that starts while another is at work counts as a mishap.
Begin(i, g) ==
    /\ pc[i] = "idle"
    /\ IF Idle THEN UNCHANGED mishaps ELSE Mishap
    /\ pc' = [pc EXCEPT ![i] = FirstStep(g)]
    /\ goal' = [goal EXCEPT ![i] = g]
    /\ UNCHANGED <<filevars, procvars, want, polls>>

\* config.Load of the file as it stands; an empty file has no role.
Readable == Loads(file)

\* config.Load before anything is spawned or edited.
Load(i) ==
    /\ pc[i] = "load"
    /\ \/ /\ Readable
          /\ draft' = [draft EXCEPT ![i] = Normalized(file)]
          /\ Go(i, CASE goal[i] = "start" -> "start_read" [] goal[i] = "restart" -> "restart_read"
                     [] OTHER -> "edit")
          /\ UNCHANGED <<file, procvars, want, polls>>
       \/ ~Readable /\ Over(i)

\* readPid, for the step that follows; no file or no number ends a stop.
Numbered == pidfile \in Pid \cup {Odd}

ReadPid(i) ==
    /\ pc[i] \in {"start_read", "stop_read", "restart_read", "status_read", "offer_read"}
    /\ \/ /\ Numbered \/ pc[i] # "stop_read"
          /\ want' = [want EXCEPT ![i] = pidfile]
          /\ Go(i, CASE pc[i] = "start_read" -> "start_alive" [] pc[i] = "stop_read" -> "stop_alive"
                     [] pc[i] = "restart_read" -> "restart_alive" [] pc[i] = "status_read" -> "status_alive"
                     [] OTHER -> "offer_alive")
          /\ UNCHANGED <<filevars, procvars, polls>>
       \/ ~Numbered /\ pc[i] = "stop_read" /\ Over(i)

\* Status prints what it saw.
Status(i) == pc[i] = "status_alive" /\ Over(i)

\* The user may also quit the menu, or be idle.
Quit(i) ==
    /\ i \in Menus /\ pc[i] = "idle"
    /\ Orphaned(i)
    /\ UNCHANGED <<filevars, pidfile, pc, goal, want, polls, mishaps>>

\* The caller is killed between two steps.
Killed(i) ==
    /\ pc[i] # "idle" /\ Mishap
    /\ Finish(i) /\ Orphaned(i)
    /\ UNCHANGED <<file, pidfile>>

-----------------------------------------------------------------------------
(* Instance.Start.                                                         *)

SpawnAnyway(i) == TRUE \* Slip (NoneUntracked): Start does not look first

MaySpawn(i) == ~Alive(want[i])

CheckRunning(i) ==
    /\ pc[i] = "start_alive"
    /\ \/ MaySpawn(i) /\ Go(i, "spawn") /\ UNCHANGED <<filevars, procvars, want, polls>>
       \/ ~MaySpawn(i) /\ Over(i)

\* The log cannot be opened or the program cannot be run, or there is a child.
Spawn(i) ==
    /\ pc[i] = "spawn"
    /\ \/ \E p \in Pid :
            /\ proc[p] = "free"
            /\ proc' = [proc EXCEPT ![p] = "tunnel"] /\ parent' = [parent EXCEPT ![p] = i]
            /\ want' = [want EXCEPT ![i] = p]
            /\ Go(i, "truncate") /\ UNCHANGED <<filevars, pidfile, polls>>
       \/ Over(i)

\* os.WriteFile truncates the pid file, then writes the number; either may fail.
Truncate(i) ==
    /\ pc[i] = "truncate"
    /\ \/ pidfile' = Blank /\ Go(i, "record") /\ UNCHANGED <<filevars, proc, parent, want, polls>>
       \/ Mishap /\ Finish(i) /\ Leave(i) /\ UNCHANGED <<file, pidfile>>

\* What number p makes of a pid file it is written over: a longer number keeps its end,
\* and what comes out is as long.
Overlaid(p) ==
    LET longer(n) == {q \in Pid : Digits[q] = n} \cup {Odd}
    IN IF pidfile \in Pid
       THEN IF Digits[pidfile] > Digits[p] THEN longer(Digits[pidfile]) ELSE {p}
       ELSE IF pidfile = Odd THEN Pid \cup {Odd} ELSE {p}

Record(i) ==
    /\ pc[i] = "record"
    /\ Finish(i) /\ Leave(i) /\ UNCHANGED file
    /\ \/ /\ pidfile' \in Overlaid(want[i])
          /\ IF pidfile' = want[i] THEN UNCHANGED mishaps ELSE mishaps' = mishaps + 1
       \/ Mishap /\ UNCHANGED pidfile

\* The file that was opened has been removed.
RecordAstray(i) == pc[i] = "astray" /\ Over(i)

-----------------------------------------------------------------------------
(* Instance.Stop and Instance.Restart.                                     *)

\* The pid file is removed, whoever wrote it, and whoever has it open.  The caller goes
\* on at step l.
Unlink(i, l) ==
    /\ pidfile' = None
    /\ pc' = [j \in Caller |-> IF j = i THEN l ELSE IF pc[j] = "record" THEN "astray" ELSE pc[j]]

\* The end of a stop, the middle of a restart.
Removed(i) ==
    IF goal[i] = "stop"
    THEN Unlink(i, "idle") /\ Forget(i) /\ Leave(i) /\ UNCHANGED <<file, mishaps>>
    ELSE Unlink(i, "start_read") /\ UNCHANGED <<filevars, proc, parent, goal, want, polls, mishaps>>

\* A stale pid file is cleaned up, and that is an error, for a restart too.
CheckStale(i) ==
    /\ pc[i] = "stop_alive"
    /\ \/ Alive(want[i]) /\ Go(i, "term") /\ UNCHANGED <<filevars, procvars, want, polls>>
       \/ ~Alive(want[i]) /\ Unlink(i, "idle") /\ Forget(i) /\ Leave(i) /\ UNCHANGED <<file, mishaps>>

\* SIGTERM: an error when the process has gone or is not ours.
Terminate(i) ==
    /\ pc[i] = "term"
    /\ \/ /\ Alive(want[i])
          /\ proc' = [proc EXCEPT ![want[i]] = IF @ = "tunnel" THEN "stopping" ELSE @]
          /\ polls' = [polls EXCEPT ![i] = 0]
          /\ Go(i, "poll") /\ UNCHANGED <<filevars, pidfile, parent, want>>
       \/ (~Alive(want[i]) \/ proc[want[i]] = "stranger") /\ Over(i)

\* The process has gone.
Gone(i) == ~Alive(want[i])

Poll(i) ==
    /\ pc[i] = "poll" /\ polls[i] < Polls
    /\ \/ Gone(i) /\ Removed(i)
       \/ /\ ~Gone(i)
          /\ polls' = [polls EXCEPT ![i] = @ + 1]
          /\ UNCHANGED <<filevars, procvars, pc, goal, want, mishaps>>

\* SIGKILL, and its error ignored.
ForceKill(i) ==
    /\ pc[i] = "poll" /\ polls[i] = Polls
    /\ \/ want[i] \in Tunnels /\ proc' = Ended(want[i])
       \/ want[i] \notin Tunnels /\ UNCHANGED proc
    /\ Go(i, "remove")
    /\ UNCHANGED <<filevars, pidfile, parent, want, polls>>

Remove(i) == pc[i] = "remove" /\ Removed(i)

Restart(i) ==
    /\ pc[i] = "restart_alive"
    /\ Go(i, IF Alive(want[i]) THEN "stop_read" ELSE "start_read")
    /\ UNCHANGED <<filevars, procvars, want, polls>>

-----------------------------------------------------------------------------
(* The editor and the wizard.                                              *)

Mappings(c) == Len(c.services) + (IF c.role = "client" THEN Len(c.forwards) ELSE 0)

Edit(i) ==
    /\ pc[i] = "edit"
    /\ \E c \in Edits(draft[i], Names) :
         /\ Mappings(c) <= MaxMappings
         /\ draft' = [draft EXCEPT ![i] = c]
    /\ UNCHANGED <<file, procvars, pc, goal, want, polls, mishaps>>

AcceptAll(c) == TRUE \* Slip (FileLoads): saved without Validate

MaySave(c) == Valid(c)

\* Validate, and the user's answer to "Save changes?".
Save(i) ==
    /\ pc[i] = "edit"
    /\ \/ MaySave(draft[i]) /\ Go(i, "cut") /\ UNCHANGED <<filevars, procvars, want, polls>>
       \/ Over(i)

\* The wizard's questions; this machine gets the server's or the client's file.
Answer(i) ==
    /\ pc[i] = "answer"
    /\ \/ \E d \in Given : \E c \in {BuildServer(d), BuildClient(d)} :
            /\ draft' = [draft EXCEPT ![i] = c]
            /\ Go(i, "cut") /\ UNCHANGED <<file, procvars, want, polls>>
       \/ Over(i)

\* os.WriteFile truncates the file, then writes it; either may fail.
CutFile(i) ==
    /\ pc[i] = "cut"
    /\ \/ file' = Cut /\ Go(i, "write") /\ UNCHANGED <<draft, procvars, want, polls>>
       \/ Mishap /\ Finish(i) /\ Leave(i) /\ UNCHANGED <<file, pidfile>>

\* After a save the editor looks for a tunnel to restart; the wizard may start
\* one in the background, without loading the file first.  The text may end before that
\* of another writer that was faster.
WriteFile(i) ==
    /\ pc[i] = "write"
    /\ \/ /\ file' = draft[i] \/ (file # Cut /\ file' = Torn)
          /\ \/ Go(i, IF goal[i] = "edit" THEN "offer_read" ELSE "start_read")
                /\ UNCHANGED <<draft, procvars, want, polls>>
             \/ goal[i] = "wizard" /\ Finish(i) /\ Leave(i) /\ UNCHANGED <<pidfile, mishaps>>
       \/ Mishap /\ Finish(i) /\ Leave(i) /\ UNCHANGED <<file, pidfile>>

\* offerRestart: only if there is a tunnel, and the user agrees.
Offer(i) ==
    /\ pc[i] = "offer_alive"
    /\ \/ Alive(want[i]) /\ Go(i, "restart_read") /\ UNCHANGED <<filevars, procvars, want, polls>>
       \/ Over(i)

-----------------------------------------------------------------------------
Step(i) ==
    \/ \E g \in Goals(i) : Begin(i, g)
    \/ Load(i) \/ ReadPid(i) \/ Status(i) \/ Quit(i) \/ Killed(i)
    \/ CheckRunning(i) \/ Spawn(i) \/ Truncate(i) \/ Record(i) \/ RecordAstray(i)
    \/ CheckStale(i) \/ Terminate(i) \/ Poll(i) \/ ForceKill(i) \/ Remove(i) \/ Restart(i)
    \/ Edit(i) \/ Save(i) \/ Answer(i) \/ CutFile(i) \/ WriteFile(i) \/ Offer(i)

Next ==
    \/ \E i \in Caller : Step(i)
    \/ \E p \in Pid : TunnelExits(p) \/ PidReused(p) \/ StrangerExits(p)

Spec == Init /\ [][Next]_vars

-----------------------------------------------------------------------------
(* Properties.                                                             *)

\* A background tunnel that the pid file does not name cannot be stopped or seen
\* by any command.  When no command is at work there are at most as many of them as
\* there were mishaps: a caller killed between the spawn and the record, a pid file
\* that could not be written, a number laid over a longer one, or two commands at once.
NoneUntracked == Idle => Cardinality(Tunnels \ {pidfile}) <= mishaps

\* The file of a wizard that was told the same name twice; the wizard does not validate.
Repetitive(c) == \E d \in Given : d.scenario = 2 /\ ~Distinct(d.mappings) /\ c = BuildServer(d)

\* The configuration file is cut short only while somebody writes it or after a
\* writer was killed or failed, and torn only after two wrote at once; otherwise the
\* next start can load it, whatever the user did in the editor and, repeated public
\* names apart, told the wizard.
FileLoads ==
    \/ file = Cut /\ (mishaps > 0 \/ \E i \in Caller : pc[i] = "write")
    \/ file = Torn /\ mishaps > 0
    \/ Repetitive(file)
    \/ Readable

\* A pid file whose tunnel has ended reads as "not running" (procmgr.go:43-44).
StaleReadsStopped ==
    \A i \in Caller : pc[i] = "status_alive" /\ Alive(want[i]) => want[i] \in Tunnels

\* Whatever numbers the mux section of a file that loads holds, smux accepts the
\* settings Config builds from it, unless both windows are 2 GiB or more: the window of a
\* stream never exceeds that of the session, and the timeout is no shorter than the interval.
MuxAccepted ==
    Idle /\ Readable => \A e \in BOOLEAN, k, st, re \in MuxNumbers :
        LET m == [enable |-> e, keepalive |-> k, stream |-> st, receive |-> re]
            n == Normalized([file EXCEPT !.mux = m]).mux
        IN SmuxAccepts(MuxConfig(n)) <=> ~(n.stream >= 2048 /\ n.receive >= 2048)

\* A KCP section that leaves out or spoils any of its numbers still makes a pair with
\* an end that has none: FEC is on, and either both numbers are the user's or both are
\* the defaults; what the carrier uses is what Load filled in, but for the MTU,
\* which kcp-go would refuse silently outside 512..1400.
FecAgrees ==
    Idle /\ file \notin {Cut, Torn} =>
        \A d, r, u \in KCPNumbers :
            LET k == [mode |-> "", data |-> d, parity |-> r, mtu |-> u, window |-> 0]
                c == Normalized([file EXCEPT !.kcp = k, !.transport = "kcp"])
                n == NormKCP(c.kcp)
            IN /\ n.data > 0 /\ n.parity > 0 /\ n.mtu \in 512 .. 1400
               /\ <<n.data, n.parity>> \in {<<d, r>>, <<DefaultKCP.data, DefaultKCP.parity>>}
               /\ n = NormKCP(k) /\ [n EXCEPT !.mtu = 0] = [c.kcp EXCEPT !.mtu = 0]

\* The two files the wizard writes from one set of answers both load and start two ends
\* that fit together exactly if the answers are Sensible; the wizard asks for no more
\* than it says of an address and a path, and takes the others too.
WizardPairFits ==
    \A i \in Caller : pc[i] = "answer" =>
        \A d \in Answers : LET s == BuildServer(d) c == BuildClient(d)
                           IN (Loads(s) /\ Loads(c) /\ Fit(Normalized(s), Normalized(c))) <=> Sensible(d)
=============================================================================
