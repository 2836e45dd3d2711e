-------------------------- MODULE GameLaunchProofs --------------------------
(***************************************************************************)
(* From the list to the program, proved for any partitions, games, discs   *)
(* and room for arguments.  The parts follow one another, so the invariant *)
(* has one conjunct for each: Handoff for the launch itself, Gem for the   *)
(* id, List for the game lists; each is kept by the steps of its own part  *)
(* and, trivially, by those of the others.                                 *)
(***************************************************************************)
EXTENDS GameLaunch, TLAPS

OnTheWay == {"execps2", "keepiop", "file", "reboot", "hddback", "embedded", "reset", "child", "load", "loaded"}
InChild  == {"child", "load", "loaded"}
Checked  == {"embedded"} \union InChild

\* The slots and the keep mask.  Only the drive's own launches leave a slot to an IOP reset: what
\* the mask keeps under a program of another device is what POPSLoader was booted from.
Slotted ==
  /\ mount \in [Slots -> Parts \union {NoPart}] /\ mask \subseteq Slots
  /\ boot # NoPart => hdd
  /\ pc = "reboot" /\ ~OnDrive(job.path) => mask = {}
  /\ pc = "reset" => \A s \in Slots : mount[s] = NoPart

\* The path of a launch and the partition it names.
Routed ==
  /\ job.path \in Paths /\ asked.path \in Paths /\ job.ctx \in Parts \union {NoPart}
  /\ pc \in OnTheWay \ {"execps2"} => job.path.dev # "hdd"
  /\ pc \in {"hddback"} => OnDrive(job.path)
  /\ pc \in {"keepiop", "file"} => job.ctx = NoPart
  /\ pc = "file" => job.tool = "boot" /\ job.path.dev = "card"
  /\ job.ctx # NoPart /\ pc \in {"reboot", "hddback"} =>
       OnDrive(job.path) /\ job.path.part = job.ctx /\ \A s \in Slots : mount[s] = NoPart
  /\ job.ctx # NoPart /\ pc \in Checked =>
       /\ OnDrive(job.path) /\ job.path.slot = 0 /\ mount[0] = job.path.part
       /\ \A s \in Slots \ {0} : mount[s] = NoPart
  /\ job.ctx = NoPart /\ pc \in OnTheWay \ {"execps2", "reset"} => Mounted(job.path)
  /\ pc \in Checked => Place(job.path) \in has
  /\ job.ctx = NoPart /\ pc = "hddback" => Place(job.path) \in has

\* What the program is told.
Told ==
  /\ job.size \in Sizes \union {0}
  /\ pc \in OnTheWay => (job.child <=> pc \in InChild)
  /\ pc \in {"execps2", "keepiop", "reboot", "hddback", "reset"} => job.argv = asked.argv /\ asked.argv # <<>>
  /\ pc \in {"reboot", "reset"} /\ job.tool = "dkwdrv" => asked.argv = <<"path">>
  /\ pc = "file" => asked.argv = <<>>
  /\ pc \in Checked \union {"target"} => job.argv = IF asked.argv = <<>> THEN <<"path">> ELSE asked.argv

\* Launches only go on in their own part.
Apart == stage # "launch" => pc = "menu" /\ mask = {}

\* A program that came from the drive finds it as promised.
Started ==
  pc = "target" /\ job.child /\ OnDrive(job.path) =>
    IF job.ctx # NoPart THEN \A s \in Slots : mount[s] = NoPart ELSE mount[job.path.slot] = job.path.part

Handoff == job \in Jobs /\ asked \in Jobs /\ Slotted /\ Routed /\ Told /\ Started /\ Apart

-----------------------------------------------------------------------------
(* The launch: paths, then one lemma per action.                           *)

LEMMA PathFacts ==
  /\ \A p \in Paths : /\ p.slot \in Slots /\ p.part \in Parts \union {NoPart}
                      /\ OnDrive(p) => p.part \in Parts
                      /\ ~OnDrive(p) => p.dev \in Stores /\ p.part = NoPart
  /\ \A s \in Slots, p \in Parts : Pfs(s, p) \in Paths /\ OnDrive(Pfs(s, p))
  /\ NoPart \notin Parts
  BY HandoffAssumption DEF HandoffAssumption, Paths, OnDrive, Pfs, Stores, Slots

LEMMA PathParts == ASSUME NEW p \in Paths PROVE p.slot \in Slots /\ (OnDrive(p) => p.part \in Parts)
  BY DEF Paths, OnDrive, Stores, Slots

LEMMA AsPfs ==
  ASSUME NEW p \in Paths, OnDrive(p)
  PROVE  /\ [p EXCEPT !.dev = "pfs"] = Pfs(p.slot, p.part)
         /\ Pfs(p.slot, p.part) \in Paths /\ OnDrive(Pfs(p.slot, p.part))
         /\ Pfs(p.slot, p.part).dev = "pfs" /\ Pfs(p.slot, p.part).part = p.part
<1>1. p \in [dev : {"pfs", "hdd"}, slot : Slots, part : Parts]
  BY DEF Paths, OnDrive, Stores
<1> QED
  BY <1>1, PathFacts DEF Pfs

LEMMA DrivenFacts == \A p \in Driven : p \in Paths /\ p.slot \in Slots /\ OnDrive(p) /\ Mounted(p) /\ p.part \in Parts
<1> TAKE p \in Driven
<1>1. p \in Paths /\ OnDrive(p) /\ Mounted(p)
  BY DEF Driven
<1>2. p.slot \in Slots
  BY <1>1, PathParts
<1>3. p.part \in Parts
  BY <1>1, PathParts
<1> QED
  BY <1>1, <1>2, <1>3

Argv == Seq({"", "selector", "path", "name"})

LEMMA Tuples == ASSUME NEW S, NEW a \in S, NEW b \in S PROVE <<a>> \in Seq(S) /\ <<a, b>> \in Seq(S) /\ <<>> \in Seq(S)
<1>1. <<a>> \in Seq(S)
  OBVIOUS
<1>2. <<a, b>> \in Seq(S)
  OBVIOUS
<1> QED
  BY <1>1, <1>2

LEMMA Arguments == <<"path">> \in Argv /\ <<"selector">> \in Argv /\ <<"path", "name">> \in Argv /\ <<>> \in Argv
<1> DEFINE N == {"", "selector", "path", "name"}
<1>1. "path" \in N /\ "selector" \in N /\ "name" \in N
  OBVIOUS
<1> HIDE DEF N
<1>2. <<"path">> \in Seq(N) /\ <<"selector">> \in Seq(N) /\ <<"path", "name">> \in Seq(N) /\ <<>> \in Seq(N)
  BY <1>1, Tuples
<1> QED
  BY <1>2 DEF Argv, N

SameButArgv(k, j) ==
  k \in Jobs /\ k.path = j.path /\ k.ctx = j.ctx /\ k.tool = j.tool /\ k.size = j.size /\ k.child = j.child

LEMMA Renamed == ASSUME NEW j \in Jobs, NEW a \in Argv
                 PROVE  SameButArgv([j EXCEPT !.argv = a], j) /\ [j EXCEPT !.argv = a].argv = a
  BY DEF Jobs, Argv, SameButArgv

LEMMA Sent == ASSUME NEW j \in Jobs
              PROVE  LET k == [j EXCEPT !.child = TRUE]
                     IN k \in Jobs /\ k.path = j.path /\ k.ctx = j.ctx /\ k.tool = j.tool /\ k.size = j.size /\ k.argv = j.argv
  BY DEF Jobs

LEMMA MountStep == \A s \in Slots, p \in Parts : Handoff /\ stage' = stage /\ Mount(s, p) => Handoff'
  BY PathFacts DEF Mount, Handoff, Slotted, Routed, Told, Started, Apart, World, Machine, OnTheWay, InChild, Checked,
     OnDrive, Place, Mounted, Slots

LEMMA UnmountStep == \A s \in Slots : Handoff /\ stage' = stage /\ Unmount(s) => Handoff'
  BY PathFacts DEF Unmount, Handoff, Slotted, Routed, Told, Started, Apart, World, Machine, OnTheWay, InChild, Checked,
     OnDrive, Place, Mounted, Slots

LEMMA OpenHddPageStep == Handoff /\ stage' = stage /\ OpenHddPage => Handoff'
  BY PathFacts DEF OpenHddPage, Handoff, Slotted, Routed, Told, Started, Apart, Machine, OnTheWay, InChild, Checked,
     OnDrive, Place, Mounted, Slots

LEMMA BackStep == Handoff /\ stage' = stage /\ Back => Handoff'
<1> SUFFICES ASSUME Handoff, stage' = stage, Back PROVE Handoff'
  OBVIOUS
<1> USE PathFacts DEF Back, World, Machine, OnTheWay, InChild, Checked, OnDrive, Place, Mounted, Slots
<1>1. job' \in Jobs /\ asked' \in Jobs
  BY DEF Handoff, Jobs
<1>2. Slotted'
  BY DEF Handoff, Slotted, Jobs
<1>3. Routed'
  BY DEF Handoff, Slotted, Routed, Jobs
<1>4. Told'
  BY DEF Handoff, Told, Routed, Jobs
<1>5. Started'
  BY DEF Handoff, Slotted, Routed, Told, Started, Jobs
<1>6. Apart'
  BY DEF Handoff, Apart
<1> QED
  BY <1>1, <1>2, <1>3, <1>4, <1>5, <1>6 DEF Handoff

LEMMA HddBackedStep == Handoff /\ stage = "launch" /\ stage' = stage /\ HddBacked => Handoff'
<1> SUFFICES ASSUME Handoff, stage = "launch", stage' = stage, HddBacked PROVE Handoff'
  OBVIOUS
<1> DEFINE part == IF job.ctx = NoPart /\ job.path.dev = "hdd" THEN job.path.part ELSE job.ctx
           moved == [job EXCEPT !.ctx = part, !.path = Pfs(0, part)]
<1>1. job \in Jobs /\ job.path \in Paths /\ part = job.ctx /\ part \in Parts \union {NoPart}
  BY DEF Handoff, Routed, HddBacked, OnTheWay
<1>2. part # NoPart =>
        /\ moved \in Jobs /\ moved.path = Pfs(0, part) /\ moved.ctx = part
        /\ moved.argv = job.argv /\ moved.size = job.size /\ moved.child = job.child
  <2> HIDE DEF part
  <2>1. part # NoPart => Pfs(0, part) \in Paths
    BY <1>1, PathFacts DEF Slots
  <2> QED
    BY <1>1, <2>1 DEF Jobs
<1>3. CASE part = NoPart
  BY <1>1, <1>3, PathFacts DEF HddBacked, Return, GoTo, Handoff, Slotted, Routed, Told, Started, Apart, World, Machine,
     OnTheWay, InChild, Checked, OnDrive, Place, Mounted, Slots
<1>4. CASE part # NoPart /\ pc' = "back"
  <2>1. pc' = "back" /\ mask' = {} /\ mount' \in [Slots -> Parts \union {NoPart}] /\ UNCHANGED <<World, job, asked, stage>>
    BY <1>1, <1>4 DEF HddBacked, Return, GoTo, MountForExec, World, Handoff, Slotted
  <2> QED
    BY <2>1 DEF Handoff, Slotted, Routed, Told, Started, Apart, World, OnTheWay, InChild, Checked, OnDrive
<1>5. CASE part # NoPart /\ pc' # "back"
  <2>1. /\ pc = "hddback" /\ pc' = "embedded" /\ job' = moved /\ mount'[0] = part /\ part \in has
        /\ \E ok \in BOOLEAN : MountForExec(part, 0, ok)
        /\ UNCHANGED <<has, boot, hdd, mask, asked, stage>>
    BY <1>5 DEF HddBacked, Return, GoTo, World
  <2>2. mount' \in [Slots -> Parts \union {NoPart}] /\ \A s \in Slots \ {0} : mount'[s] = NoPart
    BY <1>1, <1>5, <2>1 DEF MountForExec, Handoff, Slotted, Routed, Slots
  <2> QED
    BY <1>1, <1>2, <1>5, <2>1, <2>2, PathFacts DEF Handoff, Slotted, Routed, Told, Started, Apart, OnTheWay, InChild,
       Checked, Place, Mounted, Slots, Pfs
<1> QED
  BY <1>3, <1>4, <1>5

LEMMA ExecPS2DirectStep == Handoff /\ stage = "launch" /\ stage' = stage /\ ExecPS2Direct => Handoff'
  BY PathFacts DEF ExecPS2Direct, Return, Run, Handoff, Slotted, Routed, Told, Started, Apart, World, Machine, OnTheWay,
     InChild, Checked, OnDrive, Place, Mounted, Slots

LEMMA FromFileStep == Handoff /\ stage = "launch" /\ stage' = stage /\ FromFile => Handoff'
<1> SUFFICES ASSUME Handoff, stage = "launch", stage' = stage, FromFile PROVE Handoff'
  OBVIOUS
<1> USE PathFacts DEF FromFile, Return, Run, GoTo, BesideItself, Readable, World, Machine, OnTheWay, InChild, Checked, OnDrive, Place, Mounted, Slots
<1>1. /\ job' \in Jobs /\ asked' \in Jobs /\ job \in Jobs
      /\ job'.path = job.path /\ job'.ctx = job.ctx /\ job'.tool = job.tool /\ job'.size = job.size
  <2>1. job \in Jobs /\ asked' \in Jobs /\ <<"path">> \in Argv
    BY Arguments DEF Handoff
  <2>2. SameButArgv([job EXCEPT !.argv = <<"path">>], job)
    BY <2>1, Renamed
  <2> QED
    BY <2>1, <2>2 DEF SameButArgv
<1>2. Slotted'
  BY DEF Handoff, Slotted, Jobs
<1>3. Routed'
  BY <1>1 DEF Handoff, Slotted, Routed
<1>4. Told'
  BY DEF Handoff, Told, Routed, Jobs
<1>5. Started'
  BY DEF Handoff, Slotted, Routed, Told, Started, Jobs
<1>6. Apart'
  BY DEF Handoff, Apart
<1> QED
  BY <1>1, <1>2, <1>3, <1>4, <1>5, <1>6 DEF Handoff

LEMMA KeepIOPStep == Handoff /\ stage = "launch" /\ stage' = stage /\ KeepIOP => Handoff'
<1> SUFFICES ASSUME Handoff, stage = "launch", stage' = stage, KeepIOP PROVE Handoff'
  OBVIOUS
<1> USE PathFacts DEF KeepIOP, Return, GoTo, Readable, World, Machine, OnTheWay, InChild, Checked, OnDrive, Place, Mounted, Slots
<1>1. job' = job /\ asked' = asked /\ job \in Jobs /\ asked \in Jobs
  BY DEF Handoff
<1>2. Slotted'
  BY <1>1 DEF Handoff, Slotted, Routed
<1>3. Routed'
  BY <1>1 DEF Handoff, Slotted, Routed
<1>4. Told'
  BY <1>1 DEF Handoff, Told, Routed
<1>5. Started'
  BY <1>1 DEF Handoff, Started
<1>6. Apart'
  BY <1>1 DEF Handoff, Apart
<1> QED
  BY <1>1, <1>2, <1>3, <1>4, <1>5, <1>6 DEF Handoff

LEMMA RebootIOPStep == Handoff /\ stage = "launch" /\ stage' = stage /\ RebootIOP => Handoff'
<1> SUFFICES ASSUME Handoff, stage = "launch", stage' = stage, RebootIOP PROVE Handoff'
  OBVIOUS
<1> USE PathFacts DEF RebootIOP, UnmountForExec, Return, GoTo, Readable, World, Machine, OnTheWay, InChild, Checked, OnDrive, Place, Mounted, Slots
<1>1. job' = job /\ asked' = asked /\ job \in Jobs /\ asked \in Jobs
  BY DEF Handoff
<1>2. Slotted'
  BY <1>1 DEF Handoff, Slotted, Routed
<1>3. Routed'
  BY <1>1 DEF Handoff, Slotted, Routed
<1>4. Told'
  BY <1>1 DEF Handoff, Told, Routed
<1>5. Started'
  BY <1>1 DEF Handoff, Started
<1>6. Apart'
  BY <1>1 DEF Handoff, Apart
<1> QED
  BY <1>1, <1>2, <1>3, <1>4, <1>5, <1>6 DEF Handoff

LEMMA ResetAndRunStep == Handoff /\ stage = "launch" /\ stage' = stage /\ ResetAndRun => Handoff'
<1> SUFFICES ASSUME Handoff, stage = "launch", stage' = stage, ResetAndRun PROVE Handoff'
  OBVIOUS
<1> USE PathFacts DEF ResetAndRun, Run, World, Machine, OnTheWay, InChild, Checked, OnDrive, Place, Mounted, Slots
<1>1. /\ job' \in Jobs /\ asked' \in Jobs /\ job \in Jobs
      /\ job'.path = job.path /\ job'.ctx = job.ctx /\ job'.tool = job.tool /\ job'.size = job.size
  <2> DEFINE a == IF job.tool = "dkwdrv" THEN <<"path">> ELSE job.argv
  <2>1. job \in Jobs /\ asked' \in Jobs /\ <<"path">> \in Argv
    BY Arguments DEF Handoff
  <2>2. a \in Argv
    BY <2>1 DEF Jobs, Argv
  <2> HIDE DEF a
  <2>3. SameButArgv([job EXCEPT !.argv = a], job)
    BY <2>1, <2>2, Renamed
  <2>4. job' = job \/ job' = [job EXCEPT !.argv = a]
    BY DEF a
  <2> QED
    BY <2>1, <2>3, <2>4 DEF SameButArgv
<1>2. Slotted'
  BY DEF Handoff, Slotted, Jobs
<1>3. Routed'
  BY <1>1 DEF Handoff, Slotted, Routed
<1>4. Told'
  BY DEF Handoff, Told, Routed, Jobs
<1>5. Started'
  BY DEF Handoff, Slotted, Routed, Told, Started, Jobs
<1>6. Apart'
  BY DEF Handoff, Apart
<1> QED
  BY <1>1, <1>2, <1>3, <1>4, <1>5, <1>6 DEF Handoff

LEMMA EmbeddedStep == Handoff /\ stage = "launch" /\ stage' = stage /\ Embedded => Handoff'
<1> SUFFICES ASSUME Handoff, stage = "launch", stage' = stage, Embedded PROVE Handoff'
  OBVIOUS
<1> USE PathFacts DEF Embedded, Return, World, Machine, OnTheWay, InChild, Checked, OnDrive, Place, Mounted, Slots
<1>1. /\ job' \in Jobs /\ asked' \in Jobs /\ job \in Jobs
      /\ job'.path = job.path /\ job'.ctx = job.ctx /\ job'.tool = job.tool /\ job'.size = job.size
  BY Sent DEF Handoff
<1>2. Slotted'
  BY DEF Handoff, Slotted, Jobs
<1>3. Routed'
  BY <1>1 DEF Handoff, Slotted, Routed
<1>4. Told'
  BY DEF Handoff, Told, Routed, Jobs
<1>5. Started'
  BY DEF Handoff, Slotted, Routed, Told, Started, Jobs
<1>6. Apart'
  BY DEF Handoff, Apart
<1> QED
  BY <1>1, <1>2, <1>3, <1>4, <1>5, <1>6 DEF Handoff

LEMMA ChildMainStep == Handoff /\ stage = "launch" /\ stage' = stage /\ ChildMain => Handoff'
<1> SUFFICES ASSUME Handoff, stage = "launch", stage' = stage, ChildMain PROVE Handoff'
  OBVIOUS
<1> USE PathFacts DEF ChildMain, Die, World, Machine, OnTheWay, InChild, Checked, OnDrive, Place, Mounted, Slots
<1>1. /\ job' \in Jobs /\ asked' \in Jobs /\ job \in Jobs
      /\ job'.path = job.path /\ job'.ctx = job.ctx /\ job'.tool = job.tool /\ job'.size = job.size
  <2> DEFINE a == IF job.argv = <<>> THEN <<"path">> ELSE job.argv
  <2>1. job \in Jobs /\ asked' \in Jobs /\ <<"path">> \in Argv
    BY Arguments DEF Handoff
  <2>2. a \in Argv
    BY <2>1 DEF Jobs, Argv
  <2> HIDE DEF a
  <2>3. SameButArgv([job EXCEPT !.argv = a], job)
    BY <2>1, <2>2, Renamed
  <2>4. job' = job \/ job' = [job EXCEPT !.argv = a]
    BY DEF a
  <2> QED
    BY <2>1, <2>3, <2>4 DEF SameButArgv
<1>2. Slotted'
  BY DEF Handoff, Slotted, Jobs
<1>3. Routed'
  BY <1>1 DEF Handoff, Slotted, Routed
<1>4. Told'
  BY DEF Handoff, Told, Routed, Jobs
<1>5. Started'
  BY DEF Handoff, Slotted, Routed, Told, Started, Jobs
<1>6. Apart'
  BY DEF Handoff, Apart
<1> QED
  BY <1>1, <1>2, <1>3, <1>4, <1>5, <1>6 DEF Handoff

LEMMA ChildLoadStep == Handoff /\ stage = "launch" /\ stage' = stage /\ ChildLoad => Handoff'
<1> SUFFICES ASSUME Handoff, stage = "launch", stage' = stage, ChildLoad PROVE Handoff'
  OBVIOUS
<1> USE PathFacts DEF ChildLoad, Die, Readable, World, Machine, OnTheWay, InChild, Checked, OnDrive, Place, Mounted, Slots
<1>1. /\ job' \in Jobs /\ asked' \in Jobs /\ job \in Jobs
      /\ job'.path = job.path /\ job'.ctx = job.ctx /\ job'.tool = job.tool /\ job'.size = job.size
  BY DEF Handoff
<1>2. Slotted'
  BY DEF Handoff, Slotted, Jobs
<1>3. Routed'
  BY <1>1 DEF Handoff, Slotted, Routed
<1>4. Told'
  BY DEF Handoff, Told, Routed, Jobs
<1>5. Started'
  BY DEF Handoff, Slotted, Routed, Told, Started, Jobs
<1>6. Apart'
  BY DEF Handoff, Apart
<1> QED
  BY <1>1, <1>2, <1>3, <1>4, <1>5, <1>6 DEF Handoff

LEMMA ChildRunStep == Handoff /\ stage = "launch" /\ stage' = stage /\ ChildRun => Handoff'
<1> SUFFICES ASSUME Handoff, stage = "launch", stage' = stage, ChildRun PROVE Handoff'
  OBVIOUS
<1> USE PathFacts DEF ChildRun, World, Machine, OnTheWay, InChild, Checked, OnDrive, Place, Mounted, Slots
<1>1. job' \in Jobs /\ asked' \in Jobs
  BY DEF Handoff, Jobs
<1>2. Slotted'
  BY DEF Handoff, Slotted, Jobs
<1>3. Routed'
  BY DEF Handoff, Slotted, Routed, Jobs
<1>4. Told'
  BY DEF Handoff, Told, Routed, Jobs
<1>5. Started'
  BY DEF Handoff, Slotted, Routed, Told, Started, Jobs
<1>6. Apart'
  BY DEF Handoff, Apart
<1> QED
  BY <1>1, <1>2, <1>3, <1>4, <1>5, <1>6 DEF Handoff

\* A launch as the binding hands it to C.
Handed(to, tool, p, ctx, argv) ==
  /\ job' \in Jobs /\ asked' \in Jobs /\ pc' = to /\ UNCHANGED <<has, boot, hdd>>
  /\ job'.tool = tool /\ job'.path = p /\ job'.ctx = ctx /\ job'.argv = argv /\ job'.size \in Sizes /\ ~job'.child
  /\ asked'.argv = argv /\ asked'.path = p

LEMMA CallHands ==
  ASSUME NEW to, NEW tool \in Tools, NEW p \in Paths, NEW ctx \in Parts \union {NoPart}, NEW argv \in Argv,
         Call(to, tool, p, ctx, argv)
  PROVE  Handed(to, tool, p, ctx, argv)
<1>1. PICK n \in Sizes :
        job' = [tool |-> tool, path |-> p, ctx |-> ctx, argv |-> argv, size |-> n, child |-> FALSE]
  BY DEF Call
<1>2. job' \in Jobs
  BY <1>1, HandoffAssumption DEF HandoffAssumption, Jobs, Argv
<1>3. asked' = job' /\ pc' = to /\ UNCHANGED <<has, boot, hdd>>
  BY DEF Call, World
<1>4. job'.tool = tool /\ job'.path = p /\ job'.ctx = ctx /\ job'.argv = argv /\ job'.size = n /\ job'.child = FALSE
  BY <1>1
<1> QED
  BY <1>2, <1>3, <1>4 DEF Handed

\* What the preparations leave mounted.
LEMMA ColdSlots == Cold => mount' \in [Slots -> Parts \union {NoPart}] /\ mask' = {} /\ \A s \in Slots : mount'[s] = NoPart
  BY DEF Cold

LEMMA WarmSlots ==
  ASSUME NEW p \in Paths, Slotted, Warm(p)
  PROVE  /\ mount' \in [Slots -> Parts \union {NoPart}] /\ mask' \subseteq Slots
         /\ Mounted(p) /\ p.dev = "pfs" => mount'[p.slot] = p.part
         /\ boot = NoPart /\ ~OnDrive(p) => mask' = {}
<1>1. p.slot \in Slots /\ BootKeeps(p) \subseteq Slots
  <2>1. BootKeeps(p) \subseteq Slots
    BY DEF BootKeeps, BootSlot, Slots
  <2> QED
    BY <2>1, PathParts
<1>2. mask' \subseteq Slots /\ mount' = [s \in Slots |-> IF s \in mask' THEN mount[s] ELSE NoPart]
  BY <1>1 DEF Warm
<1>3. (OnDrive(p) => p.slot \in mask') /\ (boot = NoPart /\ ~OnDrive(p) => mask' = {})
  BY DEF Warm, BootKeeps
<1> QED
  BY <1>1, <1>2, <1>3 DEF Slotted, Mounted, OnDrive

\* Slots and path of such a launch are as its route needs them.
Proper(to, tool, p, ctx, argv) ==
  /\ mount' \in [Slots -> Parts \union {NoPart}] /\ mask' \subseteq Slots
  /\ p \in Paths /\ ctx \in Parts \union {NoPart}
  /\ to # "execps2" => p.dev # "hdd"
  /\ to \in {"keepiop", "file"} => ctx = NoPart
  /\ to = "file" => tool = "boot" /\ p.dev = "card"
  /\ to = "file" <=> argv = <<>>
  /\ tool = "dkwdrv" => argv = <<"path">>
  /\ to = "reboot" /\ ~OnDrive(p) => mask' = {}
  /\ to = "reboot" /\ ctx # NoPart => OnDrive(p) /\ p.part = ctx /\ \A s \in Slots : mount'[s] = NoPart
  /\ to # "execps2" /\ ctx = NoPart /\ p.dev = "pfs" => mount'[p.slot] = p.part

LEMMA Taken ==
  ASSUME Handoff, stage = "launch", stage' = stage,
         NEW to \in {"execps2", "file", "keepiop", "reboot"}, NEW tool, NEW p, NEW ctx, NEW argv,
         Handed(to, tool, p, ctx, argv), Proper(to, tool, p, ctx, argv)
  PROVE  Handoff'
<1> USE DEF Handed, Proper
<1>1. Slotted'
  BY DEF Handoff, Slotted
<1>2. Routed'
  BY DEF Routed, OnTheWay, Checked, InChild, Mounted, OnDrive
<1>3. Told'
  BY DEF Told, OnTheWay, Checked, InChild
<1> QED
  BY <1>1, <1>2, <1>3 DEF Handoff, Started, Apart

LEMMA PopstarterStep == Handoff /\ stage = "launch" /\ stage' = stage /\ LaunchPopstarter => Handoff'
<1> SUFFICES ASSUME Handoff, stage = "launch", stage' = stage, LaunchPopstarter PROVE Handoff'
  OBVIOUS
<1>1. /\ pc = "menu" /\ Slotted /\ NoPart \in Parts \union {NoPart}
      /\ "popstarter" \in Tools /\ <<"selector">> \in Argv /\ <<"selector">> # <<>>
  BY Arguments DEF LaunchPopstarter, Asking, Tools, Handoff
<1>2. ASSUME NEW p \in Stored, Warm(p), NEW to \in {"execps2", "keepiop"},
             Call(to, "popstarter", p, NoPart, <<"selector">>)
      PROVE  Handoff'
  <2>1. p \in Paths /\ ~OnDrive(p)
    BY <1>2, PathFacts DEF Stored
  <2>2. Handed(to, "popstarter", p, NoPart, <<"selector">>)
    BY <1>1, <1>2, <2>1, CallHands
  <2>3. Proper(to, "popstarter", p, NoPart, <<"selector">>)
    BY <1>1, <1>2, <2>1, WarmSlots, PathFacts DEF Proper, OnDrive, Handoff, Slotted
  <2> QED
    BY <2>2, <2>3, Taken
<1>3. ASSUME NEW p \in Driven, p.dev = "pfs", Cold,
             Call("reboot", "popstarter", p, p.part, <<"selector">>)
      PROVE  Handoff'
  <2>1. p \in Paths /\ OnDrive(p) /\ Mounted(p) /\ p.part \in Parts
    BY DrivenFacts
  <2>2. Handed("reboot", "popstarter", p, p.part, <<"selector">>)
    BY <1>1, <1>3, <2>1, CallHands
  <2>3. Proper("reboot", "popstarter", p, p.part, <<"selector">>)
    BY <1>1, <1>3, <2>1, ColdSlots, PathFacts DEF Proper, OnDrive, Handoff, Slotted
  <2> QED
    BY <2>2, <2>3, Taken
<1>4. ASSUME NEW p \in Driven, p.dev = "pfs", Warm(p),
             Call("reboot", "popstarter", p, NoPart, <<"selector">>)
      PROVE  Handoff'
  <2>1. p \in Paths /\ OnDrive(p) /\ Mounted(p) /\ p.part \in Parts
    BY DrivenFacts
  <2>2. Handed("reboot", "popstarter", p, NoPart, <<"selector">>)
    BY <1>1, <1>4, <2>1, CallHands
  <2>3. Proper("reboot", "popstarter", p, NoPart, <<"selector">>)
    BY <1>1, <1>4, <2>1, WarmSlots, PathFacts DEF Proper, OnDrive, Handoff, Slotted
  <2> QED
    BY <2>2, <2>3, Taken
<1> QED
  BY <1>2, <1>3, <1>4 DEF LaunchPopstarter

LEMMA DkwdrvStep == Handoff /\ stage = "launch" /\ stage' = stage /\ LaunchDkwdrv => Handoff'
<1> SUFFICES ASSUME Handoff, stage = "launch", stage' = stage, LaunchDkwdrv PROVE Handoff'
  OBVIOUS
<1>1. /\ pc = "menu" /\ Slotted /\ NoPart \in Parts \union {NoPart}
      /\ "dkwdrv" \in Tools /\ <<"path">> \in Argv /\ <<"path">> # <<>>
  BY Arguments DEF LaunchDkwdrv, Asking, Tools, Handoff
<1>2. ASSUME NEW p \in Stored, Cold,
             Call("execps2", "dkwdrv", p, NoPart, <<"path">>)
      PROVE  Handoff'
  <2>1. p \in Paths /\ ~OnDrive(p)
    BY <1>2, PathFacts DEF Stored
  <2>2. Handed("execps2", "dkwdrv", p, NoPart, <<"path">>)
    BY <1>1, <1>2, <2>1, CallHands
  <2>3. Proper("execps2", "dkwdrv", p, NoPart, <<"path">>)
    BY <1>1, <1>2, <2>1, ColdSlots, PathFacts DEF Proper, OnDrive, Handoff, Slotted
  <2> QED
    BY <2>2, <2>3, Taken
<1>3. ASSUME NEW p \in Driven, Cold,
             Call("reboot", "dkwdrv", [p EXCEPT !.dev = "pfs"], p.part, <<"path">>)
      PROVE  Handoff'
  <2> DEFINE q == Pfs(p.slot, p.part)
  <2>1. p \in Paths /\ p.slot \in Slots /\ OnDrive(p) /\ p.part \in Parts
    BY DrivenFacts
  <2>2. [p EXCEPT !.dev = "pfs"] = q /\ q \in Paths /\ q.dev = "pfs" /\ q.part = p.part /\ OnDrive(q)
    BY <2>1, AsPfs
  <2> HIDE DEF q
  <2>3. Handed("reboot", "dkwdrv", q, p.part, <<"path">>)
    BY <1>1, <1>3, <2>1, <2>2, CallHands
  <2>4. Proper("reboot", "dkwdrv", q, p.part, <<"path">>)
    BY <1>1, <1>3, <2>1, <2>2, ColdSlots, PathFacts DEF Proper
  <2> QED
    BY <2>3, <2>4, Taken
<1>4. ASSUME NEW p \in Driven, Warm(p),
             Call("execps2", "dkwdrv", p, NoPart, <<"path">>)
      PROVE  Handoff'
  <2>1. p \in Paths /\ OnDrive(p) /\ Mounted(p) /\ p.part \in Parts
    BY DrivenFacts
  <2>2. Handed("execps2", "dkwdrv", p, NoPart, <<"path">>)
    BY <1>1, <1>4, <2>1, CallHands
  <2>3. Proper("execps2", "dkwdrv", p, NoPart, <<"path">>)
    BY <1>1, <1>4, <2>1, WarmSlots, PathFacts DEF Proper, OnDrive, Handoff, Slotted
  <2> QED
    BY <2>2, <2>3, Taken
<1>5. ASSUME NEW p \in Stored, ~hdd, Warm(p),
             Call("reboot", "dkwdrv", p, NoPart, <<"path">>)
      PROVE  Handoff'
  <2>1. p \in Paths /\ ~OnDrive(p)
    BY <1>5, PathFacts DEF Stored
  <2>2. Handed("reboot", "dkwdrv", p, NoPart, <<"path">>)
    BY <1>1, <1>5, <2>1, CallHands
  <2>3. Proper("reboot", "dkwdrv", p, NoPart, <<"path">>)
    BY <1>1, <1>5, <2>1, WarmSlots, PathFacts DEF Proper, OnDrive, Handoff, Slotted
  <2> QED
    BY <2>2, <2>3, Taken
<1> QED
  BY <1>2, <1>3, <1>4, <1>5 DEF LaunchDkwdrv

LEMMA BootElfStep == Handoff /\ stage = "launch" /\ stage' = stage /\ LaunchBootElf => Handoff'
<1> SUFFICES ASSUME Handoff, stage = "launch", stage' = stage, LaunchBootElf PROVE Handoff'
  OBVIOUS
<1>1. pc = "menu" /\ Slotted /\ "boot" \in Tools /\ <<>> \in Argv /\ NoPart \in Parts \union {NoPart}
  BY Arguments DEF LaunchBootElf, Asking, Tools, Handoff
<1>2. PICK p \in Stored : p.dev = "card" /\ (IF hdd THEN Cold ELSE Warm(p)) /\ Call("file", "boot", p, NoPart, <<>>)
  BY DEF LaunchBootElf
<1>3. p \in Paths /\ ~OnDrive(p)
  BY <1>2 DEF Stored
<1>4. Handed("file", "boot", p, NoPart, <<>>)
  BY <1>1, <1>2, <1>3, CallHands
<1>5. Proper("file", "boot", p, NoPart, <<>>)
  BY <1>1, <1>2, <1>3, ColdSlots, WarmSlots, PathFacts DEF Proper
<1> QED
  BY <1>4, <1>5, Taken

LEMMA EmberStep == Handoff /\ stage = "launch" /\ stage' = stage /\ LaunchEmber => Handoff'
<1> SUFFICES ASSUME Handoff, stage = "launch", stage' = stage, LaunchEmber PROVE Handoff'
  OBVIOUS
<1>1. /\ pc = "menu" /\ Slotted /\ NoPart \in Parts \union {NoPart}
      /\ "ember" \in Tools /\ <<"path", "name">> \in Argv /\ <<"path", "name">> # <<>>
  BY Arguments DEF LaunchEmber, Asking, Tools, Handoff
<1>2. ASSUME NEW p \in Stored, UNCHANGED <<mount, mask>>,
             Call("keepiop", "ember", p, NoPart, <<"path", "name">>)
      PROVE  Handoff'
  <2>1. p \in Paths /\ ~OnDrive(p)
    BY <1>2, PathFacts DEF Stored
  <2>2. Handed("keepiop", "ember", p, NoPart, <<"path", "name">>)
    BY <1>1, <1>2, <2>1, CallHands
  <2>3. Proper("keepiop", "ember", p, NoPart, <<"path", "name">>)
    BY <1>1, <1>2, <2>1, PathFacts DEF Proper, OnDrive, Handoff, Slotted
  <2> QED
    BY <2>2, <2>3, Taken
<1>3. ASSUME NEW p \in Driven, p.dev = "pfs", mask' = {p.slot}, UNCHANGED mount,
             Call("keepiop", "ember", p, NoPart, <<"path", "name">>)
      PROVE  Handoff'
  <2>1. p \in Paths /\ OnDrive(p) /\ Mounted(p) /\ p.part \in Parts
    BY DrivenFacts
  <2>2. Handed("keepiop", "ember", p, NoPart, <<"path", "name">>)
    BY <1>1, <1>3, <2>1, CallHands
  <2>3. Proper("keepiop", "ember", p, NoPart, <<"path", "name">>)
    BY <1>1, <1>3, <2>1, PathParts DEF Proper, OnDrive, Handoff, Slotted, Mounted
  <2> QED
    BY <2>2, <2>3, Taken
<1> QED
  BY <1>2, <1>3 DEF LaunchEmber

LEMMA HandoffStep == Handoff /\ stage = "launch" /\ stage' = stage /\ Next => Handoff'
  BY MountStep, UnmountStep, OpenHddPageStep, BackStep, ExecPS2DirectStep, FromFileStep, KeepIOPStep, RebootIOPStep,
     ResetAndRunStep, HddBackedStep, EmbeddedStep, ChildMainStep, ChildLoadStep, ChildRunStep, PopstarterStep,
     DkwdrvStep, BootElfStep, EmberStep DEF Next, Launch, Parent, Child

LEMMA PlacedStep == Handoff /\ stage = "leaving" /\ stage' = "launch" /\ Placed => Handoff'
<1> SUFFICES ASSUME Handoff, stage = "leaving", stage' = "launch", Placed PROVE Handoff'
  OBVIOUS
<1>1. pc = "menu" /\ pc' = "menu" /\ mask' = {} /\ UNCHANGED <<job, asked>>
  BY DEF Placed, Handoff, Apart
<1>2. mount' \in [Slots -> Parts \union {NoPart}] /\ (boot' # NoPart => hdd')
  BY DEF Placed
<1> QED
  BY <1>1, <1>2 DEF Handoff, Slotted, Routed, Told, Started, Apart, OnTheWay, InChild, Checked

LEMMA HandoffKept == Handoff /\ UNCHANGED vars /\ (stage = "launch" => stage' = "launch") => Handoff'
  BY DEF vars, Handoff, Slotted, Routed, Told, Started, Apart, Place, Mounted

LEMMA HandoffInit == LaunchInit => Handoff
<1> SUFFICES ASSUME LaunchInit PROVE Handoff
  OBVIOUS
<1> DEFINE card == [dev |-> "card", slot |-> 0, part |-> NoPart]
<1>1. card \in Paths /\ card.dev = "card" /\ <<>> \in Argv /\ 0 \in Nat
  BY Arguments DEF Paths, Stores
<1>2. job \in Jobs /\ asked \in Jobs /\ job.path = card /\ job.ctx = NoPart /\ job.size = 0 /\ asked.path = card
  BY <1>1 DEF LaunchInit, Jobs, Tools, Argv
<1> QED
  BY <1>1, <1>2 DEF LaunchInit, Handoff, Slotted, Routed, Told, Started, Apart, OnTheWay, InChild, Checked
-----------------------------------------------------------------------------
(* The id: what was looked at so far does not say what is still looked for. *)

Without(s, n, kinds) == \A i \in DOMAIN s : i < n => s[i] \notin kinds

\* The file that names the disc names no id.
Unnamed(d) == ~Named(d) \/ Positions(d.cnf, "id") = {}

\* An id that may be drawn.
Rightful ==
  \/ id = OwnId(disc)
  \/ err /\ id = <<"stamp">> /\ Described(disc) /\ disc.stamp
  \/ id = <<"name">> /\ titled /\ (err \/ OwnId(disc) = NoId)

Gem ==
  /\ disc \in Discs /\ at \in Nat \ {0} /\ drawn \in Nat /\ err \in BOOLEAN
  /\ step \in {"volume", "root", "cnf", "again", "name"} => drawn = 0
  /\ step \in {"volume", "root", "cnf"} => ~err
  /\ step \in {"volume", "again"} => Without(disc.volume, at, {"primary", "end"})
  /\ step = "root" => Described(disc) /\ Without(disc.root, at, {"cnf"})
  /\ step = "cnf"  => Named(disc) /\ Without(disc.cnf, at, {"id"})
  /\ step = "again" => err \/ Unnamed(disc)
  /\ step = "name"  => err \/ OwnId(disc) = NoId
  /\ step = "draw" \/ drawn > 0 => Rightful

LEMMA BoundedIsSeq == ASSUME NEW S, NEW n, NEW s \in BoundedSeq(S, n) PROVE s \in Seq(S)
  BY DEF BoundedSeq, SeqOf

LEMMA DiscFacts ==
  ASSUME NEW d \in Discs
  PROVE  /\ d.volume \in Seq({"primary", "other", "end"})
         /\ d.root \in Seq({"cnf", "files"}) /\ d.cnf \in Seq({"id", "exe", "other"})
  BY BoundedIsSeq DEF Discs

LEMMA WithoutNone ==
  ASSUME NEW d \in Discs, NEW kinds
  PROVE  Without(d.volume, 1, kinds) /\ Without(d.root, 1, kinds) /\ Without(d.cnf, 1, kinds)
<1>1. \A i \in DOMAIN d.volume : i \in Nat /\ i >= 1
  BY DiscFacts
<1>2. \A i \in DOMAIN d.root : i \in Nat /\ i >= 1
  BY DiscFacts
<1>3. \A i \in DOMAIN d.cnf : i \in Nat /\ i >= 1
  BY DiscFacts
<1> QED
  BY <1>1, <1>2, <1>3 DEF Without

LEMMA NothingIsDisc == Nothing \in Discs
<1>1. \A S : \A n \in Nat : <<>> \in BoundedSeq(S, n)
  <2> TAKE S
  <2> TAKE n \in Nat
  <2>1. 0 \in 0 .. n /\ <<>> \in [1 .. 0 -> S]
    OBVIOUS
  <2> QED
    BY <2>1 DEF BoundedSeq, SeqOf
<1> QED
  BY <1>1, GemAssumption DEF GemAssumption, Discs, Nothing

\* The search for the descriptor found one, or there is none to find.
LEMMA VolumeEnds ==
  ASSUME NEW d \in Discs, NEW n \in Nat \ {0}, Without(d.volume, n, {"primary", "end"})
  PROVE  LET kind == IF n > Len(d.volume) THEN "other" ELSE d.volume[n]
         IN /\ n > PvdSearch \/ kind = "end" => ~Described(d)
            /\ n <= PvdSearch /\ kind = "primary" => Described(d)
            /\ kind \notin {"primary", "end"} => Without(d.volume, n + 1, {"primary", "end"})
<1> USE DiscFacts, GemAssumption DEF GemAssumption
<1> DEFINE kind == IF n > Len(d.volume) THEN "other" ELSE d.volume[n]
<1>1. d.volume \in Seq({"primary", "other", "end"}) /\ DOMAIN d.volume = 1 .. Len(d.volume) /\ Len(d.volume) \in Nat
  OBVIOUS
<1>2. ASSUME n > PvdSearch \/ kind = "end" PROVE ~Described(d)
  <2> SUFFICES ASSUME NEW i \in Positions(d.volume, "primary"), i <= PvdSearch,
                      \A j \in Positions(d.volume, "end") : i < j
               PROVE  FALSE
    BY DEF Described
  <2>1. i \in DOMAIN d.volume /\ d.volume[i] = "primary" /\ i \in Nat
    BY <1>1 DEF Positions
  <2>2. ~(i < n)
    BY <2>1 DEF Without
  <2>3. kind = "end" /\ n <= i
    BY <1>2, <2>1, <2>2
  <2> QED
    BY <1>1, <2>1, <2>3 DEF Positions
<1>3. ASSUME n <= PvdSearch, kind = "primary" PROVE Described(d)
  <2>1. n \in Positions(d.volume, "primary")
    BY <1>1, <1>3 DEF Positions
  <2>2. ASSUME NEW j \in Positions(d.volume, "end") PROVE n < j
    <3>1. j \in DOMAIN d.volume /\ d.volume[j] = "end" /\ j \in Nat
      BY <1>1, <2>2 DEF Positions
    <3>2. ~(j < n) /\ j # n
      BY <1>3, <3>1 DEF Without
    <3> QED
      BY <3>1, <3>2
  <2> QED
    BY <1>3, <2>1, <2>2 DEF Described
<1>4. ASSUME kind \notin {"primary", "end"} PROVE Without(d.volume, n + 1, {"primary", "end"})
  BY <1>1, <1>4 DEF Without
<1> QED
  BY <1>2, <1>3, <1>4

LEMMA OpenImageStep == Gem /\ (\E d \in Images, t \in BOOLEAN : OpenImage(d, t)) => Gem'
<1> SUFFICES ASSUME Gem, NEW d \in Images, NEW t \in BOOLEAN, OpenImage(d, t) PROVE Gem'
  OBVIOUS
<1>1. disc' = d /\ d \in Discs /\ at' = 1 /\ drawn' = 0 /\ step' \in {"volume", "name"}
  BY ImagesAssumption DEF ImagesAssumption, OpenImage, Go
<1>3. err' \in BOOLEAN /\ (step' = "volume" => ~err') /\ (step' = "name" => err')
  BY Zenon DEF OpenImage, Go
<1>2. Without(disc'.volume, at', {"primary", "end"})
  BY <1>1, WithoutNone
<1> QED
  BY <1>1, <1>2, <1>3 DEF Gem

LEMMA FindVolumeStep == Gem /\ FindVolume => Gem'
<1> SUFFICES ASSUME Gem, FindVolume PROVE Gem'
  OBVIOUS
<1> USE DEF FindVolume, Still, Go, Unread
<1>1. disc \in Discs /\ at \in Nat \ {0} /\ Without(disc.volume, at, {"primary", "end"}) /\ drawn = 0 /\ ~err
  BY DEF Gem
<1>2. CASE Unread("again")
  BY <1>1, <1>2, WithoutNone DEF Gem
<1>3. CASE ~Unread("again")
  <2> DEFINE kind == IF at > Len(disc.volume) THEN "other" ELSE disc.volume[at]
  <2>1. /\ at > PvdSearch \/ kind = "end" => ~Described(disc)
        /\ at <= PvdSearch /\ kind = "primary" => Described(disc)
        /\ kind \notin {"primary", "end"} => Without(disc.volume, at + 1, {"primary", "end"})
    BY <1>1, VolumeEnds
  <2>2. UNCHANGED <<disc, drawn, err, id>> /\ Volume(Go("root", 1) /\ UNCHANGED <<err, id>>, "again")
    BY <1>3 DEF Volume
  <2>3. CASE at > PvdSearch \/ kind = "end"
    BY <1>1, <2>1, <2>2, <2>3, WithoutNone DEF Volume, Gem, Unnamed, Named
  <2>4. CASE ~(at > PvdSearch \/ kind = "end") /\ kind = "primary"
    <3>1. Described(disc)
      BY <1>1, <2>1, <2>4, GemAssumption DEF GemAssumption
    <3>2. step' = "root" /\ at' = 1 /\ ~err'
      BY <1>1, <2>2, <2>4 DEF Volume
    <3>3. Without(disc.root, 1, {"cnf"})
      BY <1>1, WithoutNone
    <3> QED
      BY <1>1, <2>2, <3>1, <3>2, <3>3 DEF Gem
  <2>5. CASE ~(at > PvdSearch \/ kind = "end") /\ kind # "primary"
    BY <1>1, <2>1, <2>2, <2>5 DEF Volume, Gem
  <2> QED
    BY <2>3, <2>4, <2>5
<1> QED
  BY <1>2, <1>3

LEMMA WalkRootStep == Gem /\ WalkRoot => Gem'
<1> SUFFICES ASSUME Gem, WalkRoot PROVE Gem'
  OBVIOUS
<1> USE DEF WalkRoot, Still, Go, Unread
<1>1. /\ disc \in Discs /\ at \in Nat \ {0} /\ Described(disc) /\ Without(disc.root, at, {"cnf"}) /\ drawn = 0 /\ ~err
      /\ disc.root \in Seq({"cnf", "files"}) /\ DOMAIN disc.root = 1 .. Len(disc.root) /\ Len(disc.root) \in Nat
  BY DiscFacts DEF Gem
<1>2. CASE at > Len(disc.root) \/ at > RootSectors
  <2>1. ~Named(disc)
    BY <1>1, <1>2, GemAssumption DEF GemAssumption, Named, Positions, Without
  <2>2. step' = "again" /\ at' = 1 /\ UNCHANGED <<disc, drawn, err>>
    BY <1>2
  <2>3. Without(disc.volume, 1, {"primary", "end"})
    BY <1>1, WithoutNone
  <2> QED
    BY <1>1, <2>1, <2>2, <2>3 DEF Gem, Unnamed
<1>3. CASE ~(at > Len(disc.root) \/ at > RootSectors) /\ Unread("again")
  <2>1. step' = "again" /\ at' = 1 /\ UNCHANGED <<disc, drawn>>
    BY <1>3
  <2>2. err'
    BY <1>3, Zenon
  <2>3. Without(disc.volume, 1, {"primary", "end"})
    BY <1>1, WithoutNone
  <2> HIDE DEF WalkRoot, Still, Go, Unread
  <2> QED
    BY <1>1, <2>1, <2>2, <2>3 DEF Gem
<1>4. CASE ~(at > Len(disc.root) \/ at > RootSectors) /\ ~Unread("again")
  <2>1. at \in DOMAIN disc.root /\ at <= RootSectors
    BY <1>1, <1>4, GemAssumption DEF GemAssumption
  <2>2. CASE disc.root[at] = "cnf"
    <3>1. Named(disc)
      BY <1>1, <2>1, <2>2 DEF Named, Positions
    <3>2. step' = "cnf" /\ at' = 1 /\ UNCHANGED <<disc, drawn, err>>
      BY <1>4, <2>2
    <3>3. Without(disc.cnf, 1, {"id"})
      BY <1>1, WithoutNone
    <3> HIDE DEF WalkRoot, Still, Go, Unread
    <3> QED
      BY <1>1, <3>1, <3>2, <3>3 DEF Gem
  <2>3. CASE disc.root[at] # "cnf"
    <3>1. step' = "root" /\ at' = at + 1 /\ UNCHANGED <<disc, drawn, err>>
      BY <1>4, <2>3
    <3>2. Without(disc.root, at + 1, {"cnf"})
      BY <1>1, <2>3 DEF Without
    <3> HIDE DEF WalkRoot, Still, Go, Unread
    <3> QED
      BY <1>1, <3>1, <3>2 DEF Gem
  <2> QED
    BY <2>2, <2>3
<1> QED
  BY <1>2, <1>3, <1>4

LEMMA ReadCnfStep == Gem /\ ReadCnf => Gem'
<1> SUFFICES ASSUME Gem, ReadCnf PROVE Gem'
  OBVIOUS
<1> USE DEF ReadCnf, Still, Go, Unread
<1>1. /\ disc \in Discs /\ at \in Nat \ {0} /\ Named(disc) /\ Without(disc.cnf, at, {"id"}) /\ drawn = 0 /\ ~err
      /\ disc.cnf \in Seq({"id", "exe", "other"}) /\ DOMAIN disc.cnf = 1 .. Len(disc.cnf) /\ Len(disc.cnf) \in Nat
  BY DiscFacts DEF Gem
<1>2. CASE at > Len(disc.cnf)
  <2>1. Positions(disc.cnf, "id") = {}
    BY <1>1, <1>2 DEF Positions, Without
  <2>2. step' = "again" /\ at' = 1 /\ UNCHANGED <<disc, drawn, err>>
    BY <1>2
  <2>3. Without(disc.volume, 1, {"primary", "end"})
    BY <1>1, WithoutNone
  <2> HIDE DEF ReadCnf, Still, Go, Unread
  <2> QED
    BY <1>1, <2>1, <2>2, <2>3 DEF Gem, Unnamed
<1>3. CASE at <= Len(disc.cnf) /\ Unread("again")
  <2>1. step' = "again" /\ at' = 1 /\ UNCHANGED <<disc, drawn>>
    BY <1>3
  <2>2. err'
    BY <1>3, Zenon
  <2>3. Without(disc.volume, 1, {"primary", "end"})
    BY <1>1, WithoutNone
  <2> HIDE DEF ReadCnf, Still, Go, Unread
  <2> QED
    BY <1>1, <2>1, <2>2, <2>3 DEF Gem
<1>4. CASE at <= Len(disc.cnf) /\ ~Unread("again") /\ Boots(disc.cnf[at])
  <2>1. at \in Positions(disc.cnf, "id") /\ \A j \in Positions(disc.cnf, "id") : at <= j
    BY <1>1, <1>4 DEF Positions, Without, Boots
  <2>2. Min(Positions(disc.cnf, "id")) = at
    <3>1. \A j \in Positions(disc.cnf, "id") : j \in Nat
      BY <1>1 DEF Positions
    <3> QED
      BY <2>1, <3>1 DEF Min
  <2>3. id' = OwnId(disc) /\ disc' = disc
    BY <1>1, <1>4, <2>1, <2>2 DEF OwnId
  <2> QED
    BY <1>1, <1>4, <2>3 DEF Gem, Rightful, OwnId, Described, Named, Positions
<1>5. CASE at <= Len(disc.cnf) /\ ~Unread("again") /\ ~Boots(disc.cnf[at])
  BY <1>1, <1>5 DEF Gem, Without, Boots
<1>6. at > Len(disc.cnf) \/ at <= Len(disc.cnf)
  BY <1>1
<1> QED
  BY <1>2, <1>3, <1>4, <1>5, <1>6

LEMMA ReadStampStep == Gem /\ ReadStamp => Gem'
<1> SUFFICES ASSUME Gem, ReadStamp PROVE Gem'
  OBVIOUS
<1> USE DEF ReadStamp, Still, Go, Unread
<1>1. /\ disc \in Discs /\ at \in Nat \ {0} /\ Without(disc.volume, at, {"primary", "end"}) /\ drawn = 0
      /\ err \/ Unnamed(disc)
  BY DEF Gem
<1>2. ~Described(disc) \/ ~disc.stamp => (err \/ OwnId(disc) = NoId)
  BY <1>1 DEF OwnId, Unnamed
<1>3. Described(disc) /\ disc.stamp => err \/ <<"stamp">> = OwnId(disc)
  BY <1>1 DEF OwnId, Unnamed
<1>4. CASE Unread("name")
  BY <1>1, <1>4, WithoutNone DEF Gem
<1>5. CASE ~Unread("name")
  <2> DEFINE kind == IF at > Len(disc.volume) THEN "other" ELSE disc.volume[at]
  <2>1. /\ at > PvdSearch \/ kind = "end" => ~Described(disc)
        /\ at <= PvdSearch /\ kind = "primary" => Described(disc)
        /\ kind \notin {"primary", "end"} => Without(disc.volume, at + 1, {"primary", "end"})
    BY <1>1, VolumeEnds
  <2>2. /\ UNCHANGED <<disc, drawn, err, titled>>
        /\ Volume(IF disc.stamp THEN Go("draw", 1) /\ id' = <<"stamp">> /\ UNCHANGED err
                  ELSE Go("name", 1) /\ UNCHANGED <<err, id>>, "name")
    BY <1>5 DEF Volume
  <2>3. CASE at > PvdSearch \/ kind = "end"
    BY <1>1, <1>2, <2>1, <2>2, <2>3, WithoutNone DEF Volume, Gem
  <2>4. CASE ~(at > PvdSearch \/ kind = "end") /\ kind = "primary"
    <3>1. Described(disc)
      BY <1>1, <2>1, <2>4, GemAssumption DEF GemAssumption
    <3>2. CASE disc.stamp
      BY <1>1, <1>3, <2>2, <2>4, <3>1, <3>2, WithoutNone DEF Volume, Gem, Rightful
    <3>3. CASE ~disc.stamp
      BY <1>1, <1>2, <2>2, <2>4, <3>3, WithoutNone DEF Volume, Gem
    <3> QED
      BY <3>2, <3>3
  <2>5. CASE ~(at > PvdSearch \/ kind = "end") /\ kind # "primary"
    BY <1>1, <2>1, <2>2, <2>5 DEF Volume, Gem
  <2> QED
    BY <2>3, <2>4, <2>5
<1> QED
  BY <1>4, <1>5

LEMMA TakeNameStep == Gem /\ TakeName => Gem'
  BY DEF TakeName, Still, Go, Gem, Rightful, Without

LEMMA DrawStep == Gem /\ Draw => Gem'
  BY GemAssumption DEF GemAssumption, Draw, Go, Gem, Rightful, Without

LEMMA BootStep == Gem /\ (ReadArgs \/ ReadSettings) => Gem'
  BY DEF ReadArgs, ReadSettings, Gem, Rightful, Without

LEMMA ForgetGemStep == ForgetGem => Gem'
<1> SUFFICES ASSUME ForgetGem PROVE Gem'
  OBVIOUS
<1>1. err' \in BOOLEAN
  BY Zenon DEF ForgetGem
<1> QED
  BY <1>1, NothingIsDisc DEF ForgetGem, Gem

LEMMA GemKept == Gem /\ UNCHANGED gemVars => Gem'
  BY DEF gemVars, Gem, Rightful

LEMMA GemInitially == GemInit => Gem
<1> SUFFICES ASSUME GemInit PROVE Gem
  OBVIOUS
<1>1. err \in BOOLEAN
  BY Zenon DEF GemInit
<1> QED
  BY <1>1, NothingIsDisc DEF GemInit, Gem
-----------------------------------------------------------------------------
(* The lists: a cache covers what its own signature lets through, and its  *)
(* marks are those of the .hide files, but where the histories say not.    *)

Agree(ms, rs)      == ms \intersect rs = hides \intersect rs
Covers(p, sig, rs) == Filtered(sig, Of(p)) \subseteq rs

ListType ==
  /\ opts \in [hide : BOOLEAN, collapse : BOOLEAN, cache : BOOLEAN] /\ under \in Filters
  /\ files \in [Pages -> Caches \union {NoFile}] /\ scene \in Pages \union {"menu"}

\* A reveal puts the setting aside and never outlives the visit.
Switches ==
  /\ live \in BOOLEAN /\ reveal \in BOOLEAN /\ kept \in {"none", "on"}
  /\ live <=> opts.hide /\ ~reveal
  /\ kept = "on" => opts.hide
  /\ reveal => kept = "on" /\ scene \in Pages

\* The cache of p.
Kept(p) ==
  files[p] # NoFile =>
    /\ files[p].rows \subseteq Of(p) /\ files[p].marks \subseteq Of(p)
    /\ p \notin strayed => Agree(files[p].marks, files[p].rows)
    /\ p \notin lacking \union strayed => Covers(p, files[p].sig, files[p].rows)

\* The drive's list of the session: chosen by the settings, or by less.
Remembered ==
  memo # NoFile =>
    /\ memo \subseteq Of("hdd") /\ memoMarks \subseteq Of("hdd")
    /\ "hdd" \notin strayed => Agree(memoMarks, memo)
    /\ "hdd" \notin lacking \union strayed => Covers("hdd", Filter(opts.hide), memo)
    /\ scene = "hdd" => rows \subseteq memo

\* The list on the screen.
Listed ==
  scene \in Pages =>
    /\ rows \subseteq Of(scene) /\ marks \subseteq Of(scene)
    /\ scene \notin strayed => Agree(marks, rows)
    /\ scene \notin lacking \union strayed => Covers(scene, under, rows)

Lists == ListType /\ Switches /\ Kept("hdd") /\ Kept("card") /\ Remembered /\ Listed

LEMMA OwnGames == \A e \in Of("hdd") : e \notin Of("card")
  BY DEF Of

LEMMA OfEntries == \A p \in Pages : Of(p) \subseteq Entries
  BY DEF Entries, Pages

\* Under the hide filter a list needs fewer games.
LEMMA HidingCovers ==
  ASSUME NEW p, NEW rs, NEW sig \in Filters, NEW hide \in BOOLEAN,
         Covers(p, sig, rs), sig.hide => hide
  PROVE  Covers(p, [hide |-> hide, collapse |-> sig.collapse], rs)
  BY DEF Covers, Filtered, Filters

\* Whatever a save leaves names games of its own page only.
Becomes(p) == files'[p] # NoFile => files'[p].rows \subseteq Of(p) /\ files'[p].marks \subseteq Of(p)

LEMMA SaveCacheWrites ==
  ASSUME NEW p \in Pages, ListType, Kept(p), NEW base \in Wiped(p), NEW hide \in BOOLEAN,
         NEW rs \in SUBSET Of(p), NEW ms \in SUBSET Of(p),
         SaveCache(p, base, hide, rs, ms)
  PROVE  /\ files' \in [Pages -> Caches \union {NoFile}]
         /\ Becomes(p)
         /\ \A q \in Pages \ {p} : files'[q] = files[q]
<1> DEFINE new == Written(p, hide, rs, ms)
           Own(c) == c # NoFile => c.rows \subseteq Of(p) /\ c.marks \subseteq Of(p)
<1>1. rs \subseteq Entries /\ ms \subseteq Entries
  BY OfEntries
<1>2. Signature(hide) \in Filters
  BY DEF Signature, Filter, Filters, ListType
<1>3. new \in Caches /\ new.rows \subseteq Of(p) /\ new.marks \subseteq Of(p)
  BY <1>1, <1>2 DEF Caches, Written
<1>4. /\ files \in [Pages -> Caches \union {NoFile}] /\ base \in [Pages -> Caches \union {NoFile}]
      /\ \A q \in Pages \ {p} : base[q] = files[q]
      /\ base[p] = files[p] \/ base[p] = NoFile
  BY DEF Wiped, Emptied, ListType
<1>5. Own(base[p])
  BY <1>4 DEF Kept
<1> HIDE DEF new
<1>6. \A c \in Outcomes(p, base[p], new) : c \in Caches \union {NoFile} /\ Own(c)
  <2> TAKE c \in Outcomes(p, base[p], new)
  <2>1. CASE c \in {base[p], new, NoFile}
    BY <1>3, <1>4, <1>5, <2>1
  <2>2. CASE c \in Mixed(p, base[p], new)
    <3>1. PICK was \in Caches : /\ was.rows \subseteq Of(p) /\ was.marks \subseteq Of(p)
                                /\ c.rows \subseteq new.rows \union was.rows
                                /\ c.marks \subseteq new.marks \union was.marks
      <4>1. CASE p = "hdd" /\ base[p] # NoFile
        BY <1>4, <1>5, <2>2, <4>1 DEF Mixed
      <4>2. CASE ~(p = "hdd" /\ base[p] # NoFile)
        BY <1>3, <2>2, <4>2 DEF Mixed
      <4> QED
        BY <4>1, <4>2
    <3>2. \E rr, mm : c = [sig |-> new.sig, rows |-> rr, marks |-> mm]
      BY <2>2 DEF Mixed
    <3>3. new.sig \in Filters /\ new.rows \subseteq Entries /\ new.marks \subseteq Entries
      BY <1>3 DEF Caches
    <3>4. was.rows \subseteq Entries /\ was.marks \subseteq Entries
      BY <3>1 DEF Caches
    <3> QED
      BY <1>3, <3>1, <3>2, <3>3, <3>4 DEF Caches
  <2> QED
    BY <2>1, <2>2 DEF Outcomes
<1>7. files' = base \/ \E c \in Outcomes(p, base[p], new) : files' = [base EXCEPT ![p] = c]
  BY DEF SaveCache, new
<1> HIDE DEF Own
<1>8. files' \in [Pages -> Caches \union {NoFile}] /\ \A q \in Pages \ {p} : files'[q] = files[q]
  BY <1>4, <1>6, <1>7
<1>9. Own(files'[p])
  BY <1>4, <1>5, <1>6, <1>7
<1> QED
  BY <1>8, <1>9 DEF Becomes, Own

\* A scan leaves a list that is right, and a cache that is right or known not to be.
LEMMA ScanLists ==
  ASSUME NEW p \in Pages, ListType, Kept(p), NEW hide \in BOOLEAN, NEW got \in SUBSET Of(p), Becomes(p),
         Found(p, hide, got, {}), UNCHANGED <<hides, opts>>
  PROVE  /\ rows' = Filtered(Filter(hide), got) /\ marks' = rows' \intersect hides
         /\ rows' \subseteq Of(p) /\ marks' \subseteq Of(p) /\ under' \in Filters
         /\ Agree(marks, rows)' /\ (p \notin lacking' \union strayed' => Covers(p, Filter(hide), rows)')
         /\ Kept(p)'
         /\ \A q \in Pages \ {p} : /\ q \in strayed' <=> q \in strayed
                                   /\ q \in lacking' \union strayed' <=> q \in lacking \union strayed
<1>1. /\ rows' = Filtered(Filter(hide), got) /\ marks' = rows' \intersect hides /\ under' = Filter(hide)
      /\ strayed' = IF Fresh(p) THEN strayed \ {p}
                    ELSE IF files'[p] = files[p] THEN strayed ELSE strayed \union {p}
      /\ lacking' = (IF got # Of(p) THEN lacking \union {p}
                     ELSE IF Fresh(p) THEN lacking \ {p} ELSE lacking) \ strayed'
  BY DEF Found
<1>2. under' \in Filters /\ rows' \subseteq Of(p) /\ marks' \subseteq rows'
  BY <1>1 DEF ListType, Filter, Filters, Filtered
<1>3. Agree(marks, rows)'
  BY <1>1 DEF Agree
<1>4. p \notin lacking' \union strayed' => Covers(p, Filter(hide), rows)'
  BY <1>1 DEF Covers, Filtered, Filter
<1>5. \A q \in Pages \ {p} : /\ q \in strayed' <=> q \in strayed
                             /\ q \in lacking' \union strayed' <=> q \in lacking \union strayed
  BY <1>1
<1>6. Kept(p)'
  <2>1. CASE ~Fresh(p) /\ files'[p] = files[p]
    <3>1. strayed' = strayed /\ (p \notin lacking' \union strayed' => p \notin lacking \union strayed)
      BY <1>1, <2>1
    <3>2. \A sig, rs, ms : (Covers(p, sig, rs)' <=> Covers(p, sig, rs)) /\ (Agree(ms, rs)' <=> Agree(ms, rs))
      BY DEF Covers, Filtered, Agree
    <3> QED
      BY <2>1, <3>1, <3>2 DEF Kept
  <2>2. CASE Fresh(p) /\ files'[p] # NoFile
    <3>1. /\ files'[p].sig = Filter(hide) /\ files'[p].rows = rows'
          /\ files'[p].marks \intersect rows' = marks' \intersect rows'
      BY <1>1, <2>2 DEF Fresh, Signature, Filter
    <3>2. files'[p].marks \subseteq Of(p)
      BY <2>2 DEF Becomes
    <3>3. files'[p].sig = Filter(hide)'
      BY <3>1 DEF Filter
    <3>4. Agree(files[p].marks, files[p].rows)'
      BY <1>3, <3>1 DEF Agree
    <3>5. p \notin lacking' \union strayed' => Covers(p, files[p].sig, files[p].rows)'
      BY <1>4, <3>1, <3>3 DEF Covers, Filtered
    <3> QED
      BY <1>2, <3>1, <3>2, <3>4, <3>5 DEF Kept
  <2>3. CASE files'[p] = NoFile
    BY <2>3 DEF Kept
  <2>4. CASE ~Fresh(p) /\ files'[p] # files[p]
    <3>1. p \in strayed'
      BY <1>1, <2>4
    <3> QED
      BY <3>1 DEF Becomes, Kept
  <2> QED
    BY <2>1, <2>2, <2>3, <2>4
<1> QED
  BY <1>1, <1>2, <1>3, <1>4, <1>5, <1>6

\* The filters and the agreement of a page look at its own .hide files only.
SameHides(p) == \A e \in Of(p) : e \in hides' <=> e \in hides

LEMMA CoversSame ==
  ASSUME NEW p, SameHides(p), NEW sig, NEW rs
  PROVE  Covers(p, sig, rs)' <=> Covers(p, sig, rs)
  BY DEF SameHides, Covers, Filtered

LEMMA KeptSame ==
  ASSUME NEW p \in Pages, Kept(p), files'[p] = files[p], SameHides(p),
         p \in strayed' <=> p \in strayed,
         p \in lacking' \union strayed' <=> p \in lacking \union strayed
  PROVE  Kept(p)'
<1>1. CASE files[p] = NoFile
  BY <1>1 DEF Kept
<1>2. CASE files[p] # NoFile
  <2>1. files[p].rows \subseteq Of(p) /\ files[p].marks \subseteq Of(p)
    BY <1>2 DEF Kept
  <2>2. Agree(files[p].marks, files[p].rows)' <=> Agree(files[p].marks, files[p].rows)
    BY <2>1 DEF Agree, SameHides
  <2>3. Covers(p, files[p].sig, files[p].rows)' <=> Covers(p, files[p].sig, files[p].rows)
    BY CoversSame
  <2> QED
    BY <1>2, <2>1, <2>2, <2>3 DEF Kept
<1> QED
  BY <1>1, <1>2

\* What a scan leaves, for the invariant.
Scanned(p, hide) ==
  /\ files' \in [Pages -> Caches \union {NoFile}] /\ under' \in Filters
  /\ rows' \subseteq Of(p) /\ marks' \subseteq Of(p)
  /\ Agree(marks, rows)' /\ under' = Filter(hide)
  /\ p \notin lacking' \union strayed' => Covers(p, under, rows)'
  /\ Kept("hdd")' /\ Kept("card")'
  /\ \A q \in Pages \ {p} : /\ q \in strayed' <=> q \in strayed
                            /\ q \in lacking' \union strayed' <=> q \in lacking \union strayed

LEMMA ScannedFrom ==
  ASSUME NEW p \in Pages, ListType, Kept("hdd"), Kept("card"), NEW hide \in BOOLEAN, NEW got \in SUBSET Of(p),
         NEW base \in Wiped(p), UNCHANGED <<hides, opts>>,
         LET shown == Filtered(Filter(hide), got)
         IN files' = base \/ SaveCache(p, base, hide, shown, {} \union (shown \intersect hides)),
         Found(p, hide, got, {})
  PROVE  Scanned(p, hide)
<1>1. rows' = Filtered(Filter(hide), got) /\ marks' = rows' \intersect hides /\ under' = Filter(hide)
  BY DEF Found
<1>2. rows' \in SUBSET Of(p) /\ marks' \in SUBSET Of(p)
  BY <1>1 DEF Filtered
<1>3. Kept(p)
  BY DEF Pages
<1>4. /\ files' \in [Pages -> Caches \union {NoFile}] /\ Becomes(p)
      /\ \A q \in Pages \ {p} : files'[q] = files[q]
  <2>1. CASE files' = base
    <3>1. CASE base = files
      BY <1>3, <2>1, <3>1 DEF ListType, Becomes, Kept
    <3>2. CASE base = Emptied(p)
      BY <2>1, <3>2 DEF ListType, Emptied, Becomes
    <3> QED
      BY <3>1, <3>2 DEF Wiped
  <2>2. CASE files' # base
    <3>1. PICK rs \in SUBSET Of(p), ms \in SUBSET Of(p) : rs = rows' /\ ms = marks'
      BY <1>2
    <3>2. SaveCache(p, base, hide, rs, ms)
      <4>1. rs = Filtered(Filter(hide), got) /\ ms = {} \union (Filtered(Filter(hide), got) \intersect hides)
        BY <1>1, <3>1
      <4> QED
        BY <2>2, <4>1
    <3> QED
      BY <1>3, <3>2, SaveCacheWrites
  <2> QED
    BY <2>1, <2>2
<1>5. /\ rows' \subseteq Of(p) /\ marks' \subseteq Of(p) /\ under' \in Filters
      /\ Agree(marks, rows)' /\ (p \notin lacking' \union strayed' => Covers(p, Filter(hide), rows)')
      /\ Kept(p)'
      /\ \A q \in Pages \ {p} : /\ q \in strayed' <=> q \in strayed
                                /\ q \in lacking' \union strayed' <=> q \in lacking \union strayed
  BY <1>3, <1>4, ScanLists
<1>6. \A q \in Pages \ {p} : Kept(q)'
  <2> TAKE q \in Pages \ {p}
  <2>1. Kept(q) /\ SameHides(q)
    BY DEF Pages, SameHides
  <2> QED
    BY <1>4, <1>5, <2>1, KeptSame
<1>7. Kept("hdd")' /\ Kept("card")'
  BY <1>5, <1>6 DEF Pages
<1>8. p \notin lacking' \union strayed' => Covers(p, under, rows)'
  <2>1. under' = Filter(hide)'
    BY <1>1 DEF Filter
  <2> QED
    BY <1>5, <2>1 DEF Covers
<1> QED
  BY <1>1, <1>4, <1>5, <1>7, <1>8 DEF Scanned

LEMMA ScanCardScans ==
  ASSUME ListType, Kept("hdd"), Kept("card"), NEW hide \in BOOLEAN, ScanCard(hide, {}), UNCHANGED <<hides, opts>>
  PROVE  Scanned("card", hide) /\ UNCHANGED <<memo, memoMarks>>
<1>1. PICK got \in Listing("card") :
        LET shown == Filtered(Filter(hide), got)
        IN /\ SaveCache("card", files, hide, shown, {} \union (shown \intersect hides))
           /\ Found("card", hide, got, {}) /\ UNCHANGED <<memo, memoMarks>>
  BY DEF ScanCard
<1>2. got \in SUBSET Of("card") /\ "card" \in Pages
  BY DEF Listing, Pages
<1> QED
  BY <1>1, <1>2, ScannedFrom DEF Wiped

LEMMA ScanDriveScans ==
  ASSUME ListType, Kept("hdd"), Kept("card"), NEW hide \in BOOLEAN, NEW base \in Wiped("hdd"),
         ScanDrive(base, hide), UNCHANGED <<hides, opts>>
  PROVE  /\ Scanned("hdd", hide)
         /\ (memo' = NoFile /\ memoMarks' = {}) \/ (memo' = rows' /\ memoMarks' = marks')
<1>1. PICK got \in Listing("hdd"), faulted \in BOOLEAN :
        LET shown == Filtered(Filter(hide), got)
        IN /\ IF faulted THEN files' = base ELSE SaveCache("hdd", base, hide, shown, shown \intersect hides)
           /\ Found("hdd", hide, got, {})
           /\ memo' = IF faulted THEN NoFile ELSE shown
           /\ memoMarks' = IF faulted THEN {} ELSE shown \intersect hides
  BY DEF ScanDrive
<1> DEFINE shown == Filtered(Filter(hide), got)
<1>2. got \in SUBSET Of("hdd") /\ "hdd" \in Pages
  BY DEF Listing, Pages
<1>3. rows' = shown /\ marks' = {} \union (shown \intersect hides) /\ {} \union (shown \intersect hides) = shown \intersect hides
  BY <1>1 DEF Found
<1>4. files' = base \/ SaveCache("hdd", base, hide, shown, {} \union (shown \intersect hides))
  BY <1>1, <1>3
<1>5. Scanned("hdd", hide)
  BY <1>1, <1>2, <1>4, ScannedFrom
<1>6. marks' = shown \intersect hides
  BY <1>3
<1>7. (memo' = NoFile /\ memoMarks' = {}) \/ (memo' = rows' /\ memoMarks' = marks')
  BY <1>1, <1>3, <1>6
<1> QED
  BY <1>5, <1>7

LEMMA PageFacts == "hdd" \in Pages /\ "card" \in Pages /\ "menu" \notin Pages /\ Pages = {"hdd", "card"}
  BY DEF Pages

\* A scan of the page that is on the screen then.
LEMMA ScannedListed ==
  ASSUME NEW p \in Pages, NEW hide \in BOOLEAN, Scanned(p, hide), scene' = p
  PROVE  Listed'
  BY DEF Scanned, Listed

\* And what of the memory then.
LEMMA ScannedRemembered ==
  ASSUME ListType, Switches, NEW hide \in BOOLEAN, Scanned("hdd", hide), UNCHANGED opts, hide => opts.hide,
         (memo' = NoFile /\ memoMarks' = {}) \/ (memo' = rows' /\ memoMarks' = marks')
  PROVE  Remembered'
<1>1. CASE memo' = NoFile
  BY <1>1 DEF Remembered
<1>2. CASE memo' = rows' /\ memoMarks' = marks'
  <2>1. "hdd" \notin lacking' \union strayed' => Covers("hdd", Filter(opts.hide), memo)'
    <3>1. under' = [hide |-> hide, collapse |-> opts.collapse] /\ opts' = opts /\ (hide => opts.hide)
      BY DEF Scanned, Filter
    <3>2. SUFFICES ASSUME "hdd" \notin lacking' \union strayed' PROVE Covers("hdd", Filter(opts.hide), memo)'
      OBVIOUS
    <3>3. Covers("hdd", under, rows)'
      BY <3>2 DEF Scanned
    <3> QED
      BY <1>2, <3>1, <3>3 DEF Covers, Filtered, Filter
  <2>2. memo' \subseteq Of("hdd") /\ memoMarks' \subseteq Of("hdd") /\ Agree(memoMarks, memo)'
    BY <1>2 DEF Scanned, Agree
  <2> QED
    BY <1>2, <2>1, <2>2 DEF Remembered
<1> QED
  BY <1>1, <1>2

\* Scans of the card leave the memory alone.
LEMMA RememberedSame ==
  ASSUME Remembered, UNCHANGED <<memo, memoMarks, opts, hides>>, scene' # "hdd",
         "hdd" \in strayed' <=> "hdd" \in strayed,
         "hdd" \in lacking' \union strayed' <=> "hdd" \in lacking \union strayed
  PROVE  Remembered'
  BY DEF Remembered, Agree, Covers, Filtered, Filter

LEMMA OpenCardStep == Lists /\ OpenCard => Lists'
<1> SUFFICES ASSUME Lists, OpenCard PROVE Lists'
  OBVIOUS
<1>1. /\ scene = "menu" /\ scene' = "card" /\ UNCHANGED <<hides, opts, live, kept, reveal, memo, memoMarks>>
      /\ ListType /\ Switches /\ Kept("hdd") /\ Kept("card") /\ Remembered /\ live \in BOOLEAN
  BY DEF OpenCard, Lists, Apply, ScanCard, Switches
<1>2. CASE Accepted("card")
  <2>1. /\ rows' = files["card"].rows /\ marks' = files["card"].marks
        /\ under' = Filter(live) /\ UNCHANGED <<files, strayed, lacking>>
    BY <1>2 DEF OpenCard, Apply
  <2>2. files["card"] # NoFile /\ files["card"].sig = Filter(live)
    BY <1>2 DEF Accepted, Signature
  <2>3. Listed'
    BY <1>1, <2>1, <2>2 DEF Listed, Kept, Agree, Covers, Filtered
  <2>4. ListType' /\ Switches'
    BY <1>1, <2>1 DEF ListType, Switches, Filter, Filters, Pages
  <2>5. Kept("hdd")' /\ Kept("card")'
    BY <1>1, <2>1, KeptSame, PageFacts DEF SameHides
  <2> QED
    BY <1>1, <2>1, <2>3, <2>4, <2>5, RememberedSame DEF Lists
<1>3. CASE ~Accepted("card")
  <2>1. Scanned("card", live)
    BY <1>1, <1>3, ScanCardScans DEF OpenCard, Cleanup
  <2>2. Listed'
    BY <1>1, <2>1, ScannedListed, PageFacts
  <2>3. ListType' /\ Switches'
    BY <1>1, <2>1 DEF Scanned, ListType, Switches, Pages
  <2>4. Remembered'
    BY <1>1, <2>1, RememberedSame, PageFacts DEF Scanned
  <2> QED
    BY <2>1, <2>2, <2>3, <2>4 DEF Scanned, Lists
<1> QED
  BY <1>2, <1>3

LEMMA NoCardStep == Lists /\ NoCard => Lists'
<1> SUFFICES ASSUME Lists, NoCard PROVE Lists'
  OBVIOUS
<1>1. UNCHANGED <<hides, files, opts, live, kept, reveal, memo, memoMarks, scene, under, strayed, lacking>> /\ scene = "menu"
  BY DEF NoCard
<1>2. ListType' /\ Switches' /\ Listed'
  BY <1>1, PageFacts DEF Lists, ListType, Switches, Listed
<1>3. Kept("hdd")' /\ Kept("card")'
  BY <1>1, KeptSame, PageFacts DEF Lists, SameHides
<1>4. Remembered'
  BY <1>1, RememberedSame DEF Lists
<1> QED
  BY <1>2, <1>3, <1>4 DEF Lists

LEMMA OpenDriveStep == Lists /\ OpenDrive => Lists'
<1> SUFFICES ASSUME Lists, OpenDrive PROVE Lists'
  OBVIOUS
<1>1. /\ scene = "menu" /\ scene' = "hdd" /\ UNCHANGED <<hides, opts, live, kept, reveal>>
      /\ ListType /\ Switches /\ Kept("hdd") /\ Kept("card") /\ Remembered /\ live \in BOOLEAN
  BY DEF OpenDrive, Lists, Switches
<1>2. live = opts.hide /\ Filter(live) = Filter(opts.hide)
  <2>1. live <=> opts.hide
    BY <1>1, PageFacts DEF Switches
  <2>2. opts.hide \in BOOLEAN
    BY <1>1 DEF ListType
  <2>3. live = opts.hide
    BY <1>1, <2>1, <2>2
  <2> QED
    BY <2>3
<1>3. ASSUME under' = Filter(live), UNCHANGED <<files, strayed, lacking>>
      PROVE  ListType' /\ Switches' /\ Kept("hdd")' /\ Kept("card")'
  <2>1. ListType' /\ Switches'
    BY <1>1, <1>3 DEF ListType, Switches, Filter, Filters, Pages
  <2>2. Kept("hdd")' /\ Kept("card")'
    BY <1>1, <1>3, KeptSame, PageFacts DEF SameHides
  <2> QED
    BY <2>1, <2>2
<1>4. CASE memo # NoFile
  <2>1. /\ rows' = memo /\ marks' = memoMarks /\ UNCHANGED <<memo, memoMarks>>
        /\ under' = Filter(live) /\ UNCHANGED <<files, strayed, lacking>>
    BY <1>4 DEF OpenDrive, Apply
  <2>2. Listed'
    BY <1>1, <1>2, <1>4, <2>1 DEF Listed, Remembered, Agree, Covers, Filtered
  <2>3. Remembered'
    BY <1>1, <1>4, <2>1 DEF Remembered, Agree, Covers, Filtered, Filter
  <2> QED
    BY <1>3, <2>1, <2>2, <2>3 DEF Lists
<1>5. CASE memo = NoFile /\ Accepted("hdd")
  <2>1. /\ rows' = files["hdd"].rows /\ marks' = files["hdd"].marks
        /\ memo' = files["hdd"].rows /\ memoMarks' = files["hdd"].marks
        /\ under' = Filter(live) /\ UNCHANGED <<files, strayed, lacking>>
    BY <1>5 DEF OpenDrive, Apply
  <2>2. files["hdd"] # NoFile /\ files["hdd"].sig = Filter(live)
    BY <1>5 DEF Accepted, Signature
  <2>3. Listed'
    BY <1>1, <2>1, <2>2 DEF Listed, Kept, Agree, Covers, Filtered
  <2>4. Remembered'
    BY <1>1, <1>2, <2>1, <2>2 DEF Remembered, Kept, Agree, Covers, Filtered, Filter
  <2> QED
    BY <1>3, <2>1, <2>3, <2>4 DEF Lists
<1>6. CASE memo = NoFile /\ ~Accepted("hdd")
  <2>1. ScanDrive(files, live)
    BY <1>6 DEF OpenDrive
  <2>2. Scanned("hdd", live) /\ ((memo' = NoFile /\ memoMarks' = {}) \/ (memo' = rows' /\ memoMarks' = marks'))
    BY <1>1, <2>1, ScanDriveScans DEF Wiped
  <2>3. Listed'
    BY <1>1, <2>2, ScannedListed, PageFacts
  <2>4. ListType' /\ Switches'
    BY <1>1, <2>2 DEF Scanned, ListType, Switches, Pages
  <2>5. Remembered'
    BY <1>1, <1>2, <2>2, ScannedRemembered
  <2> QED
    BY <2>2, <2>3, <2>4, <2>5 DEF Scanned, Lists
<1> QED
  BY <1>4, <1>5, <1>6

\* R1 and R3 scan whatever is cached.
LEMMA RescanLists ==
  ASSUME Lists, scene \in Pages, UNCHANGED <<hides, opts, scene>>, NEW hide \in BOOLEAN, hide => opts.hide, Rescan(hide)
  PROVE  ListType' /\ Kept("hdd")' /\ Kept("card")' /\ Remembered' /\ Listed'
<1>1. ListType /\ Switches /\ Kept("hdd") /\ Kept("card") /\ Remembered
  BY DEF Lists
<1>2. CASE scene = "hdd"
  <2>1. PICK base \in Wiped("hdd") : ScanDrive(base, hide)
    BY <1>2 DEF Rescan
  <2>2. Scanned("hdd", hide) /\ ((memo' = NoFile /\ memoMarks' = {}) \/ (memo' = rows' /\ memoMarks' = marks'))
    BY <1>1, <2>1, ScanDriveScans
  <2>3. Listed'
    BY <1>2, <2>2, ScannedListed, PageFacts
  <2>4. Remembered'
    BY <1>1, <2>2, ScannedRemembered
  <2> QED
    BY <1>1, <2>2, <2>3, <2>4 DEF Scanned, ListType
<1>3. CASE scene = "card"
  <2>1. ScanCard(hide, {})
    BY <1>3 DEF Rescan, Cleanup
  <2>2. Scanned("card", hide) /\ UNCHANGED <<memo, memoMarks>>
    BY <1>1, <2>1, ScanCardScans
  <2>3. Listed'
    BY <1>3, <2>2, ScannedListed, PageFacts
  <2>4. Remembered'
    BY <1>1, <1>3, <2>2, RememberedSame, PageFacts DEF Scanned
  <2> QED
    BY <1>1, <2>2, <2>3, <2>4 DEF Scanned, ListType
<1> QED
  BY <1>2, <1>3, PageFacts

LEMMA RefreshStep == Lists /\ Refresh => Lists'
<1> SUFFICES ASSUME Lists, Refresh PROVE Lists'
  OBVIOUS
<1>1. scene \in Pages /\ Rescan(live) /\ UNCHANGED <<hides, opts, live, kept, reveal, scene>>
  BY DEF Refresh
<1>2. live \in BOOLEAN /\ (live => opts.hide) /\ Switches
  BY DEF Lists, Switches
<1>3. Switches'
  BY <1>1, <1>2 DEF Switches
<1> QED
  BY <1>1, <1>2, <1>3, RescanLists DEF Lists

LEMMA RevealStep == Lists /\ Reveal => Lists'
<1> SUFFICES ASSUME Lists, Reveal PROVE Lists'
  OBVIOUS
<1>1. scene \in Pages /\ Rescan(live') /\ UNCHANGED <<hides, opts, scene>> /\ kept' = "on" /\ live' = reveal
  BY DEF Reveal
<1>2. Real /\ Switches
  BY DEF Reveal, Lists
<1>3. opts.hide /\ opts.hide \in BOOLEAN
  <2>1. opts.hide
    BY <1>2 DEF Real, Switches
  <2>2. opts.hide \in BOOLEAN
    BY DEF Lists, ListType
  <2> QED
    BY <2>1, <2>2
<1>4. reveal \in BOOLEAN /\ live' \in BOOLEAN
  BY <1>1, <1>2 DEF Switches
<1>5. Switches'
  <2>1. reveal' \in BOOLEAN /\ (reveal' <=> ~reveal)
    BY <1>4 DEF Reveal
  <2> QED
    BY <1>1, <1>3, <1>4, <2>1 DEF Switches
<1>6. PICK h \in BOOLEAN : h = live'
  BY <1>4
<1>7. Rescan(h)
  BY <1>1, <1>6
<1> QED
  BY <1>1, <1>3, <1>5, <1>7, RescanLists DEF Lists

LEMMA LeaveStep == Lists /\ Leave => Lists'
<1> SUFFICES ASSUME Lists, Leave PROVE Lists'
  OBVIOUS
<1>1. /\ UNCHANGED <<hides, files, opts, rows, marks, memo, memoMarks, strayed, lacking>>
      /\ scene' = "menu" /\ kept' = "none" /\ under' \in Filters
  BY DEF Leave, Filters
<1>2. ListType' /\ Listed'
  BY <1>1, PageFacts DEF Lists, ListType, Listed
<1>3. Kept("hdd")' /\ Kept("card")'
  BY <1>1, KeptSame, PageFacts DEF Lists, SameHides
<1>4. Remembered'
  BY <1>1, RememberedSame DEF Lists
<1>5. Switches'
  <2>1. Switches
    BY DEF Lists
  <2>2. live' = Real /\ ~reveal' /\ reveal' \in BOOLEAN
    BY Zenon DEF Leave
  <2>3. (live' <=> opts.hide) /\ live' \in BOOLEAN
    BY <2>1, <2>2 DEF Real, Switches
  <2> QED
    BY <1>1, <2>2, <2>3 DEF Switches
<1> QED
  BY <1>2, <1>3, <1>4, <1>5 DEF Lists

LEMMA SettingsStep == Lists /\ Settings => Lists'
<1> SUFFICES ASSUME Lists, Settings PROVE Lists'
  OBVIOUS
<1> DEFINE wiped == opts'.hide # opts.hide \/ opts'.collapse # opts.collapse
<1>1. /\ opts' \in [hide : BOOLEAN, collapse : BOOLEAN, cache : BOOLEAN]
      /\ live' = opts'.hide /\ kept' = "none" /\ reveal' = FALSE
      /\ files' \in Wiped("hdd")
      /\ memo' = IF wiped THEN NoFile ELSE memo
      /\ memoMarks' = IF wiped THEN {} ELSE memoMarks
      /\ UNCHANGED <<hides, rows, marks, scene, under, strayed, lacking>>
  <2>1. opts \in [hide : BOOLEAN, collapse : BOOLEAN, cache : BOOLEAN]
    BY DEF Lists, ListType
  <2>2. PICK new \in {opts, [opts EXCEPT !.hide = ~@], [opts EXCEPT !.collapse = ~@], [opts EXCEPT !.cache = ~@]} :
          opts' = new /\ live' = new.hide
    BY DEF Settings
  <2>3. opts' \in [hide : BOOLEAN, collapse : BOOLEAN, cache : BOOLEAN]
    BY <2>1, <2>2
  <2>4. live' = opts'.hide
    BY <2>2
  <2>5. /\ kept' = "none" /\ reveal' = FALSE
        /\ memo' = IF wiped THEN NoFile ELSE memo
        /\ memoMarks' = IF wiped THEN {} ELSE memoMarks
        /\ UNCHANGED <<hides, rows, marks, scene, under, strayed, lacking>>
    BY DEF Settings
  <2>6. files' \in Wiped("hdd")
    BY DEF Settings, Wiped
  <2> QED
    BY <2>3, <2>4, <2>5, <2>6
<1>2. ListType /\ Kept("hdd") /\ Kept("card") /\ Remembered /\ Listed
  BY DEF Lists
<1>3. ListType' /\ Switches'
  <2>1. live' \in BOOLEAN /\ (live' <=> opts'.hide) /\ reveal' \in BOOLEAN /\ ~reveal'
    <3>1. opts'.hide \in BOOLEAN
      BY <1>1
    <3> QED
      BY <1>1, <3>1
  <2>2. files' \in [Pages -> Caches \union {NoFile}]
    BY <1>1, <1>2 DEF ListType, Wiped, Emptied
  <2> QED
    BY <1>1, <1>2, <2>1, <2>2 DEF ListType, Switches
<1>4. Kept("hdd")' /\ Kept("card")'
  <2>1. files'["card"] = files["card"] /\ (files'["hdd"] = files["hdd"] \/ files'["hdd"] = NoFile)
    BY <1>1, <1>2, PageFacts DEF ListType, Wiped, Emptied
  <2>2. SameHides("hdd") /\ SameHides("card")
    BY <1>1 DEF SameHides
  <2>3. CASE files'["hdd"] = files["hdd"]
    BY <1>1, <1>2, <2>1, <2>2, <2>3, KeptSame, PageFacts
  <2>4. CASE files'["hdd"] = NoFile
    <3>1. Kept("card")'
      BY <1>1, <1>2, <2>1, <2>2, KeptSame, PageFacts
    <3> QED
      BY <2>4, <3>1 DEF Kept
  <2> QED
    BY <2>1, <2>3, <2>4
<1>5. Remembered'
  <2>1. CASE wiped
    BY <1>1, <2>1 DEF Remembered
  <2>2. CASE ~wiped
    BY <1>1, <1>2, <2>2 DEF Remembered, Agree, Covers, Filtered, Filter
  <2> QED
    BY <2>1, <2>2
<1>6. Listed'
  BY <1>1, <1>2 DEF Listed, Agree, Covers, Filtered
<1> QED
  BY <1>3, <1>4, <1>5, <1>6 DEF Lists

LEMMA PowerOnStep == Lists /\ PowerOn => Lists'
<1> SUFFICES ASSUME Lists, PowerOn PROVE Lists'
  OBVIOUS
<1>1. UNCHANGED <<hides, files, opts, strayed, lacking>> /\ memo' = NoFile /\ scene' = "menu"
  BY DEF PowerOn
<1>2. ListType' /\ Switches'
  <2>1. opts.hide \in BOOLEAN
    BY DEF Lists, ListType
  <2>2. live' \in BOOLEAN /\ (live' <=> opts.hide) /\ ~reveal' /\ reveal' \in BOOLEAN /\ kept' = "none"
    BY <2>1 DEF PowerOn
  <2> QED
    BY <1>1, <2>2 DEF PowerOn, Lists, ListType, Switches, Filters
<1>3. Kept("hdd")' /\ Kept("card")'
  BY <1>1, KeptSame, PageFacts DEF Lists, SameHides
<1>4. Remembered' /\ Listed'
  BY <1>1, PageFacts DEF Remembered, Listed
<1> QED
  BY <1>2, <1>3, <1>4 DEF Lists

\* What a flip of one .hide file does to lists and marks: that game aside, nothing.
Flipped(e, set, new) ==
  \/ e \in marks /\ new = set \ {e}
  \/ e \notin marks /\ new = set \union {e}

LEMMA FlipAgrees ==
  ASSUME NEW e, NEW ms, NEW rs, NEW fs, Agree(ms, rs), Flipped(e, ms, fs), Flipped(e, hides, hides')
  PROVE  Agree(fs, rs)'
  BY DEF Agree, Flipped

LEMMA FlipCovers ==
  ASSUME NEW p, NEW e, NEW sig, NEW rs, e \in rs, Covers(p, sig, rs), Flipped(e, hides, hides')
  PROVE  Covers(p, sig, rs)'
  BY DEF Covers, Filtered, Flipped

LEMMA HideStep == Lists /\ Hide => Lists'
<1> SUFFICES ASSUME Lists, Hide PROVE Lists'
  OBVIOUS
<1>1. PICK e \in rows : Toggle(e)
  BY DEF Hide
<1>2. scene \in Pages /\ ListType /\ Switches /\ Kept("hdd") /\ Kept("card") /\ Remembered /\ Listed
  BY DEF Hide, Lists
<1> DEFINE gone == e \notin marks /\ live /\ ~reveal
           flip == IF e \in marks THEN marks \ {e} ELSE marks \union {e}
           whole == Written(scene, live, rows, flip)
<1>3. /\ Flipped(e, hides, hides') /\ marks' = flip /\ Flipped(e, marks, marks')
      /\ IF scene = "hdd" THEN Flipped(e, memoMarks, memoMarks') ELSE UNCHANGED memoMarks
      /\ SaveCache(scene, files, live, rows, flip)
      /\ rows' = IF gone THEN rows \ {e} ELSE rows
      /\ under' = [under EXCEPT !.hide = @ \/ gone]
      /\ strayed' = IF files'[scene] \in {NoFile, whole} THEN strayed ELSE strayed \union {scene}
      /\ lacking' = (IF files'[scene] = whole /\ under # Filter(live) THEN lacking \union {scene} ELSE lacking)
                      \ strayed'
      /\ UNCHANGED <<opts, live, kept, reveal, memo, scene>>
  BY <1>1 DEF Toggle, Flipped
<1>4. rows \subseteq Of(scene) /\ marks \subseteq Of(scene) /\ e \in Of(scene) /\ flip \subseteq Of(scene)
  BY <1>2 DEF Listed
<1>5. \A q \in Pages \ {scene} : SameHides(q)
  BY <1>2, <1>3, <1>4, OwnGames, PageFacts DEF SameHides, Flipped
<1>6. /\ files' \in [Pages -> Caches \union {NoFile}]
      /\ \A q \in Pages \ {scene} : files'[q] = files[q]
      /\ Becomes(scene)
  <2>0. PICK p \in Pages, hide \in BOOLEAN : p = scene /\ hide = live
    BY <1>2 DEF Switches
  <2>1. PICK rs \in SUBSET Of(p), ms \in SUBSET Of(p) : p = scene /\ hide = live /\ rs = rows /\ ms = flip
    BY <1>4, <2>0
  <2> HIDE DEF flip
  <2>2. SaveCache(p, files, hide, rs, ms) /\ Kept(p)
    BY <1>2, <1>3, <2>1, PageFacts
  <2>3. /\ files' \in [Pages -> Caches \union {NoFile}] /\ Becomes(p)
        /\ \A q \in Pages \ {p} : files'[q] = files[q]
    BY <1>2, <2>2, SaveCacheWrites DEF Wiped
  <2> QED
    BY <2>1, <2>3
<1>7. ListType' /\ Switches'
  BY <1>2, <1>3, <1>6 DEF ListType, Switches, Filters
<1>8. \A q \in Pages \ {scene} : Kept(q)'
  <2> TAKE q \in Pages \ {scene}
  <2>1. Kept(q) /\ SameHides(q) /\ files'[q] = files[q]
    BY <1>2, <1>5, <1>6, PageFacts
  <2>2. q \in strayed' <=> q \in strayed
    BY <1>3
  <2>3. q \in lacking' \union strayed' <=> q \in lacking \union strayed
    BY <1>3
  <2> QED
    BY <2>1, <2>2, <2>3, KeptSame
<1>9. Kept(scene)'
  <2>1. CASE files'[scene] = NoFile
    BY <1>3, <2>1 DEF Kept
  <2>2. CASE files'[scene] \notin {NoFile, whole}
    <3>1. scene \in strayed'
      BY <1>3, <2>2
    <3> QED
      BY <1>3, <1>6, <3>1 DEF Becomes, Kept
  <2>3. CASE files'[scene] # NoFile /\ files'[scene] = whole
    <3>1. /\ files'[scene].sig = Filter(live) /\ files'[scene].rows = rows
          /\ files'[scene].marks \subseteq flip /\ files'[scene].marks \intersect rows = flip \intersect rows
      BY <2>3 DEF Written, Signature
    <3>2. scene \notin strayed' => Agree(files[scene].marks, files[scene].rows)'
      <4>1. scene \notin strayed' => Agree(marks, rows)
        BY <1>2, <1>3 DEF Listed
      <4>2. scene \notin strayed' => flip \intersect rows = hides' \intersect rows
        BY <1>3, <4>1 DEF Agree, Flipped
      <4> QED
        BY <1>3, <3>1, <4>2 DEF Agree
    <3>3. scene \notin lacking' \union strayed' => Covers(scene, files[scene].sig, files[scene].rows)'
      <4>1. scene \notin lacking' \union strayed' => under = Filter(live) /\ Covers(scene, Filter(live), rows)
        BY <1>2, <1>3, <2>3 DEF Listed
      <4>2. scene \notin lacking' \union strayed' => Filtered(Filter(live), Of(scene))' \subseteq rows
        BY <1>3, <4>1 DEF Covers, Filtered, Flipped, Filter
      <4>3. files'[scene].sig = Filter(live)'
        BY <1>3, <3>1 DEF Filter
      <4> QED
        BY <1>3, <3>1, <4>2, <4>3 DEF Covers
    <3> QED
      BY <1>3, <1>4, <3>1, <3>2, <3>3 DEF Kept
  <2> QED
    BY <2>1, <2>2, <2>3
<1>10. Kept("hdd")' /\ Kept("card")'
  BY <1>2, <1>3, <1>8, <1>9, PageFacts
<1>11. Remembered'
  <2>1. CASE memo = NoFile
    BY <1>3, <2>1 DEF Remembered
  <2>2. CASE memo # NoFile /\ scene = "hdd"
    <3>1. e \in memo /\ memo \subseteq Of("hdd") /\ memoMarks' \subseteq Of("hdd") /\ rows' \subseteq memo
      BY <1>2, <1>3, <1>4, <2>2 DEF Remembered, Flipped
    <3>2. "hdd" \notin strayed' => memoMarks' \intersect memo = hides' \intersect memo
      BY <1>2, <1>3, <2>2 DEF Remembered, Agree, Flipped
    <3>3. "hdd" \notin lacking' \union strayed' => Covers("hdd", Filter(opts.hide), memo)
      BY <1>2, <1>3, <2>2 DEF Remembered
    <3>4. "hdd" \notin lacking' \union strayed' => Covers("hdd", Filter(opts.hide), memo)'
      BY <1>3, <3>1, <3>3 DEF Covers, Filtered, Flipped, Filter
    <3> QED
      BY <1>3, <3>1, <3>2, <3>4 DEF Remembered, Agree
  <2>3. CASE memo # NoFile /\ scene # "hdd"
    <3>1. SameHides("hdd")
      BY <1>5, <2>3, PageFacts
    <3>2. /\ memo \subseteq Of("hdd") /\ memoMarks \subseteq Of("hdd")
          /\ "hdd" \notin strayed' => memoMarks \intersect memo = hides' \intersect memo
      BY <1>2, <1>3, <2>3, <3>1 DEF Remembered, Agree, SameHides
    <3>3. "hdd" \notin lacking' \union strayed' => Covers("hdd", Filter(opts.hide), memo)'
      BY <1>2, <1>3, <2>3, <3>1 DEF Remembered, Covers, Filtered, SameHides, Filter
    <3> QED
      BY <1>3, <2>3, <3>2, <3>3 DEF Remembered, Agree
  <2> QED
    BY <2>1, <2>2, <2>3
<1>12. Listed'
  <2>1. rows' \subseteq rows /\ marks' \subseteq Of(scene)
    BY <1>3, <1>4
  <2>2. scene \notin strayed' => marks' \intersect rows' = hides' \intersect rows'
    BY <1>2, <1>3, <2>1 DEF Listed, Agree, Flipped
  <2>3. scene \notin lacking' \union strayed' => Filtered(under, Of(scene))' \subseteq rows'
    <3>1. scene \notin lacking' \union strayed' => Filtered(under, Of(scene)) \subseteq rows
      BY <1>2, <1>3 DEF Listed, Covers
    <3>2. CASE ~gone
      <4>1. under'.hide = (under.hide \/ gone) /\ under'.collapse = under.collapse
        BY <1>2, <1>3 DEF ListType, Filters
      <4>2. rows' = rows /\ under'.collapse = under.collapse /\ (under'.hide <=> under.hide)
        BY <1>3, <3>2, <4>1
      <4> QED
        BY <1>3, <3>1, <4>2 DEF Filtered, Flipped
    <3>3. CASE gone
      <4>1. rows' = rows \ {e} /\ under'.collapse = under.collapse /\ under'.hide /\ e \in hides'
        BY <1>2, <1>3, <3>3 DEF ListType, Filters, Flipped
      <4> QED
        BY <1>3, <3>1, <4>1 DEF Filtered, Flipped
    <3> QED
      BY <3>2, <3>3
  <2> QED
    BY <1>3, <1>4, <2>1, <2>2, <2>3 DEF Listed, Agree, Covers
<1> QED
  BY <1>7, <1>10, <1>11, <1>12 DEF Lists

LEMMA ListsStep == Lists /\ ListNext => Lists'
  BY OpenCardStep, NoCardStep, OpenDriveStep, RefreshStep, RevealStep, HideStep, LeaveStep, SettingsStep, PowerOnStep
     DEF ListNext

LEMMA ListsKept == Lists /\ UNCHANGED listVars => Lists'
<1> SUFFICES ASSUME Lists, UNCHANGED listVars PROVE Lists'
  OBVIOUS
<1>1. /\ UNCHANGED <<hides, files, opts, live, kept, reveal, rows, marks, memo, memoMarks, scene, under, strayed, lacking>>
  BY DEF listVars
<1>2. ListType' /\ Switches' /\ Listed'
  BY <1>1 DEF Lists, ListType, Switches, Listed, Agree, Covers, Filtered
<1>3. Kept("hdd")' /\ Kept("card")'
  BY <1>1, KeptSame, PageFacts DEF Lists, SameHides
<1>4. Remembered'
  BY <1>1 DEF Lists, Remembered, Agree, Covers, Filtered, Filter
<1> QED
  BY <1>2, <1>3, <1>4 DEF Lists

LEMMA ForgetListsStep == ForgetLists => Lists'
<1> SUFFICES ASSUME ForgetLists PROVE Lists'
  OBVIOUS
<1>1. ListType' /\ Switches'
  BY PageFacts DEF ForgetLists, ListType, Switches, Filters
<1>2. Kept("hdd")' /\ Kept("card")' /\ Remembered' /\ Listed'
  BY PageFacts DEF ForgetLists, Kept, Remembered, Listed
<1> QED
  BY <1>1, <1>2 DEF Lists

LEMMA ListsInitially == ListInit => Lists
<1> SUFFICES ASSUME ListInit PROVE Lists
  OBVIOUS
<1>1. ListType /\ Switches
  BY PageFacts DEF ListInit, ListType, Switches, Filters
<1>2. Kept("hdd") /\ Kept("card") /\ Remembered /\ Listed
  BY PageFacts DEF ListInit, Kept, Remembered, Listed
<1> QED
  BY <1>1, <1>2 DEF Lists

-----------------------------------------------------------------------------
(* The parts together.                                                     *)

IInv == Handoff /\ Gem /\ Lists

LEMMA InitIInv == LaunchInit => IInv
  BY HandoffInit, GemInitially, ListsInitially DEF LaunchInit, IInv

LEMMA NextIInv == IInv /\ [LaunchNext]_launchVars => IInv'
<1> SUFFICES ASSUME IInv, [LaunchNext]_launchVars PROVE IInv'
  OBVIOUS
<1> USE DEF IInv
<1>1. CASE Boot
  <2>1. Gem'
    BY <1>1, BootStep DEF Boot
  <2> QED
    BY <1>1, <2>1, HandoffKept, ListsKept DEF Boot
<1>2. CASE Browse
  BY <1>2, HandoffKept, GemKept, ListsStep DEF Browse
<1>3. CASE Pick
  BY <1>3, HandoffKept, GemKept, ForgetListsStep DEF Pick
<1>4. CASE ReadAndDraw
  <2>1. Gem'
    BY <1>4, OpenImageStep, FindVolumeStep, WalkRootStep, ReadCnfStep, ReadStampStep, TakeNameStep, DrawStep
       DEF ReadAndDraw
  <2> QED
    BY <1>4, <2>1, HandoffKept, ListsKept DEF ReadAndDraw
<1>5. CASE Drawn
  BY <1>5, HandoffKept, ForgetGemStep, ListsKept DEF Drawn
<1>6. CASE PickTool
  BY <1>6, HandoffKept, GemKept, ForgetListsStep DEF PickTool
<1>7. CASE HandOff
  BY <1>7, PlacedStep, GemKept, ListsKept DEF HandOff
<1>8. CASE Launching
  BY <1>8, HandoffStep, GemKept, ListsKept DEF Launching
<1>9. CASE UNCHANGED launchVars
  BY <1>9, HandoffKept, GemKept, ListsKept DEF launchVars
<1> QED
  BY <1>1, <1>2, <1>3, <1>4, <1>5, <1>6, <1>7, <1>8, <1>9 DEF LaunchNext

LEMMA Inductive == LaunchSpec => []IInv
  BY InitIInv, NextIInv, PTL DEF LaunchSpec

\* SifIopReset never runs over a slot that is still mounted (elf.c:659).
THEOREM ResetsAreClear == LaunchSpec => []NothingMountedAtReset
<1>1. IInv => NothingMountedAtReset
  BY DEF IInv, Handoff, Slotted, NothingMountedAtReset
<1> QED
  BY <1>1, Inductive, PTL

\* A program starts with the slots and the name its launch promised (elf.c, loader.c).
THEOREM ProgramsStartAsPromised == LaunchSpec => []StartedAsPromised
<1>1. IInv => StartedAsPromised
  BY DEF IInv, Handoff, Told, Started, Checked, InChild, StartedAsPromised
<1> QED
  BY <1>1, Inductive, PTL

\* When what the menu passes fits the child's storage, the child gives up only over the medium
\* (loader.c:main): everything else the parent has refused before it.
THEOREM ChildrenFailByMediaOnly ==
  ASSUME \A n \in Sizes : n <= ChildRoom
  PROVE  LaunchSpec => []DoomedOnlyByMedia
<1>1. IInv /\ DoomedOnlyByMedia /\ [LaunchNext]_launchVars => DoomedOnlyByMedia'
  <2> SUFFICES ASSUME IInv, DoomedOnlyByMedia, [LaunchNext]_launchVars, pc' = "dead" PROVE why' = "media"
    BY DEF DoomedOnlyByMedia
  <2>1. CASE UNCHANGED <<pc, why>>
    BY <2>1 DEF DoomedOnlyByMedia
  <2>2. CASE ChildMain \/ ChildLoad
    <3>1. job.size <= ChildRoom
      <4>1. job.size \in Sizes \union {0}
        BY DEF IInv, Handoff, Told
      <4>2. CASE job.size \in Sizes
        BY <4>2
      <4>3. CASE job.size = 0
        BY <4>3, HandoffAssumption DEF HandoffAssumption
      <4> QED
        BY <4>1, <4>2, <4>3
    <3>2. job.size \in Nat /\ ChildRoom \in Nat
      BY HandoffAssumption DEF HandoffAssumption, IInv, Handoff, Jobs
    <3>3. CASE ChildMain
      BY <3>1, <3>2, <3>3 DEF ChildMain, Die
    <3>4. CASE ChildLoad
      <4>1. Readable(job.path)
        <5>1. pc = "load"
          BY <3>4 DEF ChildLoad
        <5>2. Place(job.path) \in has
          BY <5>1 DEF IInv, Handoff, Routed, Checked, InChild
        <5>3. Mounted(job.path)
          BY <5>1 DEF IInv, Handoff, Routed, Checked, InChild, OnTheWay, Mounted
        <5> QED
          BY <5>2, <5>3 DEF Readable
      <4> QED
        BY <3>4, <4>1 DEF ChildLoad, Die
    <3> QED
      BY <2>2, <3>3, <3>4
  <2>3. ChildMain \/ ChildLoad \/ UNCHANGED <<pc, why>>
    <3>1. CASE Launching
      BY <3>1 DEF Launching, Next, Launch, Parent, Child, Mount, Unmount, OpenHddPage, Back, LaunchPopstarter,
         LaunchDkwdrv, LaunchBootElf, LaunchEmber, Call, ExecPS2Direct, FromFile, KeepIOP, RebootIOP, ResetAndRun,
         HddBacked, Embedded, ChildRun, Return, Run, GoTo
    <3>2. CASE ~Launching
      BY <3>2 DEF LaunchNext, Boot, Browse, Pick, ReadAndDraw, Drawn, PickTool, HandOff, Placed, launchVars, vars
    <3> QED
      BY <3>1, <3>2
  <2> QED
    BY <2>1, <2>2, <2>3
<1>2. LaunchInit => DoomedOnlyByMedia
  BY DEF LaunchInit, DoomedOnlyByMedia
<1> QED
  BY <1>1, <1>2, Inductive, PTL DEF LaunchSpec

\* The marks of a list are those of its own device and, unless the page's cache missed a change of a
\* .hide file or was not written whole, agree with its .hide files (CleanupGameList).
THEOREM MarksBelong == LaunchSpec => []MarksAreTheirs
<1>1. IInv => MarksAreTheirs
  BY DEF IInv, Lists, Listed, Agree, MarksAreTheirs
<1> QED
  BY <1>1, Inductive, PTL

\* Caches, reveal, hiding, restarts and removals that fail lose no game a filter does not leave out,
\* but where a list was short or a cache was not written whole (system.lua, ui.lua).
THEOREM GamesStay == LaunchSpec => []NoGameLost
<1>1. IInv => NoGameLost
  BY DEF IInv, Lists, Listed, Covers, NoGameLost
<1> QED
  BY <1>1, Inductive, PTL

\* The id that is drawn is the disc's own, or one the failed reads left to (retrogem.cpp).
THEOREM IdsAreNoGuesses == LaunchSpec => []NeverAGuess
<1>1. IInv => NeverAGuess
  BY DEF IInv, Gem, Rightful, NeverAGuess
<1> QED
  BY <1>1, Inductive, PTL
-----------------------------------------------------------------------------
(* The types.  What the invariant says of mounts, jobs and lists is there   *)
(* already; the rest follows step by step.                                  *)

MachineTypes ==
  /\ has \subseteq Stores \union Parts /\ boot \in Parts \union {NoPart} /\ hdd \in BOOLEAN
  /\ pc \in {"menu", "back", "execps2", "file", "keepiop", "reboot", "hddback", "embedded", "reset",
             "child", "load", "loaded", "target", "dead"}
  /\ rpc \in {"up", "down"} /\ iop \in {"live", "reset"} /\ memory \in {"whole", "wiped"}
  /\ why \in {"none", "argv", "missing", "media", "room", "mount"}

ListOthers ==
  /\ room \subseteq Pages /\ hides \subseteq Entries
  /\ rows \subseteq Entries /\ marks \subseteq Entries
  /\ memo = NoFile \/ memo \subseteq Entries
  /\ memoMarks \subseteq Entries
  /\ rebuild \in BOOLEAN
  /\ strayed \subseteq Pages /\ lacking \subseteq Pages

GemTypes ==
  /\ gem \in {"on", "off", "saved"} /\ args \in Seq(Tokens) /\ step \in Steps /\ titled \in BOOLEAN
  /\ id \in Ids
  /\ drawn <= Frames /\ (step = "draw" => drawn < Frames)
  /\ step \in {"args", "settings", "idle"} => drawn = 0

StageTypes == stage \in {"boot", "lists", "gem", "leaving", "launch"}

AllTypes == MachineTypes /\ ListOthers /\ GemTypes /\ StageTypes

LEMMA CallTypes ==
  ASSUME MachineTypes, NEW to \in {"execps2", "file", "keepiop", "reboot"},
         NEW tool, NEW p, NEW ctx, NEW argv, Call(to, tool, p, ctx, argv)
  PROVE  MachineTypes'
BY DEF MachineTypes, Call, World, Machine

LEMMA MachineStep == MachineTypes /\ Next => MachineTypes'
<1> SUFFICES ASSUME MachineTypes, Next PROVE MachineTypes' OBVIOUS
<1>1. CASE \E s \in Slots, p \in Parts : Mount(s, p) BY <1>1 DEF Mount, World, Machine, MachineTypes
<1>2. CASE \E s \in Slots : Unmount(s) BY <1>2 DEF Unmount, World, Machine, MachineTypes
<1>3. CASE OpenHddPage BY <1>3 DEF OpenHddPage, Machine, MachineTypes
<1>4. CASE Back BY <1>4 DEF Back, World, Machine, MachineTypes
<1>5. CASE LaunchPopstarter BY <1>5, CallTypes DEF LaunchPopstarter
<1>6. CASE LaunchDkwdrv BY <1>6, CallTypes DEF LaunchDkwdrv
<1>7. CASE LaunchBootElf BY <1>7, CallTypes DEF LaunchBootElf
<1>8. CASE LaunchEmber BY <1>8, CallTypes DEF LaunchEmber
<1>9. ASSUME NEW w \in {"argv", "missing", "media", "room", "mount"}, Return(w) PROVE MachineTypes'
  BY <1>9 DEF Return, World, Machine, MachineTypes
<1>10. ASSUME NEW p \in {"embedded", "hddback", "reset"}, NEW j, GoTo(p, j) PROVE MachineTypes'
  BY <1>10 DEF GoTo, World, Machine, MachineTypes
<1>11. ASSUME Run, iop' = iop \/ iop' = "reset" PROVE MachineTypes'
  BY <1>11 DEF Run, World, MachineTypes
<1>12. CASE ExecPS2Direct BY <1>9, <1>11, <1>12 DEF ExecPS2Direct
<1>13. CASE FromFile BY <1>9, <1>10, <1>11, <1>13 DEF FromFile
<1>14. CASE KeepIOP BY <1>9, <1>10, <1>14 DEF KeepIOP
<1>15. CASE RebootIOP BY <1>9, <1>10, <1>15 DEF RebootIOP
<1>16. CASE ResetAndRun BY <1>11, <1>16 DEF ResetAndRun
<1>17. CASE HddBacked BY <1>9, <1>10, <1>17 DEF HddBacked
<1>18. CASE Embedded
  <2>1. CASE pc' = "child" /\ rpc' = "down" /\ UNCHANGED <<World, iop, memory, why>>
    BY <2>1 DEF MachineTypes, World
  <2> QED BY <1>9, <1>18, <2>1 DEF Embedded
<1>19. CASE ChildMain BY <1>19 DEF ChildMain, Die, World, MachineTypes
<1>20. CASE ChildLoad BY <1>20 DEF ChildLoad, Die, World, MachineTypes
<1>21. CASE ChildRun BY <1>21 DEF ChildRun, World, MachineTypes
<1> QED
  BY <1>1, <1>2, <1>3, <1>4, <1>5, <1>6, <1>7, <1>8, <1>12, <1>13, <1>14, <1>15, <1>16, <1>17, <1>18, <1>19,
     <1>20, <1>21 DEF Next, Launch, Parent, Child

LEMMA MachineKept == MachineTypes /\ (UNCHANGED vars \/ Placed) => MachineTypes'
<1> SUFFICES ASSUME MachineTypes, UNCHANGED vars \/ Placed PROVE MachineTypes' OBVIOUS
<1>1. CASE UNCHANGED vars BY <1>1 DEF vars, MachineTypes
<1>2. CASE Placed
  <2>1. hdd' \in BOOLEAN BY <1>2, Zenon DEF Placed
  <2> QED BY <1>2, <2>1 DEF Placed, MachineTypes
<1> QED BY <1>1, <1>2

-----------------------------------------------------------------------------

LEMMA FoundKeeps ==
  ASSUME NEW p \in Pages, NEW hide, NEW got, NEW old, Found(p, hide, got, old),
         strayed \subseteq Pages, lacking \subseteq Pages
  PROVE  strayed' \subseteq Pages /\ lacking' \subseteq Pages
<1>1. strayed' \subseteq strayed \union {p} BY DEF Found
<1>2. lacking' \subseteq lacking \union {p} BY DEF Found
<1> QED BY <1>1, <1>2

\* What a scan leaves of the session's marks when it leaves no list.
ScanLeaves == memoMarks' = memoMarks \/ memoMarks' = {} \/ memo' # NoFile \/ memoMarks' \subseteq hides

LEMMA ScansKeep ==
  ASSUME strayed \subseteq Pages, lacking \subseteq Pages,
         NEW base, NEW hide, ScanCard(hide, {}) \/ ScanDrive(base, hide)
  PROVE  strayed' \subseteq Pages /\ lacking' \subseteq Pages /\ ScanLeaves
<1>1. CASE ScanCard(hide, {})
  <2>1. PICK got \in Listing("card") : Found("card", hide, got, {}) /\ UNCHANGED <<memo, memoMarks>>
    BY <1>1 DEF ScanCard
  <2> QED BY <2>1, FoundKeeps, PageFacts DEF ScanLeaves
<1>2. CASE ScanDrive(base, hide)
  <2>1. PICK got \in Listing("hdd"), faulted \in BOOLEAN :
          /\ Found("hdd", hide, got, {})
          /\ memoMarks' = IF faulted THEN {} ELSE Filtered(Filter(hide), got) \intersect hides
    BY <1>2 DEF ScanDrive
  <2>2. memoMarks' = {} \/ memoMarks' \subseteq hides BY <2>1
  <2>3. strayed' \subseteq Pages /\ lacking' \subseteq Pages BY <2>1, FoundKeeps, PageFacts
  <2> QED BY <2>2, <2>3 DEF ScanLeaves
<1> QED BY <1>1, <1>2

LEMMA ListOthersStep == Lists /\ Lists' /\ ListOthers /\ ListNext => ListOthers'
<1> SUFFICES ASSUME Lists, Lists', ListOthers, ListNext PROVE ListOthers' OBVIOUS
<1>0. Of("hdd") \subseteq Entries /\ Of("card") \subseteq Entries BY OfEntries, PageFacts
<1>1. memo' # NoFile => memo' \subseteq Entries /\ memoMarks' \subseteq Entries
  BY <1>0 DEF Lists, Remembered
<1>2. scene' \in Pages => rows' \subseteq Entries /\ marks' \subseteq Entries
  BY OfEntries DEF Lists, Listed
<1>3. scene' \notin Pages => (rows' = rows \/ rows' = {}) /\ (marks' = marks \/ marks' = {})
  BY PageFacts DEF ListNext, OpenCard, NoCard, OpenDrive, Refresh, Reveal, Hide, Toggle, Leave, Settings, PowerOn,
     Cleanup
<1>4. rows' \subseteq Entries /\ marks' \subseteq Entries BY <1>2, <1>3 DEF ListOthers
<1>5. /\ room' \subseteq Pages /\ hides' \subseteq Entries /\ rebuild' \in BOOLEAN
      /\ strayed' \subseteq Pages /\ lacking' \subseteq Pages
      /\ memo' = NoFile => memoMarks' \subseteq Entries
  <2>0. ASSUME NEW base, NEW hide, ScanCard(hide, {}) \/ ScanDrive(base, hide)
        PROVE  /\ strayed' \subseteq Pages /\ lacking' \subseteq Pages
               /\ memo' = NoFile => memoMarks' \subseteq Entries
    BY <2>0, ScansKeep DEF ListOthers, ScanLeaves
  <2>1. CASE OpenCard
    BY <2>0, <2>1 DEF OpenCard, Apply, Cleanup, ListOthers
  <2>2. CASE OpenDrive
    <3>1. CASE ScanDrive(files, live) BY <2>0, <2>2, <3>1 DEF OpenDrive, ListOthers
    <3>2. CASE ~ScanDrive(files, live)
      <4>1. UNCHANGED <<room, hides, rebuild, strayed, lacking>> BY <2>2, <3>2 DEF OpenDrive, Apply
      <4>2. memo' = NoFile => memoMarks' \subseteq Entries
        <5>1. CASE memo # NoFile BY <2>2, <5>1 DEF OpenDrive
        <5>2. CASE memo = NoFile
          <6>1. memo' = files["hdd"].rows /\ memoMarks' = files["hdd"].marks /\ files["hdd"] # NoFile
            BY <2>2, <3>2, <5>2 DEF OpenDrive, Accepted
          <6>2. files["hdd"].marks \subseteq Of("hdd") BY <6>1 DEF Lists, Kept
          <6> QED BY <1>0, <6>1, <6>2
        <5> QED BY <5>1, <5>2
      <4> QED BY <4>1, <4>2 DEF ListOthers
    <3> QED BY <3>1, <3>2
  <2>3. CASE Refresh
    <3>1. rebuild' = FALSE /\ UNCHANGED <<room, hides>> /\ Rescan(live) BY <2>3 DEF Refresh
    <3> QED BY <2>0, <3>1 DEF Rescan, Cleanup, ListOthers
  <2>4. CASE Reveal
    <3>1. rebuild' = FALSE /\ UNCHANGED <<room, hides>> /\ Rescan(live') BY <2>4 DEF Reveal
    <3> QED BY <2>0, <3>1 DEF Rescan, Cleanup, ListOthers
  <2>5. CASE Hide
    <3>1. PICK e \in rows : Toggle(e) BY <2>5 DEF Hide
    <3>2. scene \in Pages /\ e \in Entries BY <2>5 DEF Hide, ListOthers
    <3>3. /\ hides' = hides \ {e} \/ hides' = hides \union {e}
          /\ memoMarks' = memoMarks \/ memoMarks' = memoMarks \ {e} \/ memoMarks' = memoMarks \union {e}
          /\ strayed' \subseteq strayed \union {scene} /\ lacking' \subseteq lacking \union {scene}
          /\ UNCHANGED <<room, rebuild>>
      BY <3>1 DEF Toggle
    <3> QED BY <3>2, <3>3 DEF ListOthers
  <2>6. CASE Settings
    <3>1. UNCHANGED <<room, hides, strayed, lacking>> /\ (memoMarks' = memoMarks \/ memoMarks' = {}) 
      BY <2>6 DEF Settings
    <3>2. rebuild' \in BOOLEAN BY <2>6, Zenon DEF Settings, ListOthers
    <3> QED BY <3>1, <3>2 DEF ListOthers
  <2>7. CASE NoCard \/ Leave BY <2>7 DEF NoCard, Leave, ListOthers
  <2>8. CASE PowerOn BY <2>8 DEF PowerOn, ListOthers
  <2> QED BY <2>1, <2>2, <2>3, <2>4, <2>5, <2>6, <2>7, <2>8 DEF ListNext
<1> QED BY <1>1, <1>4, <1>5 DEF ListOthers

LEMMA ListOthersKept == ListOthers /\ (UNCHANGED listVars \/ ForgetLists) => ListOthers'
<1>1. ASSUME ListOthers, UNCHANGED listVars PROVE ListOthers' BY <1>1 DEF listVars, ListOthers
<1>2. ASSUME ListOthers, ForgetLists PROVE ListOthers' BY <1>2 DEF ForgetLists, ListOthers
<1> QED BY <1>1, <1>2

-----------------------------------------------------------------------------

LEMMA GemTypesStep ==
  ASSUME Gem, GemTypes,
         \/ ReadArgs \/ ReadSettings \/ FindVolume \/ WalkRoot \/ ReadCnf \/ ReadStamp \/ TakeName \/ Draw
         \/ \E d \in Images, t \in BOOLEAN : OpenImage(d, t)
  PROVE  GemTypes'
<1> DEFINE Reading == {"volume", "root", "cnf", "again", "name", "draw", "done"}
<1>0. Reading \subseteq Steps /\ Frames \in Nat \ {0} BY GemAssumption DEF GemAssumption, Steps
<1>1. CASE ReadArgs
  <2>1. args' \in Seq(Tokens) /\ step' \in Steps BY <1>1 DEF ReadArgs, Steps
  <2>2. gem' \in {"on", "off", "saved"} BY <1>1 DEF ReadArgs, GemTypes
  <2> QED BY <1>1, <2>1, <2>2 DEF ReadArgs, GemTypes
<1>2. CASE ReadSettings BY <1>2 DEF ReadSettings, GemTypes, Steps
<1>3. CASE \E d \in Images, t \in BOOLEAN : OpenImage(d, t)
  BY <1>0, <1>3 DEF OpenImage, Go, GemTypes, Ids, NoId
<1>4. ASSUME Still, drawn = 0, step' \in Reading, id' = id \/ id' \in Ids PROVE GemTypes'
  BY <1>0, <1>4 DEF Still, GemTypes, Gem
<1>5. CASE FindVolume BY <1>4, <1>5 DEF FindVolume, Unread, Volume, Go, Gem
<1>6. CASE WalkRoot BY <1>4, <1>6 DEF WalkRoot, Unread, Go, Gem
<1>7. CASE ReadCnf
  <2>1. <<"boot", at>> \in Ids BY DEF Ids, Gem
  <2> QED BY <1>4, <1>7, <2>1 DEF ReadCnf, Unread, Go, Gem
<1>8. CASE ReadStamp
  <2>1. <<"stamp">> \in Ids BY DEF Ids
  <2> QED BY <1>4, <1>8, <2>1 DEF ReadStamp, Unread, Volume, Go, Gem
<1>9. CASE TakeName
  <2>1. <<"name">> \in Ids BY DEF Ids
  <2> QED BY <1>4, <1>9, <2>1 DEF TakeName, Go, Gem
<1>10. CASE Draw
  <2>1. drawn \in Nat /\ drawn < Frames /\ drawn' = drawn + 1 BY <1>10 DEF Draw, Gem, GemTypes
  <2>2. drawn' <= Frames /\ (step' = "draw" => drawn' < Frames) /\ step' \in {"draw", "done"}
    BY <1>0, <1>10, <2>1 DEF Draw, Go
  <2> QED BY <1>0, <1>10, <2>2 DEF Draw, GemTypes
<1> QED BY <1>1, <1>2, <1>3, <1>5, <1>6, <1>7, <1>8, <1>9, <1>10

LEMMA GemTypesKept == GemTypes /\ (UNCHANGED gemVars \/ ForgetGem) => GemTypes'
<1>1. ASSUME GemTypes, UNCHANGED gemVars PROVE GemTypes' BY <1>1 DEF gemVars, GemTypes
<1>2. ASSUME ForgetGem PROVE GemTypes'
  <2>1. args' \in Seq(Tokens) /\ id' \in Ids /\ step' \in Steps BY <1>2 DEF ForgetGem, Ids, Steps
  <2>2. titled' \in BOOLEAN BY <1>2, Zenon DEF ForgetGem
  <2> QED BY <1>2, <2>1, <2>2, GemAssumption DEF GemAssumption, ForgetGem, GemTypes
<1> QED BY <1>1, <1>2

-----------------------------------------------------------------------------

LEMMA TypesInitially == LaunchInit => AllTypes
<1> SUFFICES ASSUME LaunchInit PROVE AllTypes OBVIOUS
<1>1. MachineTypes BY DEF LaunchInit, MachineTypes
<1>2. ListOthers BY ListAssumption DEF ListAssumption, LaunchInit, ListInit, ListOthers
<1>3. GemTypes
  <2>1. args \in Seq(Tokens) BY BoundedIsSeq DEF LaunchInit, GemInit
  <2>2. titled \in BOOLEAN /\ id \in Ids /\ step \in Steps BY DEF LaunchInit, GemInit, Ids, Steps
  <2> QED BY <2>1, <2>2, GemAssumption DEF GemAssumption, LaunchInit, GemInit, GemTypes
<1> QED BY <1>1, <1>2, <1>3 DEF AllTypes, StageTypes, LaunchInit

LEMMA TypesNext == IInv /\ IInv' /\ AllTypes /\ [LaunchNext]_launchVars => AllTypes'
<1> SUFFICES ASSUME IInv, IInv', AllTypes, [LaunchNext]_launchVars PROVE AllTypes' OBVIOUS
<1> USE DEF IInv, AllTypes
<1>1. StageTypes'
  BY DEF LaunchNext, launchVars, StageTypes, Boot, Browse, Pick, ReadAndDraw, Drawn, PickTool, HandOff, Launching
<1>2. MachineTypes'
  <2>1. UNCHANGED vars \/ Placed \/ Next
    BY DEF LaunchNext, launchVars, Boot, Browse, Pick, ReadAndDraw, Drawn, PickTool, HandOff, Launching
  <2> QED BY <2>1, MachineStep, MachineKept
<1>3. ListOthers'
  <2>1. UNCHANGED listVars \/ ForgetLists \/ ListNext
    BY DEF LaunchNext, launchVars, Boot, Browse, Pick, ReadAndDraw, Drawn, PickTool, HandOff, Launching
  <2> QED BY <2>1, ListOthersStep, ListOthersKept
<1>4. GemTypes'
  <2>1. CASE Boot BY <2>1, GemTypesStep DEF Boot
  <2>2. CASE ReadAndDraw BY <2>2, GemTypesStep DEF ReadAndDraw
  <2>3. CASE ~Boot /\ ~ReadAndDraw
    <3>1. UNCHANGED gemVars \/ ForgetGem
      BY <2>3 DEF LaunchNext, launchVars, Browse, Pick, Drawn, PickTool, HandOff, Launching
    <3> QED BY <3>1, GemTypesKept
  <2> QED BY <2>1, <2>2, <2>3
<1> QED BY <1>1, <1>2, <1>3, <1>4

\* The state is well formed on the whole way from the arguments of the boot to the program that
\* starts (system.lua, ui.lua, retrogem.cpp, elf.c, loader.c), for any devices, discs and arguments.
THEOREM LaunchTypeCorrect == LaunchSpec => []LaunchTypeOK
<1>1. IInv /\ AllTypes => LaunchTypeOK
  <2> SUFFICES ASSUME IInv, AllTypes PROVE LaunchTypeOK OBVIOUS
  <2>1. TypeOK BY DEF IInv, Handoff, Slotted, AllTypes, MachineTypes, TypeOK
  <2>2. ListTypeOK
    <3>1. /\ live \in BOOLEAN /\ reveal \in BOOLEAN /\ kept \in {"none", "on", "off"}
          /\ ListType /\ ListOthers
      BY DEF IInv, Lists, Switches, AllTypes
    <3>2. memo \in (SUBSET Entries) \union {NoFile}
      <4>1. memo = NoFile \/ memo \subseteq Entries BY <3>1 DEF ListOthers
      <4> QED BY <4>1
    <3> QED BY <3>1, <3>2, Zenon DEF ListType, ListOthers, ListTypeOK
  <2>3. GemTypeOK
    <3>1. drawn \in 0 .. Frames /\ at \in Nat
      BY GemAssumption DEF GemAssumption, IInv, Gem, AllTypes, GemTypes
    <3> QED BY <3>1 DEF IInv, Gem, AllTypes, GemTypes, GemTypeOK
  <2> QED BY <2>1, <2>2, <2>3 DEF LaunchTypeOK, AllTypes, StageTypes
<1>2. IInv /\ AllTypes /\ [LaunchNext]_launchVars => AllTypes'
  BY NextIInv, TypesNext
<1> QED BY <1>1, <1>2, TypesInitially, Inductive, PTL DEF LaunchSpec

=============================================================================
