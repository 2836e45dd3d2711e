-------------------------- MODULE PfsMountsProofs --------------------------
(***************************************************************************)
(* What the mount slots hold, proved for every set of partitions and every *)
(* choice of mounts that fail: the state is of its type, pfs1 is the boot  *)
(* partition's, the record never names another partition than the one that *)
(* is mounted, the read-write flag is true, no game partition outlives its *)
(* handler, and the next program finds the mounts it was promised.         *)
(*                                                                         *)
(* The handlers thread the mounts through one call after another, so the   *)
(* proof goes by calls: an effect lemma for each call, from which it keeps *)
(* Sound and Quiet, and then every handler keeps them.                     *)
(***************************************************************************)
EXTENDS PfsMounts, TLAPS

\* The mounts are of their type, pfs1 is b's and writable if w says so, and the record does not
\* lie.
Sound(h, b, w) ==
  /\ h \in Mounts
  /\ b # NoPart => h.at[BootSlot] \in {b, NoPart} /\ h.slots[BootSlot] \in {b, NoPart}
  /\ \A s \in Slots \ {0} : h.slots[s] # NoPart => h.at[s] \in {h.slots[s], NoPart}
  /\ w /\ h.at[BootSlot] # NoPart => BootSlot \in h.rw

\* No game partition is mounted, or on record.
Quiet(h) == \A s \in Slots : h.at[s] \notin Played /\ h.slots[s] \notin Played

Fine(h, w) == Sound(h, boot, w) /\ Quiet(h)

\* The flag belongs to a boot partition that has been taken over from the menu.
Flag == bootRW => boot # NoPart /\ task # "start"

IInv ==
  /\ TypeOK
  /\ Flag
  /\ Sound(hdd, boot, bootRW)
  /\ task # "gone" => Quiet(hdd)
  /\ HandoffMounts

-----------------------------------------------------------------------------
(* What each call does to the slots.                                       *)

\* A call on slot s leaves the other slots, and what is on record for them, alone.
Only(h, g, s) ==
  /\ g \in Mounts
  /\ g.gameSlot = h.gameSlot
  /\ \A t \in Slots \ {s} :
       /\ g.at[t] = h.at[t] /\ g.slots[t] = h.slots[t]
       /\ t \in g.rw <=> t \in h.rw

LEMMA UmountEffect ==
  ASSUME NEW h \in Mounts, NEW s \in Slots
  PROVE  Only(h, Umount(h, s), s) /\ Umount(h, s).at[s] = NoPart
         /\ Umount(h, s).slots = h.slots
BY DEF Only, Umount, Mounts

LEMMA PutEffect ==
  ASSUME NEW h \in Mounts, NEW s \in Slots, NEW p \in Parts, NEW mode \in BOOLEAN
  PROVE  /\ Only(h, Put(h, p, s, mode), s) /\ Put(h, p, s, mode).at[s] = p
         /\ Put(h, p, s, mode).slots = h.slots
         /\ mode => s \in Put(h, p, s, mode).rw
BY DEF Only, Put, Mounts, RW

\* A mount puts the partition on the slot, or empties it.
LEMMA MntEffect ==
  ASSUME NEW h \in Mounts, NEW s \in Slots, NEW p \in Parts, NEW mode \in BOOLEAN, NEW bad
  PROVE  LET g == Mnt(h, p, s, mode, bad)
         IN /\ Only(h, g, s)
            /\ g.slots = h.slots
            /\ \/ g.at[s] = p /\ (mode => s \in g.rw)
               \/ g.at[s] = NoPart
<1> DEFINE u == Umount(h, s)
<1>1. Only(h, u, s) /\ u.at[s] = NoPart /\ u.slots = h.slots
  BY UmountEffect
<1>2. /\ Only(h, Put(h, p, s, mode), s) /\ Put(h, p, s, mode).at[s] = p
      /\ Put(h, p, s, mode).slots = h.slots
      /\ mode => s \in Put(h, p, s, mode).rw
  BY PutEffect
<1>3. u \in Mounts
  BY <1>1 DEF Only
<1>4. /\ Only(u, Put(u, p, s, mode), s) /\ Put(u, p, s, mode).at[s] = p
      /\ Put(u, p, s, mode).slots = u.slots
      /\ mode => s \in Put(u, p, s, mode).rw
  BY <1>3, PutEffect
<1>5. Only(h, Put(u, p, s, mode), s)
  BY <1>1, <1>4 DEF Only
<1>6. Only(h, [u EXCEPT !.warm = TRUE], s) /\ [u EXCEPT !.warm = TRUE].at[s] = NoPart
      /\ [u EXCEPT !.warm = TRUE].slots = h.slots
  BY <1>1 DEF Only, Mounts
<1> QED
  BY <1>1, <1>2, <1>4, <1>5, <1>6 DEF Mnt

LEMMA ForgetEffect ==
  ASSUME NEW h \in Mounts, NEW s \in Slots
  PROVE  /\ Only(h, Forget(h, s), s)
         /\ Forget(h, s).at = h.at /\ Forget(h, s).rw = h.rw
         /\ Forget(h, s).slots[s] = NoPart
BY DEF Only, Forget, Mounts, NoSlot

LEMMA RememberEffect ==
  ASSUME NEW h \in Mounts, NEW p \in Parts, NEW s \in Slots
  PROVE  /\ Only(h, Remember(h, p, s), s)
         /\ Remember(h, p, s).at = h.at /\ Remember(h, p, s).rw = h.rw
         /\ Remember(h, p, s).slots[s] = p
<1>1. Only(h, Forget(h, s), s) /\ Forget(h, s).at = h.at /\ Forget(h, s).rw = h.rw
  BY ForgetEffect
<1> QED
  BY <1>1 DEF Only, Remember, Mounts

\* A tracked mount succeeds and is on record, or empties the slot and leaves the record alone.
LEMMA MountTrackedEffect ==
  ASSUME NEW h \in Mounts, NEW s \in Slots, NEW p \in Parts, NEW mode \in BOOLEAN, NEW bad
  PROVE  LET g == MountTracked(h, p, s, mode, bad)
         IN /\ Only(h, g, s)
            /\ \/ g.at[s] = p /\ g.slots[s] = p /\ (mode => s \in g.rw)
               \/ g.at[s] = NoPart /\ g.slots[s] = h.slots[s]
<1> DEFINE m == Mnt(h, p, s, mode, bad)
<1>1. /\ Only(h, m, s) /\ m.slots = h.slots
      /\ (m.at[s] = p /\ (mode => s \in m.rw)) \/ m.at[s] = NoPart
  BY MntEffect
<1>2. m \in Mounts
  BY <1>1 DEF Only
<1>3. Only(m, Remember(m, p, s), s) /\ Remember(m, p, s).at = m.at
      /\ Remember(m, p, s).rw = m.rw /\ Remember(m, p, s).slots[s] = p
  BY <1>2, RememberEffect
<1>4. Only(h, Remember(m, p, s), s)
  BY <1>1, <1>3 DEF Only
<1>5. p # NoPart
  BY PfsAssumption
<1> QED
  BY <1>1, <1>3, <1>4, <1>5 DEF MountTracked

\* A tracked unmount empties the slot; its record goes, unless there was nothing mounted.
LEMMA UMountTrackedEffect ==
  ASSUME NEW h \in Mounts, NEW s \in Slots
  PROVE  LET g == UMountTracked(h, s)
         IN /\ Only(h, g, s)
            /\ g.at[s] = NoPart
            /\ g.slots[s] = NoPart \/ (h.at[s] = NoPart /\ g.slots[s] = h.slots[s])
<1> DEFINE u == Umount(h, s)
<1>1. Only(h, u, s) /\ u.at[s] = NoPart /\ u.slots = h.slots
  BY UmountEffect
<1>2. u \in Mounts
  BY <1>1 DEF Only
<1>3. Only(u, Forget(u, s), s) /\ Forget(u, s).at = u.at /\ Forget(u, s).slots[s] = NoPart
  BY <1>2, ForgetEffect
<1>4. Only(h, Forget(u, s), s)
  BY <1>1, <1>3 DEF Only
<1>5. Only(h, h, s)
  BY DEF Only
<1> QED
  BY <1>1, <1>3, <1>4, <1>5 DEF UMountTracked

-----------------------------------------------------------------------------
(* What each call keeps.                                                   *)

\* pfs1 is for nobody else on a drive boot: a call on slot s for partition p may go there only
\* for the boot partition, and not behind the back of the flag.
Allowed(p, s, w) == boot # NoPart /\ s = BootSlot => p = boot /\ ~w

\* The flag is on for a drive boot only.
Flagged(w) == w \in BOOLEAN /\ (w => boot # NoPart)

LEMMA MountTrackedSound ==
  ASSUME NEW w, Flagged(w), NEW h, Sound(h, boot, w), NEW s \in Slots, NEW p \in Parts,
         NEW mode \in BOOLEAN, NEW bad, Allowed(p, s, w)
  PROVE  Sound(MountTracked(h, p, s, mode, bad), boot, w)
<1> DEFINE g == MountTracked(h, p, s, mode, bad)
<1>1. h \in Mounts
  BY DEF Sound
<1>2. /\ Only(h, g, s)
      /\ \/ g.at[s] = p /\ g.slots[s] = p
         \/ g.at[s] = NoPart /\ g.slots[s] = h.slots[s]
  BY <1>1, MountTrackedEffect
<1> QED
  BY <1>2 DEF Sound, Only, Allowed, Flagged, Slots, BootSlot

LEMMA UMountTrackedSound ==
  ASSUME NEW w, NEW h, Sound(h, boot, w), NEW s \in Slots
  PROVE  Sound(UMountTracked(h, s), boot, w)
<1> DEFINE g == UMountTracked(h, s)
<1>1. h \in Mounts
  BY DEF Sound
<1>2. Only(h, g, s) /\ g.at[s] = NoPart /\ g.slots[s] \in {NoPart, h.slots[s]}
  BY <1>1, UMountTrackedEffect
<1> QED
  BY <1>2 DEF Sound, Only, Slots, BootSlot

LEMMA MountTrackedFine ==
  ASSUME NEW w, Flagged(w), NEW h, Fine(h, w), NEW s \in Slots, NEW p \in Parts \ Played,
         NEW mode \in BOOLEAN, NEW bad, Allowed(p, s, w)
  PROVE  Fine(MountTracked(h, p, s, mode, bad), w)
<1> DEFINE g == MountTracked(h, p, s, mode, bad)
<1>1. Sound(g, boot, w) /\ h \in Mounts
  BY MountTrackedSound DEF Fine, Sound
<1>2. /\ Only(h, g, s)
      /\ \/ g.at[s] = p /\ g.slots[s] = p
         \/ g.at[s] = NoPart /\ g.slots[s] = h.slots[s]
  BY <1>1, MountTrackedEffect
<1>3. NoPart \notin Played
  BY PfsAssumption DEF Parts, Played
<1> QED
  BY <1>1, <1>2, <1>3 DEF Fine, Quiet, Only

LEMMA UMountTrackedFine ==
  ASSUME NEW w, NEW h, Fine(h, w), NEW s \in Slots
  PROVE  Fine(UMountTracked(h, s), w)
<1> DEFINE g == UMountTracked(h, s)
<1>1. Sound(g, boot, w) /\ h \in Mounts
  BY UMountTrackedSound DEF Fine, Sound
<1>2. Only(h, g, s) /\ g.at[s] = NoPart /\ g.slots[s] \in {NoPart, h.slots[s]}
  BY <1>1, UMountTrackedEffect
<1>3. NoPart \notin Played
  BY PfsAssumption DEF Parts, Played
<1> QED
  BY <1>1, <1>2, <1>3 DEF Fine, Quiet, Only

-----------------------------------------------------------------------------
(* Game partitions.                                                        *)

\* While a game partition is mounted, it is the only one, on the game slot, and that is not the
\* boot partition's.
Held(h, p, w) ==
  /\ Sound(h, boot, w)
  /\ GameMounted(h, p) =>
       /\ boot # NoPart => h.gameSlot # BootSlot
       /\ \A s \in Slots \ {h.gameSlot} : h.at[s] \notin Played /\ h.slots[s] \notin Played
  /\ ~GameMounted(h, p) => Quiet(h)

LEMMA GameMountHeld ==
  ASSUME NEW w, Flagged(w), NEW h, Fine(h, w), NEW p \in Played, NEW mode \in BOOLEAN, NEW bad
  PROVE  LET g == GameMount(h, p, mode, bad)
         IN Held(g, p, w) /\ (GameMounted(g, p) /\ mode => g.gameSlot \in g.rw)
<1> DEFINE c == GameSlots(h)
           one == MountTracked(h, p, c[1], mode, bad)
           two == MountTracked(one, p, c[2], mode, bad)
<1>1. /\ c[1] \in Slots /\ c[2] \in Slots /\ c[1] \in 0 .. 2 /\ c[2] \in 0 .. 2
      /\ boot # NoPart => c[1] # BootSlot /\ c[2] # BootSlot
  BY DEF GameSlots, Slots, ArtSlot, BootSlot
<1>2. p \in Parts /\ NoPart \notin Played /\ p # NoPart
  BY PfsAssumption DEF Parts, Played
<1>3. Sound(h, boot, w) /\ h \in Mounts /\ Quiet(h)
  BY DEF Fine, Sound
<1>4. Sound(one, boot, w) /\ one \in Mounts
  BY <1>1, <1>2, <1>3, MountTrackedSound DEF Allowed, Sound
<1>5. Sound(two, boot, w) /\ two \in Mounts
  BY <1>1, <1>2, <1>4, MountTrackedSound DEF Allowed, Sound
<1>6. /\ Only(h, one, c[1])
      /\ \/ one.at[c[1]] = p /\ one.slots[c[1]] = p /\ (mode => c[1] \in one.rw)
         \/ one.at[c[1]] = NoPart /\ one.slots[c[1]] = h.slots[c[1]]
  BY <1>1, <1>2, <1>3, MountTrackedEffect
<1>7. /\ Only(one, two, c[2])
      /\ \/ two.at[c[2]] = p /\ two.slots[c[2]] = p /\ (mode => c[2] \in two.rw)
         \/ two.at[c[2]] = NoPart /\ two.slots[c[2]] = one.slots[c[2]]
  BY <1>1, <1>2, <1>4, MountTrackedEffect
<1> HIDE DEF c, one, two
<1>8. CASE one.at[c[1]] = p
  <2> DEFINE g == [one EXCEPT !.gameSlot = c[1]]
  <2>1. GameMount(h, p, mode, bad) = g
    BY <1>8 DEF GameMount, c, one
  <2>2. g \in Mounts /\ g.gameSlot = c[1] /\ g.at = one.at /\ g.slots = one.slots /\ g.rw = one.rw
    BY <1>1, <1>4 DEF Mounts
  <2>3. Sound(g, boot, w) /\ GameMounted(g, p)
    BY <1>1, <1>4, <1>8, <2>2 DEF Sound, GameMounted, Slots, NoSlot
  <2>4. \A s \in Slots \ {c[1]} : g.at[s] \notin Played /\ g.slots[s] \notin Played
    BY <1>3, <1>6, <2>2 DEF Only, Quiet
  <2>5. mode => c[1] \in g.rw
    BY <1>2, <1>6, <1>8, <2>2
  <2> QED
    BY <1>1, <2>1, <2>2, <2>3, <2>4, <2>5 DEF Held
<1>9. ASSUME one.at[c[1]] # p PROVE Quiet(one)
  BY <1>2, <1>3, <1>6, <1>9 DEF Only, Quiet
<1>10. CASE one.at[c[1]] # p /\ two.at[c[2]] = p
  <2> DEFINE g == [two EXCEPT !.gameSlot = c[2]]
  <2>1. GameMount(h, p, mode, bad) = g
    BY <1>10 DEF GameMount, c, one, two
  <2>2. g \in Mounts /\ g.gameSlot = c[2] /\ g.at = two.at /\ g.slots = two.slots /\ g.rw = two.rw
    BY <1>1, <1>5 DEF Mounts
  <2>3. Sound(g, boot, w) /\ GameMounted(g, p)
    BY <1>1, <1>5, <1>10, <2>2 DEF Sound, GameMounted, Slots, NoSlot
  <2>4. \A s \in Slots \ {c[2]} : g.at[s] \notin Played /\ g.slots[s] \notin Played
    BY <1>7, <1>9, <1>10, <2>2 DEF Only, Quiet
  <2>5. mode => c[2] \in g.rw
    BY <1>2, <1>7, <1>10, <2>2
  <2> QED
    BY <1>1, <2>1, <2>2, <2>3, <2>4, <2>5 DEF Held
<1>11. CASE one.at[c[1]] # p /\ two.at[c[2]] # p
  <2>1. GameMount(h, p, mode, bad) = two
    BY <1>11 DEF GameMount, c, one, two
  <2>2. Quiet(two)
    BY <1>2, <1>7, <1>9, <1>11 DEF Only, Quiet
  <2>3. two.gameSlot \in (0 .. 2) \union {NoSlot}
    BY <1>5 DEF Mounts
  <2>4. ~GameMounted(two, p)
    BY <2>2, <2>3 DEF GameMounted, Quiet, Slots
  <2> QED
    BY <1>5, <2>1, <2>2, <2>4 DEF Held
<1> QED
  BY <1>8, <1>10, <1>11

\* The game slot let go, nothing of a game is left.
LEMMA HeldReleased ==
  ASSUME NEW w, NEW h, NEW p \in Played, Held(h, p, w), GameMounted(h, p)
  PROVE  Fine(UMountTracked(h, h.gameSlot), w)
<1> DEFINE s == h.gameSlot
           g == UMountTracked(h, s)
<1>1. h \in Mounts /\ Sound(h, boot, w) /\ s # NoSlot /\ h.at[s] = p
  BY DEF Held, Sound, GameMounted
<1>2. s \in Slots
  BY <1>1 DEF Mounts, Slots
<1>3. p # NoPart /\ NoPart \notin Played
  BY PfsAssumption DEF Parts, Played
<1>4. Only(h, g, s) /\ g.at[s] = NoPart /\ g.slots[s] = NoPart
  BY <1>1, <1>2, <1>3, UMountTrackedEffect
<1>5. Sound(g, boot, w)
  BY <1>1, <1>2, UMountTrackedSound
<1>6. Quiet(g)
  BY <1>3, <1>4 DEF Held, Only, Quiet
<1> QED
  BY <1>5, <1>6 DEF Fine

LEMMA ReleaseFine ==
  ASSUME NEW w, NEW h, NEW p \in Played, Held(h, p, w)
  PROVE  Fine(Release(h, p), w)
BY HeldReleased DEF Release, Held, Fine

-----------------------------------------------------------------------------
(* POPSTARTER.ELF.                                                         *)

LEMMA ResolveFine ==
  ASSUME NEW w, Flagged(w), NEW h, Fine(h, w), NEW p \in Parts \ Played, NEW has,
         NEW hint \in {0, NoSlot}, NEW slot \in {ArtSlot, ToolSlot}, NEW bad
  PROVE  Fine(Resolve(h, p, has, hint, slot, bad), w)
<1>1. h \in Mounts
  BY DEF Fine, Sound
<1>2. ASSUME Probe(h, hint, p, has) PROVE Fine(Remember(h, p, hint), w)
  <2> DEFINE g == Remember(h, p, 0)
  <2>1. hint = 0
    BY <1>2 DEF Probe
  <2>2. 0 \in Slots /\ BootSlot \in Slots \ {0}
    BY DEF Slots, BootSlot
  <2>3. Only(h, g, 0) /\ g.at = h.at /\ g.rw = h.rw /\ g.slots[0] = p
    BY <1>1, <2>2, RememberEffect
  <2>4. Sound(g, boot, w)
    BY <2>2, <2>3 DEF Fine, Sound, Only
  <2>5. Quiet(g)
    BY <2>3 DEF Fine, Quiet, Only
  <2> QED
    BY <2>1, <2>4, <2>5 DEF Fine
<1>3. slot \in Slots /\ Allowed(p, slot, w) /\ RO \in BOOLEAN
  BY DEF Allowed, Slots, ArtSlot, ToolSlot, BootSlot, RO
<1>4. Fine(MountTracked(h, p, slot, RO, bad), w)
  BY <1>3, MountTrackedFine
<1> QED
  BY <1>2, <1>4 DEF Resolve

\* Where POPSLoader runs from is no partition of games.
LEMMA BootIsNotPlayed ==
  ASSUME TypeOK, boot # NoPart
  PROVE  boot \in Parts \ Played
BY PfsAssumption DEF TypeOK, Parts, Played

LEMMA CommonIsNotPlayed == Common \in Parts \ Played
BY PfsAssumption DEF Parts, Played

LEMMA ResolveCwdFine ==
  ASSUME TypeOK, boot # NoPart, NEW w, Flagged(w), NEW h, Fine(h, w), NEW bad
  PROVE  Fine(ResolveCwd(h, bad), w)
BY BootIsNotPlayed, ResolveFine DEF ResolveCwd

LEMMA SidecarFine ==
  ASSUME TypeOK, NEW w, Flagged(w), NEW h, Fine(h, w), NEW bad
  PROVE  Fine(Sidecar(h, bad), w)
<1>1. ASSUME boot # NoPart PROVE Fine(ResolveCwd(h, bad), w)
  BY <1>1, ResolveCwdFine
<1>2. ASSUME boot # NoPart PROVE Fine(ResolveCwd(ResolveCwd(h, bad), bad), w)
  BY <1>1, <1>2, ResolveCwdFine
<1> QED
  BY <1>1, <1>2 DEF Sidecar

LEMMA SourceContextFine ==
  ASSUME TypeOK, NEW w, Flagged(w), NEW h, Fine(h, w), NEW bad
  PROVE  Fine(SourceContext(h, bad), w)
<1>1. ASSUME boot # NoPart PROVE Fine(ResolveCwd(h, bad), w)
  BY <1>1, ResolveCwdFine
<1>2. ASSUME boot # NoPart PROVE Fine(ResolveCwd(ResolveCwd(h, bad), bad), w)
  BY <1>1, <1>2, ResolveCwdFine
<1> QED
  BY <1>1, <1>2 DEF SourceContext

\* A slot that a file was found through is a slot.
LEMMA FoundIsSlot ==
  ASSUME NEW w, NEW h, Fine(h, w), NEW p \in Parts, NEW has, FoundAt(h, p, has) # NoSlot
  PROVE  FoundAt(h, p, has) \in Slots
BY DEF Fine, Sound, Mounts, FoundAt

\* What the search for POPSTARTER answers with.
GoodPath(path, w) ==
  /\ Fine(path.hdd, w)
  /\ path.on # NoPart => path.slot \in Slots

LEMMA ResolvePopstarterGood ==
  ASSUME TypeOK, NEW w, Flagged(w), NEW h, Fine(h, w), NEW bad
  PROVE  GoodPath(ResolvePopstarterPath(h, bad), w)
<1> DEFINE g == Sidecar(h, bad)
           k == IF CwdSlot(g) # NoSlot THEN g ELSE ResolveCwd(g, bad)
<1>1. CASE boot = NoPart
  BY <1>1 DEF ResolvePopstarterPath, GoodPath, Path
<1>2. CASE boot # NoPart
  <2>1. Fine(g, w)
    BY SidecarFine
  <2>2. Fine(ResolveCwd(g, bad), w)
    BY <1>2, <2>1, ResolveCwdFine
  <2>3. Fine(k, w)
    BY <2>1, <2>2
  <2>4. ASSUME CwdSlot(k) # NoSlot PROVE CwdSlot(k) \in Slots
    <3>1. boot \in Parts
      BY <1>2, BootIsNotPlayed
    <3>2. FoundAt(k, boot, InCwd) # NoSlot => FoundAt(k, boot, InCwd) \in Slots
      BY <2>3, <3>1, FoundIsSlot
    <3> QED
      BY <2>4, <3>2 DEF CwdSlot, Slots, BootSlot
  <2> QED
    BY <1>2, <2>3, <2>4 DEF ResolvePopstarterPath, GoodPath, Path
<1> QED
  BY <1>1, <1>2

LEMMA ResolveLaunchGood ==
  ASSUME TypeOK, NEW w, Flagged(w), NEW h, Fine(h, w), NEW place, NEW bad
  PROVE  GoodPath(ResolveLaunch(h, place, bad), w)
<1> DEFINE has == "common" \in homes
           g == Resolve(h, Common, has, 0, ToolSlot, bad)
<1>1. GoodPath(Path(h, NoPart, NoSlot), w)
  BY DEF GoodPath, Path
<1>2. GoodPath(ResolvePopstarterPath(h, bad), w)
  BY ResolvePopstarterGood
<1>3. Fine(g, w)
  BY CommonIsNotPlayed, ResolveFine
<1>4. FoundAt(g, Common, has) # NoSlot => GoodPath(Path(g, Common, FoundAt(g, Common, has)), w)
  BY <1>3, CommonIsNotPlayed, FoundIsSlot DEF GoodPath, Path
<1>5. Fine(UMountTracked(g, ToolSlot), w)
  BY <1>3, UMountTrackedFine DEF Slots, ToolSlot
<1>6. GoodPath(ResolvePopstarterPath(UMountTracked(g, ToolSlot), bad), w)
  BY <1>5, ResolvePopstarterGood
<1> QED
  BY <1>1, <1>2, <1>4, <1>6 DEF ResolveLaunch

-----------------------------------------------------------------------------
(* The hand-over, and the takeover of the boot partition.                  *)

LEMMA ColdPrepFine ==
  ASSUME NEW w, NEW h, Fine(h, w)
  PROVE  Fine(ColdPrep(h), w) /\ (\A s \in Slots : ColdPrep(h).at[s] = NoPart)
<1> DEFINE h0 == UMountTracked(h, 0)
           h1 == UMountTracked(h0, 1)
           h2 == UMountTracked(h1, 2)
           h3 == UMountTracked(h2, 3)
<1>1. 0 \in Slots /\ 1 \in Slots /\ 2 \in Slots /\ 3 \in Slots /\ Slots = {0, 1, 2, 3}
  BY DEF Slots
<1>2. Fine(h0, w) /\ h \in Mounts
  BY <1>1, UMountTrackedFine DEF Fine, Sound
<1>3. Fine(h1, w) /\ h0 \in Mounts
  BY <1>1, <1>2, UMountTrackedFine DEF Fine, Sound
<1>4. Fine(h2, w) /\ h1 \in Mounts
  BY <1>1, <1>3, UMountTrackedFine DEF Fine, Sound
<1>5. Fine(h3, w) /\ h2 \in Mounts
  BY <1>1, <1>4, UMountTrackedFine DEF Fine, Sound
<1>6. h0.at[0] = NoPart
  BY <1>1, <1>2, UMountTrackedEffect
<1>7. Only(h0, h1, 1) /\ h1.at[1] = NoPart
  BY <1>1, <1>3, UMountTrackedEffect
<1>8. Only(h1, h2, 2) /\ h2.at[2] = NoPart
  BY <1>1, <1>4, UMountTrackedEffect
<1>9. Only(h2, h3, 3) /\ h3.at[3] = NoPart
  BY <1>1, <1>5, UMountTrackedEffect
<1> HIDE DEF h0, h1, h2, h3
<1>10. \A s \in Slots : h3.at[s] = NoPart
  BY <1>1, <1>6, <1>7, <1>8, <1>9 DEF Only
<1> QED
  BY <1>5, <1>10 DEF ColdPrep, h0, h1, h2, h3

LEMMA WarmPrepFine ==
  ASSUME NEW w, NEW h, Fine(h, w)
  PROVE  /\ Fine(WarmPrep(h), w)
         /\ \A s \in Slots : WarmPrep(h).at[s] # NoPart => s \in KeptWarm
<1> DEFINE h2 == UMountTracked(h, 2)
           h3 == UMountTracked(h2, 3)
           h0 == UMountTracked(h3, 0)
           h1 == UMountTracked(h0, 1)
<1>1. 0 \in Slots /\ 1 \in Slots /\ 2 \in Slots /\ 3 \in Slots /\ Slots = {0, 1, 2, 3}
  BY DEF Slots
<1>2. Fine(h2, w) /\ h \in Mounts
  BY <1>1, UMountTrackedFine DEF Fine, Sound
<1>3. Fine(h3, w) /\ h2 \in Mounts
  BY <1>1, <1>2, UMountTrackedFine DEF Fine, Sound
<1>4. Fine(h0, w) /\ h3 \in Mounts
  BY <1>1, <1>3, UMountTrackedFine DEF Fine, Sound
<1>5. Fine(h1, w) /\ h0 \in Mounts
  BY <1>1, <1>4, UMountTrackedFine DEF Fine, Sound
<1>6. h2.at[2] = NoPart
  BY <1>1, <1>2, UMountTrackedEffect
<1>7. Only(h2, h3, 3) /\ h3.at[3] = NoPart
  BY <1>1, <1>3, UMountTrackedEffect
<1>8. Only(h3, h0, 0) /\ h0.at[0] = NoPart
  BY <1>1, <1>4, UMountTrackedEffect
<1>9. Only(h0, h1, 1) /\ h1.at[1] = NoPart
  BY <1>1, <1>5, UMountTrackedEffect
<1> HIDE DEF h0, h1, h2, h3
<1>10. \A s \in Slots : h3.at[s] # NoPart => s \in {0, BootSlot}
  BY <1>1, <1>6, <1>7 DEF Only, BootSlot
<1>11. \A s \in Slots : h1.at[s] = NoPart
  BY <1>1, <1>6, <1>7, <1>8, <1>9 DEF Only
<1> QED
  BY <1>3, <1>5, <1>10, <1>11 DEF WarmPrep, KeptWarm, h0, h1, h2, h3

\* The loader's mount is on pfs0, behind the record's back.
LEMMA LoaderMountFine ==
  ASSUME NEW w, NEW h, Fine(h, w), NEW p \in Parts \ Played, NEW bad
  PROVE  /\ Fine(LoaderMount(h, p, bad), w)
         /\ \A s \in Slots \ {0} : LoaderMount(h, p, bad).at[s] = h.at[s]
<1> DEFINE g == LoaderMount(h, p, bad)
<1>1. h \in Mounts /\ 0 \in Slots /\ BootSlot \in Slots \ {0} /\ NoPart \notin Played
  BY PfsAssumption DEF Fine, Sound, Slots, BootSlot, Parts, Played
<1>2. Only(h, g, 0) /\ g.slots = h.slots /\ g.at[0] \in {p, NoPart}
  BY <1>1 DEF LoaderMount, Umount, Only, Mounts
<1>3. Sound(g, boot, w)
  BY <1>1, <1>2 DEF Fine, Sound, Only
<1>4. Quiet(g)
  BY <1>1, <1>2 DEF Fine, Quiet, Only
<1> QED
  BY <1>2, <1>3, <1>4 DEF Fine, Only

\* The loader is never asked for a partition of games.
LEMMA ContextIsNotPlayed ==
  ASSUME TypeOK, NEW w, NEW h, Fine(h, w), NEW slot \in Slots
  PROVE  ContextOf(h, slot) \notin Played
BY BootIsNotPlayed DEF ContextOf, Fine, Quiet

LEMMA GateFine ==
  ASSUME NEW w, Flagged(w), NEW h, Fine(h, w), NEW context, context \notin Played, NEW bad
  PROVE  Fine(Gate(h, context, bad), w)
<1>1. 0 \in Slots /\ Allowed(context, 0, w) /\ RO \in BOOLEAN
  BY DEF Slots, Allowed, BootSlot, RO
<1>2. context \in Parts => Fine(MountTracked(h, context, 0, RO, bad), w)
  BY <1>1, MountTrackedFine
<1> QED
  BY <1>2 DEF Gate

\* The takeover: nothing on record changes, and the flag says what was done.
LEMMA EnsureBootWritableFine ==
  ASSUME TypeOK, boot # NoPart, NEW w \in BOOLEAN, NEW h, Fine(h, w), NEW bad
  PROVE  LET t == EnsureBootWritable(h, w, bad)
         IN t.bootRW \in BOOLEAN /\ Fine(t.hdd, t.bootRW)
<1> DEFINE u == Umount(h, BootSlot)
           g == Mnt(u, boot, BootSlot, RW, bad)
           k == Mnt(g, boot, BootSlot, RO, bad)
<1>1. /\ h \in Mounts /\ BootSlot \in Slots /\ RO \in BOOLEAN /\ RW \in BOOLEAN
      /\ boot \in Parts \ Played /\ NoPart \notin Played
  BY BootIsNotPlayed, PfsAssumption DEF Fine, Sound, Slots, BootSlot, RO, RW, Parts, Played
<1>2. Only(h, u, BootSlot) /\ u.slots = h.slots /\ u \in Mounts
  BY <1>1, UmountEffect DEF Only
<1>3. /\ Only(u, g, BootSlot) /\ g.slots = u.slots /\ g \in Mounts
      /\ (g.at[BootSlot] = boot /\ (RW => BootSlot \in g.rw)) \/ g.at[BootSlot] = NoPart
  BY <1>1, <1>2, MntEffect DEF Only
<1>4. /\ Only(g, k, BootSlot) /\ k.slots = g.slots /\ k \in Mounts
      /\ k.at[BootSlot] \in {boot, NoPart}
  BY <1>1, <1>3, MntEffect DEF Only
<1> HIDE DEF u, g, k
<1>5. ASSUME g.at[BootSlot] = boot PROVE Fine(g, TRUE)
  <2>1. Sound(g, boot, TRUE)
    BY <1>1, <1>2, <1>3, <1>5 DEF Fine, Sound, Only, RW
  <2>2. Quiet(g)
    BY <1>1, <1>2, <1>3, <1>5 DEF Fine, Quiet, Only
  <2> QED
    BY <2>1, <2>2 DEF Fine
<1>6. Fine(k, FALSE)
  <2>1. Sound(k, boot, FALSE)
    BY <1>1, <1>2, <1>3, <1>4 DEF Fine, Sound, Only
  <2>2. Quiet(k)
    BY <1>1, <1>2, <1>3, <1>4 DEF Fine, Quiet, Only
  <2> QED
    BY <2>1, <2>2 DEF Fine
<1>7. EnsureBootWritable(h, w, bad) =
        IF w /\ h.at[BootSlot] = boot THEN Taken(h, TRUE)
        ELSE IF g.at[BootSlot] = boot THEN Taken(g, TRUE) ELSE Taken(k, FALSE)
  BY DEF EnsureBootWritable, u, g, k
<1> DEFINE t == EnsureBootWritable(h, w, bad)
<1>8. CASE w /\ h.at[BootSlot] = boot
  <2>1. w = TRUE /\ t = Taken(h, TRUE)
    BY <1>7, <1>8
  <2>2. t.hdd = h /\ t.bootRW = TRUE
    BY <2>1 DEF Taken
  <2> QED
    BY <2>1, <2>2, Zenon
<1>9. CASE ~(w /\ h.at[BootSlot] = boot) /\ g.at[BootSlot] = boot
  <2>1. t = Taken(g, TRUE)
    BY <1>7, <1>9
  <2>2. t.hdd = g /\ t.bootRW = TRUE
    BY <2>1 DEF Taken
  <2> QED
    BY <1>5, <1>9, <2>2, Zenon
<1>10. CASE ~(w /\ h.at[BootSlot] = boot) /\ g.at[BootSlot] # boot
  <2>1. t = Taken(k, FALSE)
    BY <1>7, <1>10
  <2>2. t.hdd = k /\ t.bootRW = FALSE
    BY <2>1 DEF Taken
  <2> QED
    BY <1>6, <2>2, Zenon
<1> QED
  BY <1>8, <1>9, <1>10

LEMMA EnsureBootMountFine ==
  ASSUME TypeOK, boot # NoPart, NEW h, Fine(h, FALSE), NEW bad
  PROVE  Fine(EnsureBootMount(h, bad), FALSE)
<1> DEFINE k == Remember(h, boot, BootSlot)
           g == MountTracked(k, boot, BootSlot, RO, bad)
<1>1. h \in Mounts /\ BootSlot \in Slots /\ RO \in BOOLEAN /\ boot \in Parts \ Played
  BY BootIsNotPlayed DEF Fine, Sound, Slots, BootSlot, RO
<1>2. Only(h, k, BootSlot) /\ k.at = h.at /\ k.rw = h.rw /\ k.slots[BootSlot] = boot
  BY <1>1, RememberEffect
<1>3. Fine(k, FALSE)
  <2>1. Sound(k, boot, FALSE)
    BY <1>1, <1>2 DEF Fine, Sound, Only
  <2>2. Quiet(k)
    BY <1>1, <1>2 DEF Fine, Quiet, Only
  <2> QED
    BY <2>1, <2>2 DEF Fine
<1>4. Flagged(FALSE) /\ Allowed(boot, BootSlot, FALSE)
  BY DEF Flagged, Allowed
<1>5. Fine(g, FALSE)
  BY <1>1, <1>3, <1>4, MountTrackedFine
<1>6. Fine(MountTracked(g, boot, BootSlot, RO, bad), FALSE)
  BY <1>1, <1>4, <1>5, MountTrackedFine
<1> QED
  BY <1>5, <1>6 DEF EnsureBootMount

-----------------------------------------------------------------------------
(* Every handler.                                                          *)

LEMMA InitOK == Init => IInv
<1> SUFFICES ASSUME Init PROVE IInv
  OBVIOUS
<1> USE DEF Init
<1>1. EmptyMounts \in Mounts
  BY DEF EmptyMounts, Mounts, Slots, NoSlot
<1>2. /\ \A s \in Slots : EmptyMounts.at[s] = NoPart /\ EmptyMounts.slots[s] = NoPart
      /\ NoPart \notin Played /\ BootSlot \in Slots /\ RO \in BOOLEAN /\ bootRW = FALSE
  BY PfsAssumption DEF EmptyMounts, Slots, BootSlot, RO, Parts, Played
<1>3. boot # NoPart => boot \in Parts \ Played
  BY PfsAssumption DEF Parts, Played
<1>4. CASE boot = NoPart
  <2>1. hdd = EmptyMounts
    BY <1>4
  <2> QED
    BY <1>1, <1>2, <1>4, <2>1 DEF IInv, TypeOK, Flag, Sound, Quiet, HandoffMounts, Homes
<1>5. CASE boot # NoPart
  <2> DEFINE m == Put(EmptyMounts, boot, BootSlot, RO)
  <2>1. Only(EmptyMounts, m, BootSlot) /\ m.at[BootSlot] = boot /\ m.slots = EmptyMounts.slots
        /\ m \in Mounts
    BY <1>1, <1>2, <1>3, <1>5, PutEffect DEF Only
  <2>2. Only(m, Remember(m, boot, BootSlot), BootSlot) /\ Remember(m, boot, BootSlot).at = m.at
        /\ Remember(m, boot, BootSlot).slots[BootSlot] = boot
    BY <1>2, <1>3, <1>5, <2>1, RememberEffect
  <2>3. hdd = Remember(m, boot, BootSlot)
    BY <1>5
  <2> HIDE DEF m
  <2>4. Sound(hdd, boot, bootRW)
    BY <1>2, <2>1, <2>2, <2>3 DEF Sound, Only
  <2>5. Quiet(hdd)
    BY <1>2, <1>3, <1>5, <2>1, <2>2, <2>3 DEF Quiet, Only
  <2> QED
    BY <1>2, <2>4, <2>5 DEF IInv, TypeOK, Flag, HandoffMounts, Homes, Sound
<1> QED
  BY <1>4, <1>5

\* What a handler that does not hand over has to show.
LEMMA Handled ==
  ASSUME IInv, boot' = boot, homes' = homes, gamepath' \in BOOLEAN,
         Fine(hdd', bootRW'), Flagged(bootRW'),
         todo' \in SUBSET Games, avail' \in SUBSET Games, art' \in SUBSET Slots,
         keepMask' \in SUBSET Slots, task' \in {"menu", "check", "build"},
         outcome' \in {"none", "picked", "refused", "missing"}
  PROVE  IInv'
<1>1. TypeOK'
  BY DEF IInv, TypeOK, Fine, Sound, Flagged
<1>2. Sound(hdd, boot, bootRW)' /\ Quiet(hdd)'
  BY DEF Fine, Sound, Quiet
<1>3. Flag' /\ HandoffMounts'
  BY DEF Flagged, Flag, HandoffMounts
<1> QED
  BY <1>1, <1>2, <1>3 DEF IInv

\* What they all start from.
LEMMA Before ==
  ASSUME IInv, task # "gone"
  PROVE  TypeOK /\ Fine(hdd, bootRW) /\ Flagged(bootRW)
BY DEF IInv, TypeOK, Flag, Flagged, Fine

\* How most of them leave the rest.
LEMMA Rest ==
  ASSUME IInv, Stays, NotScanning, NoHandoff, art' = {}
  PROVE  /\ boot' = boot /\ homes' = homes /\ gamepath' \in BOOLEAN
         /\ todo' \in SUBSET Games /\ avail' \in SUBSET Games
         /\ art' \in SUBSET Slots /\ keepMask' \in SUBSET Slots
BY DEF IInv, TypeOK, Stays, NotScanning, NoHandoff

LEMMA StartupStep == IInv /\ Startup => IInv'
<1> SUFFICES ASSUME IInv, Startup PROVE IInv'
  OBVIOUS
<1>1. TypeOK /\ Fine(hdd, bootRW) /\ bootRW = FALSE /\ Flagged(bootRW)
  BY Before DEF Startup, IInv, Flag, TypeOK
<1>2. Fine(hdd, FALSE) /\ Flagged(FALSE)
  BY <1>1, Zenon
<1>3. PICK bad : hdd' = IF boot = NoPart THEN hdd ELSE Sidecar(EnsureBootMount(hdd, bad), bad)
  BY DEF Startup
<1>4. boot # NoPart => Fine(Sidecar(EnsureBootMount(hdd, bad), bad), FALSE)
  BY <1>1, <1>2, EnsureBootMountFine, SidecarFine
<1>5. Fine(hdd', FALSE)
  BY <1>2, <1>3, <1>4
<1>6. bootRW' = FALSE
  BY <1>1 DEF Startup
<1>7. Fine(hdd', bootRW') /\ Flagged(bootRW')
  BY <1>2, <1>5, <1>6, Zenon
<1> QED
  BY <1>7, Rest, Handled DEF Startup, Ends

LEMMA RefreshStep == IInv /\ Refresh => IInv'
<1> SUFFICES ASSUME IInv, Refresh PROVE IInv'
  OBVIOUS
<1>1. Fine(hdd, bootRW) /\ Flagged(bootRW)
  BY Before DEF Refresh
<1>2. Fine(hdd', bootRW)
  BY <1>1 DEF Refresh, Fine, Sound, Quiet, Mounts
<1> QED
  BY <1>1, <1>2, Handled DEF Refresh, Ends, Stays, NoHandoff, IInv, TypeOK

LEMMA CheckPartitionStep == IInv /\ CheckPartition => IInv'
<1> SUFFICES ASSUME IInv, CheckPartition PROVE IInv'
  OBVIOUS
<1>1. TypeOK /\ Fine(hdd, bootRW) /\ Flagged(bootRW)
  BY Before DEF CheckPartition
<1>2. PICK p, bad :
        /\ p \in todo
        /\ hdd' = Release(GameMount(hdd, p, RO, bad), p)
        /\ avail' \in {avail, avail \union {p}} /\ todo' = todo \ {p}
  BY DEF CheckPartition
<1>3. p \in Games /\ p \in Played /\ RO \in BOOLEAN
  BY <1>1, <1>2 DEF TypeOK, Played, RO
<1>4. Fine(hdd', bootRW)
  BY <1>1, <1>2, <1>3, GameMountHeld, ReleaseFine
<1>5. avail' \in SUBSET Games /\ todo' \in SUBSET Games
  BY <1>1, <1>2, <1>3 DEF TypeOK
<1> QED
  BY <1>1, <1>4, <1>5, Handled DEF CheckPartition, Ends, Stays, NoHandoff, IInv, TypeOK

LEMMA CheckDoneStep == IInv /\ CheckDone => IInv'
<1> SUFFICES ASSUME IInv, CheckDone PROVE IInv'
  OBVIOUS
<1>1. TypeOK /\ Fine(hdd, bootRW) /\ Flagged(bootRW)
  BY Before DEF CheckDone
<1> QED
  BY <1>1, Handled DEF CheckDone, Ends, NoHandoff, TypeOK

LEMMA BuildPartitionStep == IInv /\ BuildPartition => IInv'
<1> SUFFICES ASSUME IInv, BuildPartition PROVE IInv'
  OBVIOUS
<1>1. TypeOK /\ Fine(hdd, bootRW) /\ Flagged(bootRW)
  BY Before DEF BuildPartition
<1>2. PICK p, bad, bad2 :
        /\ p \in todo
        /\ LET once == GameMount(hdd, p, RO, bad)
               g == IF GameMounted(once, p) THEN once ELSE GameMount(once, p, RO, bad2)
           IN hdd' = Release(g, p) /\ todo' = todo \ {p}
  BY DEF BuildPartition
<1> DEFINE once == GameMount(hdd, p, RO, bad)
           again == GameMount(once, p, RO, bad2)
<1>3. p \in Played /\ RO \in BOOLEAN
  BY <1>1, <1>2 DEF TypeOK, Played, RO
<1>4. Held(once, p, bootRW)
  BY <1>1, <1>3, GameMountHeld
<1>5. ~GameMounted(once, p) => Fine(once, bootRW)
  BY <1>4 DEF Held, Fine
<1>6. ~GameMounted(once, p) => Held(again, p, bootRW)
  BY <1>1, <1>3, <1>5, GameMountHeld
<1>7. Fine(hdd', bootRW)
  BY <1>2, <1>3, <1>4, <1>6, ReleaseFine
<1>8. todo' \in SUBSET Games
  BY <1>1, <1>2 DEF TypeOK
<1> QED
  BY <1>1, <1>7, <1>8, Handled DEF BuildPartition, Ends, Stays, NoHandoff, IInv, TypeOK

LEMMA BuildFaultsStep == IInv /\ BuildFaults => IInv'
<1> SUFFICES ASSUME IInv, BuildFaults PROVE IInv'
  OBVIOUS
<1>1. TypeOK /\ Fine(hdd, bootRW) /\ Flagged(bootRW)
  BY Before DEF BuildFaults
<1>2. PICK p \in todo :
        GameMounted(GameMount(hdd, p, RO, {}), p) /\ hdd' = AfterFault(GameMount(hdd, p, RO, {}))
  BY DEF BuildFaults
<1> DEFINE g == GameMount(hdd, p, RO, {})
<1>3. p \in Played /\ RO \in BOOLEAN
  BY <1>1, <1>2 DEF TypeOK, Played, RO
<1>4. Held(g, p, bootRW) /\ GameMounted(g, p)
  BY <1>1, <1>2, <1>3, GameMountHeld
<1>5. AfterFault(g) = UMountTracked(g, g.gameSlot)
  BY <1>4 DEF AfterFault, Held, GameMounted
<1>6. Fine(hdd', bootRW)
  BY <1>2, <1>3, <1>4, <1>5, HeldReleased
<1> QED
  BY <1>1, <1>6, Handled DEF BuildFaults, Ends, Stays, NoHandoff, IInv, TypeOK

LEMMA OtherDeviceStep == IInv /\ OtherDevice => IInv'
<1> SUFFICES ASSUME IInv, OtherDevice PROVE IInv'
  OBVIOUS
<1>1. TypeOK /\ Fine(hdd, bootRW) /\ Flagged(bootRW)
  BY Before DEF OtherDevice
<1> QED
  BY <1>1, Handled DEF OtherDevice, Ends, NotScanning, NoHandoff, TypeOK

LEMMA BuildDoneStep == IInv /\ BuildDone => IInv'
<1> SUFFICES ASSUME IInv, BuildDone PROVE IInv'
  OBVIOUS
<1>1. TypeOK /\ Fine(hdd, bootRW) /\ Flagged(bootRW)
  BY Before DEF BuildDone
<1>2. PICK cache, bad :
        /\ cache \in BOOLEAN
        /\ LET taken == IF cache /\ boot # NoPart THEN EnsureBootWritable(hdd, bootRW, bad)
                        ELSE Taken(hdd, bootRW)
           IN hdd' = taken.hdd /\ bootRW' = taken.bootRW
  BY DEF BuildDone
<1>3. Fine(hdd', bootRW') /\ Flagged(bootRW')
  <2>1. CASE cache /\ boot # NoPart
    BY <1>1, <1>2, <2>1, EnsureBootWritableFine DEF Flagged
  <2>2. CASE ~(cache /\ boot # NoPart)
    <3>1. hdd' = hdd /\ bootRW' = bootRW
      BY <1>2, <2>2 DEF Taken
    <3> QED
      BY <1>1, <3>1
  <2> QED
    BY <2>1, <2>2
<1> QED
  BY <1>3, Rest, Handled DEF BuildDone, Ends

LEMMA SaveSettingsStep == IInv /\ SaveSettings => IInv'
<1> SUFFICES ASSUME IInv, SaveSettings PROVE IInv'
  OBVIOUS
<1>1. TypeOK /\ Fine(hdd, bootRW) /\ Flagged(bootRW) /\ boot # NoPart
  BY Before DEF SaveSettings
<1>2. PICK bad :
        LET direct == hdd.at[BootSlot] = boot /\ BootSlot \in hdd.rw
            taken == IF direct THEN Taken(hdd, bootRW) ELSE EnsureBootWritable(hdd, bootRW, bad)
        IN hdd' = taken.hdd /\ bootRW' = taken.bootRW
  BY DEF SaveSettings
<1> DEFINE direct == hdd.at[BootSlot] = boot /\ BootSlot \in hdd.rw
<1>3. Fine(hdd', bootRW') /\ Flagged(bootRW')
  <2>1. CASE direct
    <3>1. hdd' = hdd /\ bootRW' = bootRW
      BY <1>2, <2>1 DEF Taken
    <3> QED
      BY <1>1, <3>1
  <2>2. CASE ~direct
    BY <1>1, <1>2, <2>2, EnsureBootWritableFine DEF Flagged
  <2> QED
    BY <2>1, <2>2
<1>4. task' = "menu" /\ outcome' = "none"
  BY DEF SaveSettings, Ends
<1> QED
  BY <1>3, <1>4, Rest, Handled DEF SaveSettings

LEMMA UseGamePartitionStep == IInv /\ UseGamePartition => IInv'
<1> SUFFICES ASSUME IInv, UseGamePartition PROVE IInv'
  OBVIOUS
<1>1. TypeOK /\ Fine(hdd, bootRW) /\ Flagged(bootRW)
  BY Before DEF UseGamePartition
<1>2. PICK p, mode, bad :
        /\ p \in Played /\ mode \in BOOLEAN
        /\ hdd' = Release(GameMount(hdd, p, mode, bad), p)
  BY DEF UseGamePartition
<1>3. Fine(hdd', bootRW)
  BY <1>1, <1>2, GameMountHeld, ReleaseFine
<1> QED
  BY <1>1, <1>3, Rest, Handled DEF UseGamePartition, Ends

LEMMA UpdateSelectionStep == IInv /\ UpdateSelection => IInv'
<1> SUFFICES ASSUME IInv, UpdateSelection PROVE IInv'
  OBVIOUS
<1>1. TypeOK /\ Fine(hdd, bootRW) /\ Flagged(bootRW)
  BY Before DEF UpdateSelection
<1>2. PICK has, details, bad :
        /\ has \in SUBSET {"cover", "icon", "text"} /\ details \in BOOLEAN
        /\ LET Find(h, f) == Resolve(h, Common, f \in has, NoSlot, ArtSlot, bad)
               g == Find(hdd, "cover")
               k == Find(g, "icon")
           IN /\ hdd' = IF details THEN Find(k, "text") ELSE k
              /\ art' = {FoundAt(g, Common, "cover" \in has), FoundAt(k, Common, "icon" \in has)}
                        \ {NoSlot}
  BY DEF UpdateSelection
<1> DEFINE g == Resolve(hdd, Common, "cover" \in has, NoSlot, ArtSlot, bad)
           k == Resolve(g, Common, "icon" \in has, NoSlot, ArtSlot, bad)
           l == Resolve(k, Common, "text" \in has, NoSlot, ArtSlot, bad)
<1>3. Fine(g, bootRW)
  BY <1>1, CommonIsNotPlayed, ResolveFine
<1>4. Fine(k, bootRW)
  BY <1>1, <1>3, CommonIsNotPlayed, ResolveFine
<1>5. Fine(l, bootRW)
  BY <1>1, <1>4, CommonIsNotPlayed, ResolveFine
<1>6. Fine(hdd', bootRW)
  BY <1>2, <1>4, <1>5
<1>7. art' \in SUBSET Slots
  BY <1>2, <1>3, <1>4, CommonIsNotPlayed, FoundIsSlot
<1>8. gamepath' \in BOOLEAN
  BY <1>1 DEF UpdateSelection, Stays, TypeOK
<1> QED
  BY <1>1, <1>6, <1>7, <1>8, Handled
     DEF UpdateSelection, Ends, Stays, NotScanning, NoHandoff, TypeOK

-----------------------------------------------------------------------------
(* The launches.                                                           *)

\* What a handler that hands over has to show.
LEMMA HandedOver ==
  ASSUME IInv, task # "gone", Stays, NotScanning, art' = {}, bootRW' = bootRW,
         task' = "gone", Sound(hdd', boot, bootRW), keepMask' \in SUBSET Slots,
         outcome' \in {"exit", "popstarter", "ember"}, HandoffMounts'
  PROVE  IInv'
<1>1. TypeOK'
  BY DEF IInv, TypeOK, Stays, NotScanning, Sound
<1>2. Sound(hdd, boot, bootRW)'
  BY DEF Sound, Stays
<1>3. Flag'
  BY DEF IInv, Flag, Stays
<1> QED
  BY <1>1, <1>2, <1>3 DEF IInv

\* A launch that comes back to the menu.
LEMMA LaunchCameBack ==
  ASSUME IInv, Stays, NotScanning, art' = {}, bootRW' = bootRW, Flagged(bootRW),
         Fine(hdd', bootRW), keepMask' = {}, task' = "menu",
         outcome' \in {"none", "missing", "refused"}
  PROVE  IInv'
<1>1. /\ boot' = boot /\ homes' = homes /\ gamepath' \in BOOLEAN
      /\ todo' \in SUBSET Games /\ avail' \in SUBSET Games
      /\ art' \in SUBSET Slots /\ keepMask' \in SUBSET Slots
  BY DEF IInv, TypeOK, Stays, NotScanning
<1> QED
  BY <1>1, Handled

LEMMA LaunchColdStep ==
  ASSUME IInv, task # "gone", Stays, NotScanning, art' = {}, bootRW' = bootRW,
         NEW path, GoodPath(path, bootRW), NEW placed, Fine(placed, bootRW), NEW bad,
         LaunchCold(path, placed, bad)
  PROVE  IInv'
<1> DEFINE context == ContextOf(placed, path.slot)
           gated == Gate(placed, context, bad)
           open == GateOpen(gated, context, path.on) /\ Probe(gated, path.slot, path.on, TRUE)
           loaded == LoaderMount(ColdPrep(gated), context, bad)
<1>1. TypeOK /\ Flagged(bootRW) /\ path.slot \in Slots
  BY Before DEF LaunchCold, GoodPath
<1>2. context \notin Played
  BY <1>1, ContextIsNotPlayed
<1>3. Fine(gated, bootRW)
  BY <1>1, <1>2, GateFine
<1>4. Fine(ColdPrep(gated), bootRW) /\ \A s \in Slots : ColdPrep(gated).at[s] = NoPart
  BY <1>3, ColdPrepFine
<1>5. ASSUME open
      PROVE  Fine(loaded, bootRW) /\ \A s \in Slots \ {0} : loaded.at[s] = NoPart
  <2>1. context \in Parts \ Played
    BY <1>2, <1>5 DEF GateOpen
  <2> QED
    BY <1>4, <2>1, LoaderMountFine
<1>6. \/ ~open /\ hdd' = gated /\ keepMask' = {} /\ Ends("menu", "refused")
      \/ open /\ hdd' \in {gated, loaded} /\ keepMask' = {} /\ Ends("menu", "none")
      \/ open /\ hdd' = loaded /\ keepMask' = {0} /\ Ends("gone", "popstarter")
  BY DEF LaunchCold
<1> HIDE DEF context, gated, open, loaded
<1>7. CASE ~open /\ hdd' = gated /\ keepMask' = {} /\ Ends("menu", "refused")
  BY <1>1, <1>3, <1>7, LaunchCameBack DEF Ends
<1>8. CASE open /\ hdd' \in {gated, loaded} /\ keepMask' = {} /\ Ends("menu", "none")
  <2>1. Fine(hdd', bootRW)
    BY <1>3, <1>5, <1>8
  <2> QED
    BY <1>1, <1>8, <2>1, LaunchCameBack DEF Ends
<1>9. CASE open /\ hdd' = loaded /\ keepMask' = {0} /\ Ends("gone", "popstarter")
  <2>1. Sound(hdd', boot, bootRW)
    BY <1>5, <1>9 DEF Fine
  <2>2. HandoffMounts'
    BY <1>5, <1>9 DEF HandoffMounts, Ends
  <2>3. keepMask' \in SUBSET Slots
    BY <1>9 DEF Slots
  <2> QED
    BY <1>9, <2>1, <2>2, <2>3, HandedOver DEF Ends
<1> QED
  BY <1>6, <1>7, <1>8, <1>9

LEMMA LaunchWarmStep ==
  ASSUME IInv, task # "gone", Stays, NotScanning, art' = {}, bootRW' = bootRW,
         NEW path, GoodPath(path, bootRW), NEW place, NEW card, LaunchWarm(path, place, card)
  PROVE  IInv'
<1>1. Flagged(bootRW)
  BY Before
<1>2. /\ Fine(WarmPrep(path.hdd), bootRW)
      /\ \A s \in Slots : WarmPrep(path.hdd).at[s] # NoPart => s \in KeptWarm
  BY WarmPrepFine DEF GoodPath
<1>3. hdd' = WarmPrep(path.hdd)
  BY DEF LaunchWarm
<1>4. CASE keepMask' = {} /\ Ends("menu", "none")
  BY <1>1, <1>2, <1>3, <1>4, LaunchCameBack DEF Ends
<1>5. CASE keepMask' = KeptWarm /\ Ends("gone", "popstarter")
  <2>1. Sound(hdd', boot, bootRW)
    BY <1>2, <1>3 DEF Fine
  <2>2. HandoffMounts'
    BY <1>2, <1>3, <1>5 DEF HandoffMounts, Ends
  <2>3. keepMask' \in SUBSET Slots
    BY <1>5 DEF KeptWarm, Slots, BootSlot
  <2> QED
    BY <1>5, <2>1, <2>2, <2>3, HandedOver DEF Ends
<1> QED
  BY <1>4, <1>5 DEF LaunchWarm

LEMMA LaunchStep == IInv /\ Launch => IInv'
<1> SUFFICES ASSUME IInv, Launch PROVE IInv'
  OBVIOUS
<1>1. /\ TypeOK /\ Fine(hdd, bootRW) /\ Flagged(bootRW) /\ task # "gone"
      /\ Stays /\ NotScanning /\ art' = {} /\ bootRW' = bootRW
  BY Before DEF Launch
<1>2. PICK isHdd, card, found, bad :
       /\ isHdd \in BOOLEAN /\ card \in BOOLEAN /\ found \in {"device", "beside"}
       /\ LET listed == IF isHdd /\ gamepath THEN "drive" ELSE found
              place == IF isHdd THEN "drive" ELSE found
              first == ResolveLaunch(hdd, listed, bad)
              path == ResolveLaunch(first.hdd, place, bad)
              placed == IF path.on = NoPart THEN path.hdd ELSE SourceContext(path.hdd, bad)
          IN IF ~IsThere(first, listed, card) THEN LaunchFails(first, isHdd)
             ELSE \/ LaunchCancelled(placed)
                  \/ LaunchCold(path, placed, bad)
                  \/ LaunchWarm(path, place, card)
  BY DEF Launch
<1> DEFINE listed == IF isHdd /\ gamepath THEN "drive" ELSE found
           place == IF isHdd THEN "drive" ELSE found
           first == ResolveLaunch(hdd, listed, bad)
           path == ResolveLaunch(first.hdd, place, bad)
           placed == IF path.on = NoPart THEN path.hdd ELSE SourceContext(path.hdd, bad)
<1> HIDE DEF listed, place
<1>3. Fine(first.hdd, bootRW)
  BY <1>1, ResolveLaunchGood DEF GoodPath
<1>4. GoodPath(path, bootRW)
  BY <1>1, <1>3, ResolveLaunchGood
<1>5. Fine(placed, bootRW)
  BY <1>1, <1>4, SourceContextFine DEF GoodPath
<1>6. \/ LaunchFails(first, isHdd)
      \/ LaunchCancelled(placed)
      \/ LaunchCold(path, placed, bad)
      \/ LaunchWarm(path, place, card)
  BY <1>2 DEF listed, place
<1> HIDE DEF first, path, placed
<1>7. CASE LaunchFails(first, isHdd)
  <2>1. outcome' \in {"none", "missing"}
    BY <1>7 DEF LaunchFails, Ends
  <2> QED
    BY <1>1, <1>3, <1>7, <2>1, LaunchCameBack DEF LaunchFails, Ends
<1>8. CASE LaunchCancelled(placed)
  BY <1>1, <1>5, <1>8, LaunchCameBack DEF LaunchCancelled, Ends
<1>9. CASE LaunchCold(path, placed, bad)
  BY <1>1, <1>4, <1>5, <1>9, LaunchColdStep
<1>10. CASE LaunchWarm(path, place, card)
  BY <1>1, <1>4, <1>10, LaunchWarmStep
<1> QED
  BY <1>6, <1>7, <1>8, <1>9, <1>10

LEMMA EmberLaunchStep == IInv /\ EmberLaunch => IInv'
<1> SUFFICES ASSUME IInv, EmberLaunch PROVE IInv'
  OBVIOUS
<1>1. /\ TypeOK /\ Fine(hdd, bootRW) /\ Flagged(bootRW) /\ task # "gone"
      /\ Stays /\ NotScanning /\ art' = {} /\ bootRW' = bootRW
  BY Before DEF EmberLaunch
<1>2. PICK p, bad :
       /\ p \in Ember
       /\ LET g == GameMount(hdd, p, RW, bad)
          IN \/ hdd' = Release(g, p) /\ keepMask' = {} /\ Ends("menu", "none")
             \/ /\ GameMounted(g, p)
                /\ hdd' = g /\ keepMask' = {g.gameSlot} /\ Ends("gone", "ember")
  BY DEF EmberLaunch
<1> DEFINE g == GameMount(hdd, p, RW, bad)
<1>3. p \in Played /\ RW \in BOOLEAN /\ RW
  BY <1>2 DEF Played, RW
<1>4. Held(g, p, bootRW) /\ (GameMounted(g, p) => g.gameSlot \in g.rw)
  BY <1>1, <1>3, GameMountHeld
<1>5. Fine(Release(g, p), bootRW)
  BY <1>3, <1>4, ReleaseFine
<1> HIDE DEF g
<1>6. CASE hdd' = Release(g, p) /\ keepMask' = {} /\ Ends("menu", "none")
  BY <1>1, <1>5, <1>6, LaunchCameBack DEF Ends
<1>7. CASE GameMounted(g, p) /\ hdd' = g /\ keepMask' = {g.gameSlot} /\ Ends("gone", "ember")
  <2>1. Sound(hdd', boot, bootRW)
    BY <1>4, <1>7 DEF Held
  <2>2. keepMask' \in SUBSET Slots
    BY <1>4, <1>7 DEF Held, Sound, Mounts
  <2>3. HandoffMounts'
    BY <1>2, <1>4, <1>7 DEF HandoffMounts, Ends, GameMounted
  <2> QED
    BY <1>1, <1>7, <2>1, <2>2, <2>3, HandedOver DEF Ends
<1> QED
  BY <1>2, <1>6, <1>7 DEF g

LEMMA ColdExternalStep == IInv /\ ColdExternal => IInv'
<1> SUFFICES ASSUME IInv, ColdExternal PROVE IInv'
  OBVIOUS
<1>1. /\ TypeOK /\ Fine(hdd, bootRW) /\ Flagged(bootRW) /\ task # "gone"
      /\ Stays /\ NotScanning /\ art' = {} /\ bootRW' = bootRW
      /\ hdd' = ColdPrep(hdd) /\ keepMask' = {}
  BY Before DEF ColdExternal
<1>2. Fine(hdd', bootRW) /\ \A s \in Slots : hdd'.at[s] = NoPart
  BY <1>1, ColdPrepFine
<1>3. CASE Ends("gone", "exit")
  <2>1. Sound(hdd', boot, bootRW)
    BY <1>2 DEF Fine
  <2>2. HandoffMounts'
    BY <1>2, <1>3 DEF HandoffMounts, Ends
  <2> QED
    BY <1>1, <1>3, <2>1, <2>2, HandedOver DEF Ends
<1>4. CASE Ends("menu", "none")
  BY <1>1, <1>2, <1>4, LaunchCameBack DEF Ends
<1> QED
  BY <1>3, <1>4 DEF ColdExternal

LEMMA StutterStep == IInv /\ UNCHANGED vars => IInv'
<1> SUFFICES ASSUME IInv, UNCHANGED vars PROVE IInv'
  OBVIOUS
<1> USE DEF vars
<1>1. TypeOK' /\ Flag'
  BY DEF IInv, TypeOK, Flag
<1>2. Sound(hdd, boot, bootRW)' /\ (task # "gone" => Quiet(hdd))'
  BY DEF IInv, Sound, Quiet
<1>3. HandoffMounts'
  BY DEF IInv, HandoffMounts
<1> QED
  BY <1>1, <1>2, <1>3 DEF IInv

LEMMA NextOK == IInv /\ [Next]_vars => IInv'
BY StartupStep, RefreshStep, CheckPartitionStep, CheckDoneStep, BuildPartitionStep,
   BuildFaultsStep, OtherDeviceStep, BuildDoneStep, SaveSettingsStep, UseGamePartitionStep,
   UpdateSelectionStep, LaunchStep, EmberLaunchStep, ColdExternalStep, StutterStep
   DEF Next, Gone

LEMMA Inductive == Spec => []IInv
BY InitOK, NextOK, PTL DEF Spec

-----------------------------------------------------------------------------
(* The theorems.                                                           *)

\* Every variable stays in its type.
THEOREM TypeCorrect == Spec => []TypeOK
<1>1. IInv => TypeOK
  BY DEF IInv
<1> QED
  BY <1>1, Inductive, PTL

\* pfs1 is the boot partition's, through every scan, launch and selection.
THEOREM Pfs1IsBoots == Spec => []BootSlotIsBoots
<1>1. IInv => BootSlotIsBoots
  BY DEF IInv, Sound, BootSlotIsBoots
<1> QED
  BY <1>1, Inductive, PTL

\* What is on record for pfs1, pfs2 and pfs3 is never another partition than the mounted one.
THEOREM RecordIsTrue == Spec => []RecordNeverLies
<1>1. IInv => RecordNeverLies
  BY DEF IInv, Sound, RecordNeverLies
<1> QED
  BY <1>1, Inductive, PTL

\* Every handler that mounts a partition of games lets it go, whatever failed.
THEOREM GamesAreReleased == Spec => []GameMountsReleased
<1>1. IInv => GameMountsReleased
  BY DEF IInv, Quiet, GameMountsReleased
<1> QED
  BY <1>1, Inductive, PTL

\* The takeover flag is on only while a live pfs1 is writable.
THEOREM TakeoverIsTrue == Spec => []BootRWIsTrue
<1>1. IInv => BootRWIsTrue
  BY DEF IInv, Sound, BootRWIsTrue
<1> QED
  BY <1>1, Inductive, PTL

\* The next program finds mounted what it was promised.
THEOREM HandoffIsKept == Spec => []HandoffMounts
<1>1. IInv => HandoffMounts
  BY DEF IInv
<1> QED
  BY <1>1, Inductive, PTL
=============================================================================
