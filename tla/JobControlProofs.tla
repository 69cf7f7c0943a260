-------------------------- MODULE JobControlProofs ---------------------------
(***************************************************************************)
(* The job table and the terminal, proved for every size of the table and  *)
(* every length and number of pipelines.                                   *)
(***************************************************************************)
EXTENDS JobControl, FiniteSetTheorems, TLAPS

-----------------------------------------------------------------------------
(* The inductive invariant *)

USE DEF fgVars

\* What a step that only moves loading leaves alone.
shellVars == <<child, launches, tableVars, sigchld_pending, tty, pc, cmd, resumeVars, eof_warned>>

\* TypeOK but for loading, on which nothing of the shell depends but the end of
\* a blocking read.
ShellTypeOK ==
    /\ child \in [Groups -> [Members -> ChildStates]]
    /\ launches \in 0 .. MaxLaunches
    /\ bg_jobs \in Seq(Entries) /\ Len(bg_jobs) <= MAXJOBS
    /\ next_job_num \in 1 .. MaxLaunches + 1
    /\ sigchld_pending \in BOOLEAN
    /\ tty \in Groups \cup {Shell}
    /\ pc \in Labels
    /\ cmd \in [length : 0 .. MaxCmds, bg : BOOLEAN]
    /\ fg \in 0 .. MAXJOBS
    /\ live \in 0 .. MaxCmds
    /\ alarm \in {"off", "set", "fired"}
    /\ eof_warned \in BOOLEAN
    /\ timeouts \in BOOLEAN

\* execute() is at work, fg_job() is.
Launching == pc \in {"spawn", "abort", "wait", "stop"}
Resuming == pc \in {"fgwait", "fgstop", "fgend"}

\* The variables of execute() and of fg_job() are set while they run.
Control ==
    /\ Launching <=> cmd.length > 0
    /\ Launching => launches > 0
    /\ pc \in {"wait", "stop"} => ~cmd.bg
    /\ Resuming <=> fg # 0
    /\ Resuming => fg \in DOMAIN bg_jobs /\ ~bg_jobs[fg].is_done
    /\ pc = "fgwait" => live > 0
    /\ alarm # "off" => Resuming /\ timeouts

\* The commands of a pipeline are forked from left to right, those of a
\* later one not yet.
Spawning ==
    /\ \A g \in Groups, k \in Members : g > launches => child[g][k] = "none"
    /\ pc = "spawn" => \E n \in 0 .. cmd.length : Spawned = 1 .. n

\* No entry for each launch but the one under way, each pipeline at most once.
Numbers ==
    /\ Len(bg_jobs) <= launches /\ (Launching => Len(bg_jobs) < launches)
    /\ next_job_num <= launches + 1 /\ (Launching => next_job_num <= launches)
    /\ \A i, j \in DOMAIN bg_jobs : bg_jobs[i].pid = bg_jobs[j].pid => i = j

\* An entry lists once each command of its pipeline that is not reaped.
Lists(e) ==
    /\ e.pid <= launches /\ (Launching => e.pid # launches)
    /\ Len(e.pids) <= MaxCmds
    /\ \A a, b \in DOMAIN e.pids : e.pids[a] = e.pids[b] => a = b \/ e.pids[a] = 0
    /\ \A k \in Commands : Exists(child[e.pid][k]) => \E a \in DOMAIN e.pids : e.pids[a] = k
    /\ e.is_done => AllDone(e.pids)

IInv ==
    /\ ShellTypeOK
    /\ Control
    /\ Spawning
    /\ Numbers
    /\ \A i \in DOMAIN bg_jobs : Lists(bg_jobs[i])
    /\ TerminalOwner

\* Without helpers fg_job() counts right, and only an alarm leaves an entry
\* that waits for nobody.
Exact ==
    /\ \A g \in Groups : child[g][0] = "none"
    /\ pc = "stop" => Unreaped # {}
    /\ pc = "fgwait" => live = Live(bg_jobs[fg])
    /\ pc = "fgend" /\ alarm # "fired" => AllDone(bg_jobs[fg].pids)
    /\ ~timeouts => \A i \in DOMAIN bg_jobs :
          AllDone(bg_jobs[i].pids) => bg_jobs[i].is_done \/ (pc = "fgend" /\ i = fg)

\* In a table with room, what lives has an entry or is being launched.
Covered == \A g \in Groups, k \in Commands : Exists(child[g][k]) =>
    \/ Launching /\ g = launches
    \/ \E i \in DOMAIN bg_jobs : bg_jobs[i].pid = g

-----------------------------------------------------------------------------
(* Facts about the operators *)

LEMMA Sizes ==
  /\ MAXJOBS \in Nat /\ MAXJOBS > 0 /\ MaxCmds \in Nat /\ MaxCmds > 0 /\ MaxLaunches \in Nat
  /\ WithHelper \in BOOLEAN /\ WithTimeout \in BOOLEAN
  BY JobAssumption

\* The k-th smallest member has k members up to it, and no other has: the
\* ordering lists each member once.
LEMMA OrderedFacts ==
  ASSUME NEW S \in SUBSET Nat, IsFiniteSet(S)
  PROVE  /\ Cardinality(S) \in Nat
         /\ Ordered(S) \in [1 .. Cardinality(S) -> S]
         /\ \A m, n \in 1 .. Cardinality(S) : Ordered(S)[m] = Ordered(S)[n] => m = n
         /\ \A i \in S : \E n \in 1 .. Cardinality(S) : Ordered(S)[n] = i
  <1> DEFINE UpTo(i) == {j \in S : j <= i}
             Rank(i) == Cardinality(UpTo(i))
             r == [i \in S |-> Rank(i)]
  <1>1. Cardinality(S) \in Nat
    BY FS_CardinalityType
  <1>2. ASSUME NEW i \in S PROVE IsFiniteSet(UpTo(i)) /\ Rank(i) \in 1 .. Cardinality(S)
    <2>1. UpTo(i) \in SUBSET S /\ i \in UpTo(i)
      OBVIOUS
    <2>2. IsFiniteSet(UpTo(i)) /\ Rank(i) <= Cardinality(S)
      BY <2>1, FS_Subset
    <2>3. Rank(i) \in Nat
      BY <2>2, FS_CardinalityType
    <2>4. Rank(i) # 0
      BY <2>1, <2>2, FS_EmptySet
    <2> QED BY <1>1, <2>2, <2>3, <2>4
  <1>3. ASSUME NEW i \in S, NEW j \in S, i < j PROVE Rank(i) # Rank(j)
    <2>1. \A x \in S : x \in Nat
      OBVIOUS
    <2>2. UpTo(i) \in SUBSET UpTo(j) /\ j \in UpTo(j) /\ j \notin UpTo(i)
      <3>1. \A x \in S : x <= i => x <= j
        BY <2>1, <1>3
      <3>2. j <= j /\ ~(j <= i)
        BY <2>1, <1>3
      <3> QED BY <3>1, <3>2
    <2>3. IsFiniteSet(UpTo(j))
      BY <1>2
    <2> HIDE DEF UpTo
    <2>4. Cardinality(UpTo(j)) = Cardinality(UpTo(i)) => UpTo(j) = UpTo(i)
      BY <2>2, <2>3, FS_Subset
    <2> QED BY <2>2, <2>4
  <1>4. ASSUME NEW i \in S, NEW j \in S, Rank(i) = Rank(j) PROVE i = j
    <2>1. i \in Nat /\ j \in Nat
      OBVIOUS
    <2>2. ~(i < j) /\ ~(j < i)
      BY <1>3, <1>4
    <2> QED BY <2>1, <2>2
  <1> HIDE DEF Rank
  <1>5. r \in Injection(S, 1 .. Cardinality(S))
    BY <1>2, <1>4 DEF Injection, IsInjective
  <1>6. IsFiniteSet(1 .. Cardinality(S)) /\ Cardinality(1 .. Cardinality(S)) = Cardinality(S)
    BY <1>1, FS_Interval
  <1>7. r \in Surjection(S, 1 .. Cardinality(S))
    BY <1>5, <1>6, FS_Injection
  <1>8. \A n \in 1 .. Cardinality(S) : \E i \in S : Rank(i) = n
    BY <1>7 DEF Surjection
  <1>9. ASSUME NEW n \in 1 .. Cardinality(S)
        PROVE  Ordered(S)[n] \in S /\ Rank(Ordered(S)[n]) = n
    <2>1. Ordered(S)[n] = CHOOSE i \in S : Rank(i) = n
      BY DEF Ordered, Rank
    <2> QED BY <1>8, <2>1
  <1>10. Ordered(S) \in [1 .. Cardinality(S) -> S]
    <2>1. Ordered(S) = [n \in 1 .. Cardinality(S) |->
                           CHOOSE i \in S : Cardinality({j \in S : j <= i}) = n]
      BY DEF Ordered
    <2> QED BY <2>1, <1>9
  <1>11. ASSUME NEW i \in S PROVE Ordered(S)[Rank(i)] = i
    BY <1>2, <1>4, <1>9
  <1> QED BY <1>1, <1>2, <1>9, <1>10, <1>11

\* What is kept of the table is a table, of the entries in K.
LEMMA KeepFacts ==
  ASSUME bg_jobs \in Seq(Entries), NEW K \in SUBSET DOMAIN bg_jobs
  PROVE  /\ Keep(K) \in Seq(Entries) /\ Len(Keep(K)) = Cardinality(K)
         /\ Cardinality(K) \in Nat /\ Cardinality(K) <= Len(bg_jobs)
         /\ \A n \in DOMAIN Keep(K) : Ordered(K)[n] \in K /\ Keep(K)[n] = bg_jobs[Ordered(K)[n]]
         /\ \A m, n \in DOMAIN Keep(K) : Ordered(K)[m] = Ordered(K)[n] => m = n
         /\ \A i \in K : \E n \in DOMAIN Keep(K) : Keep(K)[n] = bg_jobs[i]
  <1>1. DOMAIN bg_jobs = 1 .. Len(bg_jobs) /\ Len(bg_jobs) \in Nat
    OBVIOUS
  <1>2. IsFiniteSet(DOMAIN bg_jobs) /\ Cardinality(DOMAIN bg_jobs) = Len(bg_jobs)
    <2>1. PICK n \in Nat : n = Len(bg_jobs)
      BY <1>1
    <2>2. IsFiniteSet(1 .. n) /\ Cardinality(1 .. n) = n
      BY FS_Interval
    <2> QED BY <1>1, <2>1, <2>2
  <1>3. IsFiniteSet(K) /\ Cardinality(K) <= Len(bg_jobs)
    BY <1>2, FS_Subset
  <1>4. K \in SUBSET Nat
    BY <1>1
  <1>5. /\ Cardinality(K) \in Nat
        /\ \A n \in 1 .. Cardinality(K) : Ordered(K)[n] \in K
        /\ \A m, n \in 1 .. Cardinality(K) : Ordered(K)[m] = Ordered(K)[n] => m = n
        /\ \A i \in K : \E n \in 1 .. Cardinality(K) : Ordered(K)[n] = i
    BY <1>3, <1>4, OrderedFacts
  <1>6. \A n \in 1 .. Cardinality(K) : bg_jobs[Ordered(K)[n]] \in Entries
    BY <1>5
  <1>7. Keep(K) = [n \in 1 .. Cardinality(K) |-> bg_jobs[Ordered(K)[n]]]
    BY DEF Keep
  <1>8. Keep(K) \in Seq(Entries) /\ Len(Keep(K)) = Cardinality(K)
    BY <1>5, <1>6, <1>7
  <1>9. DOMAIN Keep(K) = 1 .. Cardinality(K)
    BY <1>7
  <1>10. \A n \in DOMAIN Keep(K) : Ordered(K)[n] \in K /\ Keep(K)[n] = bg_jobs[Ordered(K)[n]]
    BY <1>5, <1>7, <1>9
  <1>11. \A m, n \in DOMAIN Keep(K) : Ordered(K)[m] = Ordered(K)[n] => m = n
    BY <1>5, <1>9
  <1>12. ASSUME NEW i \in K PROVE \E n \in DOMAIN Keep(K) : Keep(K)[n] = bg_jobs[i]
    <2>1. PICK n \in 1 .. Cardinality(K) : Ordered(K)[n] = i
      BY <1>5
    <2> QED BY <1>9, <1>10, <2>1
  <1> QED BY <1>3, <1>5, <1>8, <1>10, <1>11, <1>12

\* The processes an entry still lists.
LEMMA LiveFacts ==
  ASSUME NEW e \in Entries
  PROVE  /\ Live(e) \in Nat /\ Live(e) <= Len(e.pids)
         /\ Live(e) = 0 <=> AllDone(e.pids)
  <1> DEFINE J == {j \in DOMAIN e.pids : e.pids[j] # 0}
  <1>1. DOMAIN e.pids = 1 .. Len(e.pids) /\ Len(e.pids) \in Nat
    BY DEF Entries
  <1>2. IsFiniteSet(DOMAIN e.pids) /\ Cardinality(DOMAIN e.pids) = Len(e.pids)
    BY <1>1, FS_Interval
  <1>3. IsFiniteSet(J) /\ Cardinality(J) <= Len(e.pids)
    BY <1>2, FS_Subset
  <1>4. Cardinality(J) \in Nat /\ (Cardinality(J) = 0 <=> J = {})
    BY <1>3, FS_CardinalityType, FS_EmptySet
  <1> QED BY <1>3, <1>4 DEF Live, AllDone

LEMMA ForgetFacts ==
  ASSUME NEW s \in Seq(Members), NEW k \in Members
  PROVE  /\ Forget(s, k) \in Seq(Members) /\ DOMAIN Forget(s, k) = DOMAIN s
         /\ Len(Forget(s, k)) = Len(s)
         /\ \A a \in DOMAIN s : Forget(s, k)[a] = IF s[a] = k THEN 0 ELSE s[a]
  <1>1. 0 \in Members /\ DOMAIN s = 1 .. Len(s) /\ Len(s) \in Nat
    BY Sizes DEF Members
  <1>2. Forget(s, k) = [j \in 1 .. Len(s) |-> IF s[j] = k THEN 0 ELSE s[j]]
    BY <1>1 DEF Forget
  <1>3. \A j \in 1 .. Len(s) : (IF s[j] = k THEN 0 ELSE s[j]) \in Members
    BY <1>1
  <1> QED BY <1>1, <1>2, <1>3

\* One process less is listed, when it was listed once.
LEMMA LiveForget ==
  ASSUME NEW e \in Entries, NEW d \in Entries, NEW k \in Members, k # 0,
         d.pids = Forget(e.pids, k),
         \A a, b \in DOMAIN e.pids : e.pids[a] = e.pids[b] => a = b \/ e.pids[a] = 0,
         NEW a \in DOMAIN e.pids, e.pids[a] = k
  PROVE  Live(d) = Live(e) - 1
  <1> DEFINE J == {j \in DOMAIN e.pids : e.pids[j] # 0}
             I == {j \in DOMAIN d.pids : d.pids[j] # 0}
  <1>1. e.pids \in Seq(Members) /\ DOMAIN e.pids = 1 .. Len(e.pids) /\ Len(e.pids) \in Nat
    BY DEF Entries
  <1>2. DOMAIN d.pids = DOMAIN e.pids
        /\ \A j \in DOMAIN e.pids : d.pids[j] = IF e.pids[j] = k THEN 0 ELSE e.pids[j]
    <2>1. PICK s : s = e.pids
      OBVIOUS
    <2>2. s \in Seq(Members)
      BY <1>1, <2>1
    <2>3. /\ DOMAIN Forget(s, k) = DOMAIN s
          /\ \A j \in DOMAIN s : Forget(s, k)[j] = IF s[j] = k THEN 0 ELSE s[j]
      BY <2>2, ForgetFacts
    <2> QED BY <2>1, <2>3
  <1>3. I = J \ {a} /\ a \in J
    BY <1>2
  <1>4. IsFiniteSet(J)
    <2>1. J \in SUBSET (1 .. Len(e.pids))
      BY <1>1
    <2>2. IsFiniteSet(1 .. Len(e.pids))
      BY <1>1, FS_Interval
    <2> QED BY <2>1, <2>2, FS_Subset
  <1>5. Cardinality(I) = Cardinality(J) - 1
    BY <1>3, <1>4, FS_RemoveElement, SMTT(30)
  <1> QED BY <1>5 DEF Live

-----------------------------------------------------------------------------
(* What most steps have in common *)

\* Processes come to be only in Spawn, and none comes back.
Moves ==
    /\ child' \in [Groups -> [Members -> ChildStates]]
    /\ \A g \in Groups, k \in Members :
          /\ Exists(child'[g][k]) => Exists(child[g][k])
          /\ child'[g][k] = "none" <=> child[g][k] = "none"

LEMMA MoveOne ==
  ASSUME ShellTypeOK, NEW g \in Groups, NEW k \in Members, NEW s \in ChildStates \ {"none"},
         child[g][k] \notin {"none", "reaped"}, Become(g, k, s)
  PROVE  /\ Moves
         /\ child'[g][k] = s
         /\ \A h \in Groups, j \in Members : h # g \/ j # k => child'[h][j] = child[h][j]
  <1>1. child \in [Groups -> [Members -> ChildStates]]
    BY DEF ShellTypeOK
  <1>2. child' = [child EXCEPT ![g][k] = s]
    BY DEF Become
  <1>3. child' \in [Groups -> [Members -> ChildStates]]
    BY <1>1, <1>2
  <1>4. \A h \in Groups, j \in Members :
           child'[h][j] = IF h = g /\ j = k THEN s ELSE child[h][j]
    BY <1>1, <1>2
  <1>5. Exists(child[g][k])
    BY <1>1 DEF Exists, Alive, ChildStates
  <1> QED BY <1>3, <1>4, <1>5 DEF Moves

LEMMA MoveGroup ==
  ASSUME ShellTypeOK, NEW g \in Groups, Continue(g)
  PROVE  Moves
  <1>1. child \in [Groups -> [Members -> ChildStates]]
    BY DEF ShellTypeOK
  <1> DEFINE c == [k \in Members |->
                      IF child[g][k] \in {"stopping", "stopped"} THEN "continued"
                      ELSE child[g][k]]
  <1>2. child' = [child EXCEPT ![g] = c]
    BY DEF Continue
  <1>3. c \in [Members -> ChildStates]
    BY <1>1 DEF ChildStates
  <1>4. \A k \in Members : /\ Exists(c[k]) => Exists(child[g][k])
                           /\ c[k] = "none" <=> child[g][k] = "none"
    BY DEF Exists, Alive
  <1> HIDE DEF c
  <1>5. child' \in [Groups -> [Members -> ChildStates]]
    BY <1>1, <1>2, <1>3
  <1>6. \A h \in Groups, k \in Members : child'[h][k] = IF h = g THEN c[k] ELSE child[h][k]
    BY <1>1, <1>2
  <1> QED BY <1>4, <1>5, <1>6 DEF Moves

LEMMA MoveNone ==
  ASSUME ShellTypeOK, UNCHANGED child
  PROVE  Moves
  BY DEF ShellTypeOK, Moves

\* An entry remains true to its pipeline when processes move and those that
\* are reaped are struck off.
Follows(e, d) ==
    /\ e \in Entries /\ d \in Entries
    /\ d.pid = e.pid /\ DOMAIN d.pids = DOMAIN e.pids /\ Len(d.pids) = Len(e.pids)
    /\ \A a \in DOMAIN e.pids :
          \/ d.pids[a] = e.pids[a]
          \/ d.pids[a] = 0 /\ ~Exists(child'[e.pid][e.pids[a]])
    /\ d.is_done => AllDone(d.pids)

LEMMA FollowsItself ==
  ASSUME NEW e \in Entries, Lists(e) PROVE Follows(e, e)
  BY DEF Follows, Lists

LEMMA ListsKeeps ==
  ASSUME Moves, launches' = launches, Launching' => Launching,
         NEW e, NEW d, Lists(e), Follows(e, d)
  PROVE  Lists(d)'
  <1>1. /\ d.pid = e.pid /\ DOMAIN d.pids = DOMAIN e.pids /\ Len(d.pids) = Len(e.pids)
        /\ e.pid \in Groups
    BY DEF Follows, Entries
  <1>2. d.pid <= launches' /\ (Launching' => d.pid # launches') /\ Len(d.pids) <= MaxCmds
    BY <1>1 DEF Lists
  <1>3. \A a, b \in DOMAIN d.pids : d.pids[a] = d.pids[b] => a = b \/ d.pids[a] = 0
    BY <1>1 DEF Lists, Follows
  <1>4. ASSUME NEW k \in Commands, Exists(child'[d.pid][k])
        PROVE  \E a \in DOMAIN d.pids : d.pids[a] = k
    <2>1. k \in Members
      BY Sizes DEF Commands, Members
    <2>2. Exists(child[e.pid][k])
      BY <1>1, <1>4, <2>1 DEF Moves
    <2>3. PICK a \in DOMAIN e.pids : e.pids[a] = k
      BY <2>2 DEF Lists
    <2>4. d.pids[a] = k
      BY <2>3, <1>1, <1>4 DEF Follows
    <2> QED BY <1>1, <2>3, <2>4
  <1>5. d.is_done => AllDone(d.pids)
    BY DEF Follows
  <1> QED BY <1>2, <1>3, <1>4, <1>5 DEF Lists, Exists, Alive

\* The array pids[] is the same when processes move.
LEMMA SpawnedKeeps ==
  ASSUME ShellTypeOK, Moves, launches' = launches, launches > 0
  PROVE  Spawned' = Spawned
  <1>1. launches \in Groups
    BY Sizes DEF ShellTypeOK, Groups
  <1>2. Commands \subseteq Members
    BY Sizes DEF Commands, Members
  <1> QED BY <1>1, <1>2 DEF Moves, Spawned

LEMMA SpawningKeeps ==
  ASSUME ShellTypeOK, Moves, Spawning, Control, launches' = launches,
         pc' = "spawn" => pc = "spawn" /\ cmd' = cmd
  PROVE  Spawning'
  <1>1. \A g \in Groups, k \in Members : g > launches' => child'[g][k] = "none"
    BY DEF Spawning, Moves
  <1>2. ASSUME pc' = "spawn" PROVE \E n \in 0 .. cmd'.length : Spawned' = 1 .. n
    <2>1. launches > 0
      BY <1>2 DEF Control, Launching
    <2>2. Spawned' = Spawned
      BY <2>1, SpawnedKeeps
    <2> QED BY <2>2, <1>2 DEF Spawning
  <1> QED BY <1>1, <1>2 DEF Spawning

\* A step that leaves the table alone.
LEMMA Framed ==
  ASSUME IInv, Moves, UNCHANGED <<launches, tableVars>>, ShellTypeOK', Control', TerminalOwner',
         Launching' => Launching, pc' = "spawn" => pc = "spawn" /\ cmd' = cmd
  PROVE  IInv'
  <1>1. Spawning'
    BY SpawningKeeps DEF IInv
  <1>2. Numbers'
    BY DEF IInv, Numbers, tableVars
  <1>3. ASSUME NEW i \in DOMAIN bg_jobs PROVE Lists(bg_jobs[i])'
    <2>1. PICK e : e = bg_jobs[i]
      OBVIOUS
    <2>2. e \in Entries /\ Lists(e)
      BY <2>1 DEF IInv, ShellTypeOK
    <2>3. Lists(e)'
      BY <2>2, FollowsItself, ListsKeeps
    <2>4. bg_jobs'[i] = e
      BY <2>1 DEF tableVars
    <2> QED BY <2>3, <2>4 DEF Lists
  <1>4. \A i \in DOMAIN bg_jobs' : Lists(bg_jobs[i])'
    BY <1>3 DEF tableVars
  <1> QED BY <1>1, <1>2, <1>4 DEF IInv

\* A step that changes entries where they are.
LEMMA Updated ==
  ASSUME IInv, Moves, UNCHANGED <<launches, next_job_num>>, ShellTypeOK', Control', TerminalOwner',
         ~Launching, ~Launching', DOMAIN bg_jobs' = DOMAIN bg_jobs, Len(bg_jobs') = Len(bg_jobs),
         \A i \in DOMAIN bg_jobs : Follows(bg_jobs[i], bg_jobs'[i])
  PROVE  IInv'
  <1>1. Spawning'
    BY SpawningKeeps DEF IInv, Launching
  <1>2. Numbers'
    <2>1. \A i \in DOMAIN bg_jobs : bg_jobs'[i].pid = bg_jobs[i].pid
      BY DEF Follows
    <2> QED BY <2>1 DEF IInv, Numbers
  <1>3. ASSUME NEW i \in DOMAIN bg_jobs PROVE Lists(bg_jobs[i])'
    <2>1. PICK e : e = bg_jobs[i]
      OBVIOUS
    <2>2. PICK d : d = bg_jobs'[i]
      OBVIOUS
    <2>3. Lists(e) /\ Follows(e, d)
      BY <2>1, <2>2 DEF IInv
    <2>4. Lists(d)'
      BY <2>3, ListsKeeps
    <2> QED BY <2>2, <2>4 DEF Lists
  <1> QED BY <1>1, <1>2, <1>3 DEF IInv

\* A step that removes all entries but those of K.
LEMMA Removed ==
  ASSUME IInv, UNCHANGED <<child, launches, next_job_num>>, ShellTypeOK', Control', TerminalOwner',
         ~Launching, ~Launching', NEW K \in SUBSET DOMAIN bg_jobs, bg_jobs' = Keep(K)
  PROVE  IInv'
  <1>t. ShellTypeOK /\ bg_jobs \in Seq(Entries) /\ Moves
    BY MoveNone DEF IInv, ShellTypeOK
  <1>k. /\ Len(Keep(K)) <= Len(bg_jobs) /\ Len(Keep(K)) \in Nat
        /\ \A n \in DOMAIN Keep(K) : Ordered(K)[n] \in K /\ Keep(K)[n] = bg_jobs[Ordered(K)[n]]
        /\ \A m, n \in DOMAIN Keep(K) : Ordered(K)[m] = Ordered(K)[n] => m = n
    BY <1>t, KeepFacts
  <1>1. Spawning'
    BY <1>t, SpawningKeeps DEF IInv, Launching
  <1>2. Numbers'
    <2>1. launches \in Nat /\ Len(bg_jobs) \in Nat /\ Len(bg_jobs) <= launches
          /\ next_job_num <= launches + 1
      BY <1>t, Sizes DEF IInv, Numbers, ShellTypeOK
    <2>2. Len(bg_jobs') <= launches'
      BY <2>1, <1>k
    <2>3. ASSUME NEW m \in DOMAIN bg_jobs', NEW n \in DOMAIN bg_jobs',
                 bg_jobs'[m].pid = bg_jobs'[n].pid
          PROVE  m = n
      BY <2>3, <1>k DEF IInv, Numbers
    <2> QED BY <2>1, <2>2, <2>3 DEF Numbers
  <1>3. ASSUME NEW n \in DOMAIN bg_jobs' PROVE Lists(bg_jobs[n])'
    <2>1. PICK e : e = bg_jobs'[n]
      OBVIOUS
    <2>2. e \in Entries /\ Lists(e)
      BY <2>1, <1>k, <1>t DEF IInv
    <2>3. Lists(e)'
      BY <2>2, <1>t, FollowsItself, ListsKeeps
    <2> QED BY <2>1, <2>3 DEF Lists
  <1> QED BY <1>1, <1>2, <1>3 DEF IInv

-----------------------------------------------------------------------------
(* Each step preserves the invariant *)

LEMMA InitInvariant == Init => IInv
  <1> SUFFICES ASSUME Init PROVE IInv
    OBVIOUS
  <1>1. ShellTypeOK
    <2>1. 0 \in 0 .. MaxLaunches /\ 1 \in 1 .. MaxLaunches + 1 /\ 0 \in 0 .. MAXJOBS
          /\ 0 \in 0 .. MaxCmds
      BY Sizes
    <2>2. child \in [Groups -> [Members -> ChildStates]]
      BY DEF Init, ChildStates
    <2>3. bg_jobs \in Seq(Entries) /\ Len(bg_jobs) = 0 /\ 0 <= MAXJOBS
      BY Sizes DEF Init
    <2>4. timeouts \in BOOLEAN
      BY Sizes DEF Init
    <2>5. cmd \in [length : 0 .. MaxCmds, bg : BOOLEAN]
      BY <2>1 DEF Init, NoCmd
    <2> QED BY <2>1, <2>2, <2>3, <2>4, <2>5 DEF Init, ShellTypeOK, Labels
  <1>2. Control
    BY DEF Init, Control, Launching, Resuming, NoCmd
  <1>3. Spawning
    BY DEF Init, Spawning
  <1>4. Numbers
    BY DEF Init, Numbers, Launching
  <1>5. DOMAIN bg_jobs = {}
    BY DEF Init
  <1>6. TerminalOwner
    BY DEF Init, TerminalOwner
  <1> QED BY <1>1, <1>2, <1>3, <1>4, <1>5, <1>6 DEF IInv

\* The main loop, and the steps of execute() that leave the table alone.
LEMMA QuietSteps ==
  ASSUME IInv, ReadLine \/ EndLine \/ EndOfInput \/ SpawnFails \/ AbortEnd \/ LaunchedFg \/ EndFg
  PROVE  IInv'
  <1>t. ShellTypeOK /\ Control /\ TerminalOwner
    BY DEF IInv
  <1>c. UNCHANGED <<child, launches, tableVars, resumeVars, timeouts>>
    BY DEF ReadLine, EndLine, EndOfInput, SpawnFails, AbortEnd, LaunchedFg, EndFg, resumeVars
  <1>1. Moves
    BY <1>t, <1>c, MoveNone
  <1>2. ShellTypeOK'
    <2>1. /\ pc' \in Labels /\ tty' \in Groups \cup {Shell} /\ eof_warned' \in BOOLEAN
          /\ UNCHANGED sigchld_pending
      BY <1>t DEF ShellTypeOK, Labels, ReadLine, EndLine, EndOfInput, SpawnFails, AbortEnd, LaunchedFg,
         EndFg
    <2>2. cmd' \in [length : 0 .. MaxCmds, bg : BOOLEAN]
      <3>1. NoCmd \in [length : 0 .. MaxCmds, bg : BOOLEAN]
        BY Sizes DEF NoCmd
      <3> QED BY <1>t, <3>1 DEF ShellTypeOK, ReadLine, EndLine, EndOfInput, SpawnFails, AbortEnd,
            LaunchedFg, EndFg
    <2> QED BY <1>t, <1>c, <2>1, <2>2 DEF ShellTypeOK, tableVars, resumeVars
  <1>3. Control'
    <2>1. CASE ReadLine \/ EndLine \/ EndOfInput
      BY <2>1, <1>t, <1>c DEF Control, Launching, Resuming, tableVars, resumeVars, ReadLine, EndLine,
         EndOfInput
    <2>2. CASE SpawnFails \/ LaunchedFg
      BY <2>2, <1>t, <1>c DEF Control, Launching, Resuming, tableVars, resumeVars, SpawnFails,
         LaunchedFg
    <2>3. CASE AbortEnd \/ EndFg
      <3>1. cmd'.length = 0 /\ pc' \in {"line", "top"}
        BY <2>3 DEF AbortEnd, EndFg, NoCmd
      <3>2. pc \in {"abort", "wait"}
        BY <2>3 DEF AbortEnd, EndFg
      <3> QED BY <3>1, <3>2, <1>t, <1>c DEF Control, Launching, Resuming, tableVars, resumeVars
    <2> QED BY <2>1, <2>2, <2>3
  <1>4. TerminalOwner'
    <2>1. CASE ReadLine \/ EndLine \/ EndOfInput
      BY <2>1, <1>t, <1>c DEF TerminalOwner, ReadLine, EndLine, EndOfInput
    <2>2. CASE SpawnFails \/ LaunchedFg
      BY <2>2, <1>t, <1>c DEF TerminalOwner, SpawnFails, LaunchedFg
    <2>3. CASE AbortEnd \/ EndFg
      BY <2>3, <1>t, <1>c DEF TerminalOwner, AbortEnd, EndFg
    <2> QED BY <2>1, <2>2, <2>3
  <1>5. (Launching' => Launching) /\ pc' # "spawn"
    BY DEF Launching, ReadLine, EndLine, EndOfInput, SpawnFails, AbortEnd, LaunchedFg, EndFg
  <1> QED BY <1>c, <1>1, <1>2, <1>3, <1>4, <1>5, Framed

\* A child moves, or execute() is told so.
LEMMA ChildSteps ==
  ASSUME IInv, NEW g \in Groups, NEW k \in Members,
         \/ ChildExits(g, k) \/ ChildStopsOrContinues(g, k)
         \/ AbortReap(k) \/ WaitFg(k)
  PROVE  IInv'
  <1>t. ShellTypeOK /\ Control /\ TerminalOwner
    BY DEF IInv
  <1>c. UNCHANGED <<launches, tableVars, sigchld_pending, tty, cmd, resumeVars, eof_warned>>
    BY DEF ChildExits, ChildStopsOrContinues, AbortReap, WaitFg
  <1>p. pc' = pc \/ (pc = "wait" /\ pc' \in {"wait", "stop"})
    BY DEF ChildExits, ChildStopsOrContinues, AbortReap, WaitFg
  <1>1. Moves
    <2>1. CASE ChildExits(g, k)
      BY <2>1, <1>t, MoveOne DEF ChildExits, Alive, ChildStates
    <2>2. CASE ChildStopsOrContinues(g, k)
      BY <2>2, <1>t, MoveOne DEF ChildStopsOrContinues, ChildStates
    <2>3. ASSUME pc \in {"abort", "wait"} PROVE launches \in Groups
      BY <2>3, <1>t, Sizes DEF Control, Launching, ShellTypeOK, Groups
    <2>4. CASE AbortReap(k)
      BY <2>4, <2>3, <1>t, MoveOne DEF AbortReap, ChildStates
    <2>5. CASE WaitFg(k)
      <3>1. /\ launches \in Groups /\ child[launches][k] \in {"stopping", "zombie"}
            /\ Become(launches, k, Reported(child[launches][k]))
        BY <2>5, <2>3 DEF WaitFg, WaitReturns
      <3>2. Reported(child[launches][k]) \in ChildStates \ {"none"}
        BY <3>1 DEF Reported, ChildStates
      <3> QED BY <3>1, <3>2, <1>t, MoveOne
    <2> QED BY <2>1, <2>2, <2>4, <2>5
  <1>2. ShellTypeOK'
    BY <1>t, <1>c, <1>p, <1>1 DEF Moves, ShellTypeOK, Labels, tableVars, resumeVars
  <1>3. Control'
    BY <1>t, <1>c, <1>p DEF Control, Launching, Resuming, tableVars, resumeVars
  <1>4. TerminalOwner'
    BY <1>t, <1>c, <1>p DEF TerminalOwner, tableVars, resumeVars
  <1>5. (Launching' => Launching) /\ (pc' = "spawn" => pc = "spawn" /\ cmd' = cmd)
    BY <1>c, <1>p DEF Launching
  <1> QED BY <1>c, <1>1, <1>2, <1>3, <1>4, <1>5, Framed

LEMMA AlarmStep ==
  ASSUME IInv, Alarm PROVE IInv'
  <1>t. ShellTypeOK /\ Control /\ TerminalOwner
    BY DEF IInv
  <1>p. /\ UNCHANGED <<child, launches, tableVars, sigchld_pending, tty, cmd, fg, live, eof_warned>>
        /\ UNCHANGED timeouts /\ alarm = "set" /\ alarm' = "fired"
        /\ Resuming /\ (pc' = pc \/ pc' = "fgend")
    BY DEF Alarm, Resuming
  <1>1. Moves
    BY <1>t, <1>p, MoveNone
  <1>2. ShellTypeOK'
    BY <1>t, <1>p DEF ShellTypeOK, Labels, tableVars
  <1>3. Control'
    BY <1>t, <1>p DEF Control, Launching, Resuming, tableVars
  <1>4. TerminalOwner'
    BY <1>t, <1>p DEF TerminalOwner, Resuming, tableVars
  <1>5. (Launching' => Launching) /\ pc' # "spawn"
    BY <1>p DEF Launching, Resuming
  <1> QED BY <1>p, <1>1, <1>2, <1>3, <1>4, <1>5, Framed

LEMMA ExecuteStarts ==
  ASSUME IInv, NEW n \in Commands, NEW bg \in BOOLEAN, Execute(n, bg)
  PROVE  IInv'
  <1>t. ShellTypeOK /\ Control /\ TerminalOwner /\ Numbers /\ Spawning
    BY DEF IInv
  <1>e. /\ pc = "line" /\ pc' = "spawn" /\ launches < MaxLaunches /\ launches' = launches + 1
        /\ cmd' = [length |-> n, bg |-> bg]
        /\ UNCHANGED <<child, tableVars, sigchld_pending, tty, resumeVars, eof_warned>>
    BY DEF Execute
  <1>n. n \in Nat /\ n > 0 /\ n <= MaxCmds /\ launches \in Nat
    BY <1>t, Sizes DEF Commands, ShellTypeOK
  <1>1. ShellTypeOK'
    <2>1. launches' \in 0 .. MaxLaunches /\ n \in 0 .. MaxCmds
      BY <1>e, <1>n, Sizes
    <2>2. cmd' \in [length : 0 .. MaxCmds, bg : BOOLEAN]
      BY <1>e, <2>1
    <2> QED BY <1>t, <1>e, <2>1, <2>2 DEF ShellTypeOK, Labels, tableVars, resumeVars
  <1>2. Control'
    BY <1>t, <1>e, <1>n DEF Control, Launching, Resuming, tableVars, resumeVars
  <1>3. TerminalOwner'
    BY <1>t, <1>e DEF TerminalOwner
  <1>4. Spawning'
    <2>1. ASSUME NEW g \in Groups, NEW k \in Members, g > launches' PROVE child'[g][k] = "none"
      <3>1. g \in Nat /\ g > launches
        BY <2>1, <1>e, <1>n DEF Groups
      <3> QED BY <3>1, <1>t, <1>e DEF Spawning
    <2>2. launches' \in Groups /\ launches' > launches
      BY <1>e, <1>n, Sizes DEF Groups
    <2>3. \A k \in Commands : k \in Members
      BY Sizes DEF Commands, Members
    <2>4. Spawned' = {}
      BY <2>2, <2>3, <1>t, <1>e DEF Spawning, Spawned
    <2>5. Spawned' = 1 .. 0 /\ 0 \in 0 .. n
      BY <2>4, <1>n
    <2> QED BY <2>1, <2>5, <1>e DEF Spawning
  <1>5. Numbers'
    <2>1. ~Launching /\ Launching' /\ bg_jobs' = bg_jobs /\ next_job_num' = next_job_num
      BY <1>e DEF Launching, tableVars
    <2>2. Len(bg_jobs) \in Nat /\ next_job_num \in Nat
      BY <1>t, Sizes DEF ShellTypeOK
    <2> QED BY <2>1, <2>2, <1>t, <1>e, <1>n DEF Numbers
  <1>6. ASSUME NEW i \in DOMAIN bg_jobs PROVE Lists(bg_jobs[i])'
    <2>1. PICK e : e = bg_jobs[i]
      OBVIOUS
    <2>2. e \in Entries /\ Lists(e)
      BY <2>1, <1>t DEF IInv, ShellTypeOK
    <2>3. e.pid \in Nat /\ e.pid <= launches
      BY <2>2 DEF Lists, Entries, Groups
    <2>4. e.pid <= launches' /\ e.pid # launches'
      BY <2>3, <1>e, <1>n
    <2>5. Lists(e)'
      BY <2>2, <2>4, <1>e DEF Lists, Exists, Alive
    <2>6. bg_jobs'[i] = e
      BY <2>1, <1>e DEF tableVars
    <2> QED BY <2>5, <2>6 DEF Lists
  <1>7. bg_jobs' = bg_jobs
    BY <1>e DEF tableVars
  <1> QED BY <1>1, <1>2, <1>3, <1>4, <1>5, <1>6, <1>7 DEF IInv

LEMMA SpawnStep ==
  ASSUME IInv, NEW helper \in BOOLEAN, Spawn(helper)
  PROVE  /\ IInv'
         /\ \A g \in Groups, k \in Members : g # launches => child'[g][k] = child[g][k]
         /\ ~helper => child'[launches][0] = child[launches][0]
  <1>t. ShellTypeOK /\ Control /\ TerminalOwner /\ Numbers /\ Spawning
    BY DEF IInv
  <1>e. /\ pc = "spawn" /\ Cardinality(Spawned) < cmd.length
        /\ tty' = IF cmd.bg THEN tty ELSE launches
        /\ UNCHANGED <<launches, tableVars, sigchld_pending, pc, cmd, resumeVars, eof_warned>>
    BY DEF Spawn
  <1>g. launches \in Groups /\ launches \in Nat
    BY <1>t, <1>e, Sizes DEF Control, Launching, ShellTypeOK, Groups
  <1>l. cmd.length \in Nat /\ cmd.length <= MaxCmds
    BY <1>t, Sizes DEF ShellTypeOK
  <1>n. PICK n \in 0 .. cmd.length : Spawned = 1 .. n
    BY <1>t, <1>e DEF Spawning
  <1>m. Cardinality(Spawned) = n /\ n < cmd.length /\ n \in Nat
    <2>1. n \in Nat
      BY <1>l
    <2>2. Cardinality(1 .. n) = n
      BY <2>1, FS_Interval
    <2> QED BY <2>1, <2>2, <1>n, <1>e
  <1> DEFINE c == [k \in Members |-> IF k = n + 1 \/ (k = 0 /\ helper) THEN "running"
                                      ELSE child[launches][k]]
  <1>1. child' = [child EXCEPT ![launches] = c]
    <2>1. child' = [child EXCEPT ![launches] = [k \in Members |->
              IF k = Cardinality(Spawned) + 1 \/ (k = 0 /\ helper) THEN "running"
              ELSE child[launches][k]]]
      BY DEF Spawn
    <2> QED BY <2>1, <1>m
  <1>2. child \in [Groups -> [Members -> ChildStates]]
    BY <1>t DEF ShellTypeOK
  <1>3. c \in [Members -> ChildStates]
    BY <1>2, <1>g DEF ChildStates
  <1>4. \A k \in Members : c[k] = IF k = n + 1 \/ (k = 0 /\ helper) THEN "running"
                                  ELSE child[launches][k]
    OBVIOUS
  <1> HIDE DEF c
  <1>5. /\ child' \in [Groups -> [Members -> ChildStates]]
        /\ \A g \in Groups, k \in Members :
              child'[g][k] = IF g = launches THEN c[k] ELSE child[g][k]
    BY <1>1, <1>2, <1>3, <1>g
  <1>6. 0 \in Members /\ n + 1 \in Commands /\ \A k \in Commands : k \in Members /\ k # 0
    BY <1>m, <1>l, Sizes DEF Members, Commands
  <1>7. ShellTypeOK'
    BY <1>t, <1>e, <1>g, <1>5 DEF ShellTypeOK, tableVars, resumeVars
  <1>8. Control'
    BY <1>t, <1>e DEF Control, Launching, Resuming, tableVars, resumeVars
  <1>9. TerminalOwner'
    BY <1>t, <1>e DEF TerminalOwner
  <1>10. Spawning'
    <2>1. ASSUME NEW g \in Groups, NEW k \in Members, g > launches' PROVE child'[g][k] = "none"
      <3>1. g > launches /\ g # launches
        BY <2>1, <1>e, <1>g DEF Groups
      <3> QED BY <3>1, <1>5, <1>t DEF Spawning
    <2>2. \A k \in Commands : child'[launches][k] # "none" <=> k = n + 1 \/ child[launches][k] # "none"
      BY <1>4, <1>5, <1>6, <1>g
    <2>3. Spawned' = Spawned \cup {n + 1}
      BY <2>2, <1>6, <1>e DEF Spawned
    <2>4. Spawned' = 1 .. (n + 1) /\ n + 1 \in 0 .. cmd'.length
      <3>1. (1 .. n) \cup {n + 1} = 1 .. (n + 1)
        BY <1>m
      <3> QED BY <3>1, <2>3, <1>n, <1>m, <1>l, <1>e
    <2> QED BY <2>1, <2>4 DEF Spawning
  <1>11. Numbers'
    BY <1>t, <1>e DEF Numbers, Launching, tableVars
  <1>12. ASSUME NEW i \in DOMAIN bg_jobs PROVE Lists(bg_jobs[i])'
    <2>1. PICK e : e = bg_jobs[i]
      OBVIOUS
    <2>2. e \in Entries /\ Lists(e)
      BY <2>1, <1>t DEF IInv, ShellTypeOK
    <2>3. e.pid \in Groups /\ e.pid # launches
      BY <2>2, <1>e DEF Lists, Entries, Launching
    <2>4. \A k \in Commands : child'[e.pid][k] = child[e.pid][k]
      BY <2>3, <1>5, <1>6
    <2>5. Lists(e)'
      BY <2>2, <2>4, <1>e DEF Lists, Exists, Alive, Launching
    <2>6. bg_jobs'[i] = e
      BY <2>1, <1>e DEF tableVars
    <2> QED BY <2>5, <2>6 DEF Lists
  <1>13. bg_jobs' = bg_jobs
    BY <1>e DEF tableVars
  <1>14. IInv'
    BY <1>7, <1>8, <1>9, <1>10, <1>11, <1>12, <1>13 DEF IInv
  <1>15. ~helper => child'[launches][0] = child[launches][0]
    BY <1>4, <1>5, <1>6, <1>g, <1>m
  <1> QED BY <1>14, <1>15, <1>5

\* add_job() for a pipeline of which every command not reaped is listed, once.
LEMMA AddStep ==
  ASSUME IInv, NEW pids \in Seq(Members), Len(pids) <= MaxCmds, Launching, ~Launching',
         pc' \in {"line", "top"}, tty' = Shell, cmd' = NoCmd, next_job_num' = NextJobNum,
         UNCHANGED <<child, launches, sigchld_pending, resumeVars, eof_warned>>,
         \A a, b \in DOMAIN pids : pids[a] = pids[b] => a = b,
         \A k \in Commands : Exists(child[launches][k]) => \E a \in DOMAIN pids : pids[a] = k,
         DOMAIN bg_jobs' = DOMAIN AddJob(pids), bg_jobs' \in Seq(Entries),
         \A i \in DOMAIN bg_jobs' : /\ bg_jobs'[i].pid = AddJob(pids)[i].pid
                                    /\ bg_jobs'[i].pids = AddJob(pids)[i].pids
                                    /\ bg_jobs'[i].is_done = AddJob(pids)[i].is_done
  PROVE  /\ IInv'
         /\ \A i \in DOMAIN bg_jobs : i \in DOMAIN bg_jobs' /\ bg_jobs'[i].pid = bg_jobs[i].pid
         /\ \A i \in DOMAIN bg_jobs' \ DOMAIN bg_jobs :
               bg_jobs'[i].pid = launches /\ bg_jobs'[i].pids = pids
         /\ Len(bg_jobs) < MAXJOBS => \E i \in DOMAIN bg_jobs' : bg_jobs'[i].pid = launches
         /\ \A i \in DOMAIN bg_jobs :
               bg_jobs'[i].pids = bg_jobs[i].pids /\ bg_jobs'[i].is_done = bg_jobs[i].is_done
  <1>t. ShellTypeOK /\ Control /\ TerminalOwner /\ Numbers /\ Spawning
    BY DEF IInv
  <1>g. launches \in Groups /\ launches \in Nat /\ next_job_num \in Nat
    BY <1>t, Sizes DEF Control, ShellTypeOK, Groups
  <1> DEFINE e == [job_num |-> next_job_num, pid |-> launches, pids |-> pids,
                   state |-> "running", is_done |-> FALSE]
  <1>e. e \in Entries /\ e.pid = launches /\ e.pids = pids /\ e.is_done = FALSE
    BY <1>g DEF Entries
  <1>a. AddJob(pids) = IF Len(bg_jobs) >= MAXJOBS THEN bg_jobs ELSE Append(bg_jobs, e)
    BY DEF AddJob
  <1> HIDE DEF e
  <1>j. bg_jobs \in Seq(Entries) /\ Len(bg_jobs) \in Nat /\ Len(bg_jobs) <= MAXJOBS
    BY <1>t DEF ShellTypeOK
  <1>1. /\ AddJob(pids) \in Seq(Entries) /\ Len(AddJob(pids)) <= MAXJOBS
        /\ Len(AddJob(pids)) <= Len(bg_jobs) + 1
        /\ \A i \in DOMAIN bg_jobs : i \in DOMAIN AddJob(pids) /\ AddJob(pids)[i] = bg_jobs[i]
        /\ \A i \in DOMAIN AddJob(pids) \ DOMAIN bg_jobs :
              i = Len(bg_jobs) + 1 /\ AddJob(pids)[i] = e
        /\ Len(bg_jobs) < MAXJOBS =>
              Len(bg_jobs) + 1 \in DOMAIN AddJob(pids) \ DOMAIN bg_jobs
    <2>1. CASE Len(bg_jobs) >= MAXJOBS
      <3>1. AddJob(pids) = bg_jobs /\ ~(Len(bg_jobs) < MAXJOBS)
        BY <2>1, <1>a, <1>j, Sizes
      <3> QED BY <3>1, <1>j
    <2>2. CASE ~(Len(bg_jobs) >= MAXJOBS)
      <3>1. AddJob(pids) = Append(bg_jobs, e) /\ Len(bg_jobs) + 1 <= MAXJOBS
        BY <2>2, <1>a, <1>j, Sizes
      <3> QED BY <3>1, <1>j, <1>e
    <2> QED BY <2>1, <2>2
  <1>2. Len(bg_jobs') = Len(AddJob(pids))
    BY <1>1
  <1>3. ShellTypeOK'
    <2>1. next_job_num' \in 1 .. MaxLaunches + 1
      BY <1>t, <1>g, Sizes DEF NextJobNum, Numbers, ShellTypeOK
    <2>2. cmd' \in [length : 0 .. MaxCmds, bg : BOOLEAN]
      BY Sizes DEF NoCmd
    <2> QED BY <2>1, <2>2, <1>1, <1>2, <1>t DEF ShellTypeOK, Labels, resumeVars
  <1>4. Control'
    <2>1. cmd'.length = 0 /\ ~Resuming /\ ~Resuming'
      BY DEF NoCmd, Launching, Resuming
    <2> QED BY <2>1, <1>t DEF Control, Resuming, resumeVars
  <1>5. TerminalOwner'
    BY DEF TerminalOwner
  <1>6. Spawning'
    BY <1>t, MoveNone, SpawningKeeps
  <1>7. Numbers'
    <2>1. Len(bg_jobs') <= launches'
      BY <1>1, <1>2, <1>t, <1>j, <1>g DEF Numbers
    <2>2. next_job_num' <= launches' + 1
      BY <1>t, <1>g DEF Numbers, NextJobNum
    <2>3. \A i \in DOMAIN bg_jobs : bg_jobs[i].pid # launches
      BY DEF IInv, Lists
    <2>4. ASSUME NEW i \in DOMAIN bg_jobs', NEW j \in DOMAIN bg_jobs',
                 bg_jobs'[i].pid = bg_jobs'[j].pid
          PROVE  i = j
      <3>1. CASE i \in DOMAIN bg_jobs /\ j \in DOMAIN bg_jobs
        BY <3>1, <2>4, <1>1, <1>t DEF Numbers
      <3>2. CASE i \notin DOMAIN bg_jobs /\ j \notin DOMAIN bg_jobs
        BY <3>2, <1>1
      <3>3. CASE i \in DOMAIN bg_jobs /\ j \notin DOMAIN bg_jobs
        BY <3>3, <2>3, <2>4, <1>1, <1>e
      <3>4. CASE i \notin DOMAIN bg_jobs /\ j \in DOMAIN bg_jobs
        BY <3>4, <2>3, <2>4, <1>1, <1>e
      <3> QED BY <3>1, <3>2, <3>3, <3>4
    <2> QED BY <2>1, <2>2, <2>4 DEF Numbers
  <1>8. ASSUME NEW i \in DOMAIN bg_jobs' PROVE Lists(bg_jobs[i])'
    <2>1. PICK d : d = bg_jobs'[i]
      OBVIOUS
    <2>2. CASE i \in DOMAIN bg_jobs
      <3>1. PICK f : f = bg_jobs[i]
        OBVIOUS
      <3>2. f \in Entries /\ d \in Entries /\ Lists(f)
        BY <3>1, <2>1, <2>2, <1>j DEF IInv
      <3>3. d.pid = f.pid /\ d.pids = f.pids /\ d.is_done = f.is_done
        BY <3>1, <2>1, <2>2, <1>1
      <3>4. Follows(f, d)
        BY <3>2, <3>3 DEF Follows, Lists
      <3>5. Lists(d)'
        BY <3>2, <3>4, <1>t, MoveNone, ListsKeeps
      <3> QED BY <3>5, <2>1 DEF Lists
    <2>3. CASE i \notin DOMAIN bg_jobs
      <3>1. d.pid = launches /\ d.pids = pids /\ d.is_done = FALSE
        BY <2>1, <2>3, <1>1, <1>e
      <3>2. Lists(d)'
        BY <3>1, <1>g DEF Lists, Exists, Alive
      <3> QED BY <3>2, <2>1 DEF Lists
    <2> QED BY <2>2, <2>3
  <1>9. IInv'
    BY <1>3, <1>4, <1>5, <1>6, <1>7, <1>8 DEF IInv
  <1>10. \A i \in DOMAIN bg_jobs' \ DOMAIN bg_jobs :
            bg_jobs'[i].pid = launches /\ bg_jobs'[i].pids = pids
    BY <1>1, <1>e
  <1> QED BY <1>1, <1>9, <1>10

\* The pids of a pipeline launched in the background are those of all its commands.
LEMMA LaunchedBgStep ==
  ASSUME IInv, LaunchedBg
  PROVE  /\ IInv'
         /\ Launching /\ ~Launching' /\ pc' = "line" /\ UNCHANGED <<child, launches, resumeVars>>
         /\ \A i \in DOMAIN bg_jobs : /\ i \in DOMAIN bg_jobs' /\ bg_jobs'[i].pid = bg_jobs[i].pid
                                      /\ bg_jobs'[i].pids = bg_jobs[i].pids
                                      /\ bg_jobs'[i].is_done = bg_jobs[i].is_done
         /\ \A i \in DOMAIN bg_jobs' \ DOMAIN bg_jobs : ~AllDone(bg_jobs'[i].pids)
         /\ Len(bg_jobs) < MAXJOBS => \E i \in DOMAIN bg_jobs' : bg_jobs'[i].pid = launches
  <1>t. ShellTypeOK /\ Control /\ Spawning
    BY DEF IInv
  <1> DEFINE pids == [i \in 1 .. cmd.length |-> i]
  <1>e. /\ pc = "spawn" /\ pc' = "line" /\ cmd.bg /\ Cardinality(Spawned) = cmd.length
        /\ bg_jobs' = AddJob(pids) /\ next_job_num' = NextJobNum /\ cmd' = NoCmd
        /\ UNCHANGED <<child, launches, sigchld_pending, tty, resumeVars, eof_warned>>
    BY DEF LaunchedBg
  <1>l. cmd.length \in Nat /\ cmd.length <= MaxCmds /\ cmd.length > 0
    BY <1>t, <1>e, Sizes DEF ShellTypeOK, Control, Launching
  <1>n. PICK n \in 0 .. cmd.length : Spawned = 1 .. n
    BY <1>t, <1>e DEF Spawning
  <1>m. Spawned = 1 .. cmd.length
    <2>1. n \in Nat
      BY <1>l
    <2>2. Cardinality(1 .. n) = n
      BY <2>1, FS_Interval
    <2> QED BY <2>2, <1>n, <1>e
  <1>1. /\ pids \in Seq(Members) /\ Len(pids) = cmd.length /\ DOMAIN pids = 1 .. cmd.length
        /\ \A a \in 1 .. cmd.length : pids[a] = a
    <2>1. \A i \in 1 .. cmd.length : i \in Members
      BY <1>l, Sizes DEF Members
    <2> QED BY <2>1, <1>l
  <1> HIDE DEF pids
  <1>2. ASSUME NEW k \in Commands, Exists(child[launches][k]) PROVE \E a \in DOMAIN pids : pids[a] = k
    <2>1. child[launches][k] # "none"
      BY <1>2 DEF Exists, Alive
    <2>2. k \in 1 .. cmd.length
      BY <2>1, <1>m DEF Spawned
    <2> QED BY <2>2, <1>1
  <1>3. Launching /\ ~Launching'
    BY <1>e DEF Launching
  <1>4. tty' = Shell
    BY <1>e DEF IInv, TerminalOwner
  <1>5. bg_jobs' \in Seq(Entries)
    <2>1. launches \in Groups /\ next_job_num \in Nat
      BY <1>t, <1>3, Sizes DEF Control, ShellTypeOK, Groups
    <2>2. [job_num |-> next_job_num, pid |-> launches, pids |-> pids,
           state |-> "running", is_done |-> FALSE] \in Entries
      BY <2>1, <1>1 DEF Entries
    <2> QED BY <2>2, <1>e, <1>t DEF AddJob, ShellTypeOK
  <1>6. /\ IInv'
        /\ \A i \in DOMAIN bg_jobs : i \in DOMAIN bg_jobs' /\ bg_jobs'[i].pid = bg_jobs[i].pid
        /\ \A i \in DOMAIN bg_jobs' \ DOMAIN bg_jobs :
              bg_jobs'[i].pid = launches /\ bg_jobs'[i].pids = pids
        /\ Len(bg_jobs) < MAXJOBS => \E i \in DOMAIN bg_jobs' : bg_jobs'[i].pid = launches
        /\ \A i \in DOMAIN bg_jobs :
              bg_jobs'[i].pids = bg_jobs[i].pids /\ bg_jobs'[i].is_done = bg_jobs[i].is_done
    BY <1>1, <1>2, <1>3, <1>4, <1>5, <1>e, <1>l, AddStep, SMTT(30)
  <1>7. ~AllDone(pids)
    BY <1>1, <1>l DEF AllDone
  <1> QED BY <1>3, <1>6, <1>7, <1>e

\* A stopped pipeline becomes a job with the commands that remain.
LEMMA StopFgStep ==
  ASSUME IInv, StopFg
  PROVE  /\ IInv'
         /\ pc = "stop" /\ Launching /\ ~Launching' /\ pc' \in {"line", "top"}
         /\ UNCHANGED <<child, launches, resumeVars>>
         /\ \A i \in DOMAIN bg_jobs : /\ i \in DOMAIN bg_jobs' /\ bg_jobs'[i].pid = bg_jobs[i].pid
                                      /\ bg_jobs'[i].pids = bg_jobs[i].pids
                                      /\ bg_jobs'[i].is_done = bg_jobs[i].is_done
         /\ Unreaped # {} => \A i \in DOMAIN bg_jobs' \ DOMAIN bg_jobs : ~AllDone(bg_jobs'[i].pids)
         /\ Len(bg_jobs) < MAXJOBS => \E i \in DOMAIN bg_jobs' : bg_jobs'[i].pid = launches
  <1>t. ShellTypeOK /\ Control
    BY DEF IInv
  <1> DEFINE pids == Ordered(Unreaped)
             added == AddJob(pids)
  <1>e. /\ pc = "stop" /\ pc' \in {"line", "top"} /\ tty' = Shell
        /\ bg_jobs' = [added EXCEPT ![Len(added)].state = "stopped"]
        /\ next_job_num' = NextJobNum /\ cmd' = NoCmd
        /\ UNCHANGED <<child, launches, sigchld_pending, resumeVars, eof_warned>>
    BY DEF StopFg
  <1>s. /\ Unreaped \subseteq Commands /\ Unreaped \in SUBSET Nat /\ IsFiniteSet(Unreaped)
        /\ Cardinality(Unreaped) <= MaxCmds
    <2>1. Unreaped \subseteq Commands /\ Commands \subseteq Nat /\ Commands = 1 .. MaxCmds
      BY Sizes DEF Unreaped, Spawned, Commands
    <2>2. IsFiniteSet(Commands) /\ Cardinality(Commands) = MaxCmds
      BY <2>1, Sizes, FS_Interval
    <2>3. IsFiniteSet(Unreaped) /\ Cardinality(Unreaped) <= MaxCmds
      BY <2>1, <2>2, FS_Subset
    <2> QED BY <2>1, <2>3
  <1>o. /\ Cardinality(Unreaped) \in Nat
        /\ pids \in [1 .. Cardinality(Unreaped) -> Unreaped]
        /\ \A m, n \in 1 .. Cardinality(Unreaped) : pids[m] = pids[n] => m = n
        /\ \A i \in Unreaped : \E n \in 1 .. Cardinality(Unreaped) : pids[n] = i
    BY <1>s, OrderedFacts
  <1>1. pids \in Seq(Members) /\ Len(pids) = Cardinality(Unreaped)
        /\ DOMAIN pids = 1 .. Cardinality(Unreaped)
    <2>1. Commands \subseteq Members
      BY Sizes DEF Commands, Members
    <2>2. Unreaped \subseteq Members
      BY <2>1, <1>s
    <2> HIDE DEF pids
    <2> QED BY <2>2, <1>o
  <1> HIDE DEF pids
  <1>2. ASSUME NEW k \in Commands, Exists(child[launches][k]) PROVE \E a \in DOMAIN pids : pids[a] = k
    <2>1. k \in Unreaped
      BY <1>2 DEF Exists, Alive, Unreaped, Spawned
    <2> QED BY <2>1, <1>o, <1>1
  <1>3. Launching /\ ~Launching'
    BY <1>e DEF Launching
  <1>4. added \in Seq(Entries) /\ Len(added) > 0
    <2>1. launches \in Groups /\ next_job_num \in Nat /\ bg_jobs \in Seq(Entries)
      BY <1>t, <1>3, Sizes DEF Control, ShellTypeOK, Groups
    <2>2. [job_num |-> next_job_num, pid |-> launches, pids |-> pids,
           state |-> "running", is_done |-> FALSE] \in Entries
      BY <2>1, <1>1 DEF Entries
    <2> QED BY <2>1, <2>2, Sizes DEF AddJob
  <1> HIDE DEF added
  <1>5. /\ bg_jobs' \in Seq(Entries) /\ DOMAIN bg_jobs' = DOMAIN added
        /\ \A i \in DOMAIN bg_jobs' : /\ bg_jobs'[i].pid = added[i].pid
                                      /\ bg_jobs'[i].pids = added[i].pids
                                      /\ bg_jobs'[i].is_done = added[i].is_done
    <2>1. PICK m : m = Len(added)
      OBVIOUS
    <2>2. m \in DOMAIN added /\ added[m] \in Entries
      BY <2>1, <1>4
    <2>3. PICK d : d = [added[m] EXCEPT !.state = "stopped"]
      OBVIOUS
    <2>4. /\ d \in Entries /\ d.pid = added[m].pid /\ d.pids = added[m].pids
          /\ d.is_done = added[m].is_done
      BY <2>2, <2>3 DEF Entries
    <2>5. bg_jobs' = [added EXCEPT ![m] = d]
      BY <2>1, <2>3, <1>e
    <2> QED BY <2>2, <2>4, <2>5, <1>4
  <1>6. /\ IInv'
        /\ \A i \in DOMAIN bg_jobs : i \in DOMAIN bg_jobs' /\ bg_jobs'[i].pid = bg_jobs[i].pid
        /\ \A i \in DOMAIN bg_jobs' \ DOMAIN bg_jobs :
              bg_jobs'[i].pid = launches /\ bg_jobs'[i].pids = pids
        /\ Len(bg_jobs) < MAXJOBS => \E i \in DOMAIN bg_jobs' : bg_jobs'[i].pid = launches
        /\ \A i \in DOMAIN bg_jobs :
              bg_jobs'[i].pids = bg_jobs[i].pids /\ bg_jobs'[i].is_done = bg_jobs[i].is_done
    <2>1. /\ DOMAIN bg_jobs' = DOMAIN AddJob(pids)
          /\ \A i \in DOMAIN bg_jobs' : /\ bg_jobs'[i].pid = AddJob(pids)[i].pid
                                        /\ bg_jobs'[i].pids = AddJob(pids)[i].pids
                                        /\ bg_jobs'[i].is_done = AddJob(pids)[i].is_done
      BY <1>5 DEF added
    <2>2. Len(pids) <= MaxCmds /\ \A a, b \in DOMAIN pids : pids[a] = pids[b] => a = b
      BY <1>1, <1>o, <1>s
    <2> QED BY <2>1, <2>2, <1>1, <1>2, <1>3, <1>5, <1>e, AddStep
  <1>7. Unreaped # {} => ~AllDone(pids)
    <2>1. \A k \in Commands : k # 0
      BY Sizes DEF Commands
    <2> QED BY <2>1, <1>o, <1>1, <1>s DEF AllDone
  <1> QED BY <1>3, <1>6, <1>7, <1>e

LEMMA ReportDoneStep ==
  ASSUME IInv, ReportDone \/ InputInterrupted PROVE IInv'
  <1>t. ShellTypeOK /\ Control /\ TerminalOwner /\ bg_jobs \in Seq(Entries)
    BY DEF IInv, ShellTypeOK
  <1> DEFINE K == {i \in DOMAIN bg_jobs : ~bg_jobs[i].is_done}
  <1>e. /\ pc \in {"top", "prompt"} /\ pc' \in {"top", "prompt"} /\ sigchld_pending' = FALSE
        /\ bg_jobs' = IF sigchld_pending THEN Keep(K) ELSE bg_jobs
        /\ UNCHANGED <<child, launches, next_job_num, tty, cmd, resumeVars, eof_warned>>
    BY DEF ReportDone, InputInterrupted, PrcsCmpltJob
  <1>k. Keep(K) \in Seq(Entries) /\ Len(Keep(K)) <= Len(bg_jobs) /\ Len(Keep(K)) \in Nat
    BY <1>t, KeepFacts
  <1> HIDE DEF K
  <1>1. ShellTypeOK'
    <2>1. bg_jobs' \in Seq(Entries) /\ Len(bg_jobs') <= MAXJOBS
      BY <1>e, <1>k, <1>t, Sizes DEF ShellTypeOK
    <2> QED BY <2>1, <1>e, <1>t DEF ShellTypeOK, Labels, resumeVars
  <1>2. Control'
    BY <1>t, <1>e DEF Control, Launching, Resuming, resumeVars
  <1>3. TerminalOwner'
    BY <1>t, <1>e DEF TerminalOwner
  <1>4. ~Launching /\ ~Launching' /\ pc' # "spawn"
    BY <1>e DEF Launching
  <1>5. CASE sigchld_pending
    <2>1. bg_jobs' = Keep(K) /\ K \in SUBSET DOMAIN bg_jobs
      BY <1>5, <1>e DEF K
    <2> QED BY <2>1, <1>1, <1>2, <1>3, <1>4, <1>e, Removed
  <1>6. CASE ~sigchld_pending
    <2>1. UNCHANGED <<launches, tableVars>>
      BY <1>6, <1>e DEF tableVars
    <2>2. Moves
      BY <1>t, <1>e, MoveNone
    <2> QED BY <2>1, <2>2, <1>1, <1>2, <1>3, <1>4, Framed
  <1> QED BY <1>5, <1>6

\* An entry whose process k has been reaped, or is marked stopped or running.
LEMMA MarkFollows ==
  ASSUME NEW e \in Entries, Lists(e), NEW s \in {"stopped", "running"}, NEW d,
         d = [e EXCEPT !.state = s]
  PROVE  Follows(e, d) /\ d.pids = e.pids /\ d.is_done = e.is_done
  <1>1. /\ d \in Entries /\ d.pid = e.pid /\ d.pids = e.pids /\ d.is_done = e.is_done
    BY DEF Entries
  <1> QED BY <1>1 DEF Follows, Lists

LEMMA ForgetFollows ==
  ASSUME NEW e \in Entries, Lists(e), NEW k \in Members, ~Exists(child'[e.pid][k]), NEW d \in Entries,
         d.pid = e.pid, d.pids = Forget(e.pids, k),
         d.is_done => e.is_done \/ AllDone(Forget(e.pids, k))
  PROVE  Follows(e, d)
  <1>1. e.pids \in Seq(Members)
    BY DEF Entries
  <1>2. PICK s : s = e.pids
    OBVIOUS
  <1>3. /\ DOMAIN Forget(s, k) = DOMAIN s /\ Len(Forget(s, k)) = Len(s)
        /\ \A a \in DOMAIN s : Forget(s, k)[a] = IF s[a] = k THEN 0 ELSE s[a]
    BY <1>1, <1>2, ForgetFacts, ZenonT(30)
  <1>4. \A a \in DOMAIN e.pids :
           \/ d.pids[a] = e.pids[a]
           \/ d.pids[a] = 0 /\ ~Exists(child'[e.pid][e.pids[a]])
    BY <1>2, <1>3
  <1>5. e.is_done => AllDone(d.pids)
    BY <1>2, <1>3 DEF Lists, AllDone
  <1> QED BY <1>2, <1>3, <1>4, <1>5 DEF Follows

LEMMA NotedFollows ==
  ASSUME NEW e \in Entries, Lists(e), NEW k \in Members, NEW s \in {"stopping", "continued", "zombie"},
         ~Exists(child'[e.pid][k]) \/ s # "zombie", NEW d, d = Noted(e, k, s)
  PROVE  /\ Follows(e, d)
         /\ d.pids = IF s = "zombie" THEN Forget(e.pids, k) ELSE e.pids
         /\ d.is_done <=> e.is_done \/ (s = "zombie" /\ AllDone(d.pids))
  <1>1. CASE s = "stopping" \/ s = "continued"
    <2>1. \/ d = [e EXCEPT !.state = "stopped"]
          \/ d = [e EXCEPT !.state = "running"]
      BY <1>1 DEF Noted
    <2>2. Follows(e, d) /\ d.pids = e.pids /\ d.is_done = e.is_done
      BY <2>1, MarkFollows
    <2> QED BY <1>1, <2>2
  <1>2. CASE s = "zombie"
    <2>1. PICK f : f = Forget(e.pids, k)
      OBVIOUS
    <2>2. f \in Seq(Members)
      <3>1. e.pids \in Seq(Members)
        BY DEF Entries
      <3> QED BY <3>1, <2>1, ForgetFacts
    <2>3. d = [e EXCEPT !.pids = f, !.is_done = @ \/ AllDone(f)]
      BY <1>2, <2>1 DEF Noted
    <2>4. AllDone(f) \in BOOLEAN /\ e.is_done \in BOOLEAN
      BY DEF AllDone, Entries
    <2>5. (e.is_done \/ AllDone(f)) \in BOOLEAN
      BY <2>4
    <2>6. /\ d \in Entries /\ d.pid = e.pid /\ d.pids = f
          /\ d.is_done = (e.is_done \/ AllDone(f))
      BY <2>2, <2>3, <2>5 DEF Entries
    <2>7. Follows(e, d)
      BY <1>2, <2>1, <2>6, ForgetFollows
    <2> QED BY <1>2, <2>1, <2>6, <2>7
  <1> QED BY <1>1, <1>2

LEMMA SigchldStep ==
  ASSUME IInv, NEW g \in Groups, NEW k \in Members, Sigchld(g, k)
  PROVE  /\ IInv'
         /\ Moves /\ UNCHANGED <<launches, pc, resumeVars>>
         /\ DOMAIN bg_jobs' = DOMAIN bg_jobs
         /\ \A i \in DOMAIN bg_jobs :
               /\ bg_jobs'[i].pid = bg_jobs[i].pid
               /\ bg_jobs[i].is_done => bg_jobs'[i].is_done
               /\ bg_jobs'[i].pids # bg_jobs[i].pids /\ AllDone(bg_jobs'[i].pids) => bg_jobs'[i].is_done
  <1>t. ShellTypeOK /\ Control /\ TerminalOwner /\ bg_jobs \in Seq(Entries)
    BY DEF IInv, ShellTypeOK
  <1>s. PICK s : s = child[g][k]
    OBVIOUS
  <1>e. /\ Unblocked /\ s \in {"stopping", "continued", "zombie"} /\ sigchld_pending' = TRUE
        /\ Become(g, k, Reported(s))
        /\ bg_jobs' = [i \in DOMAIN bg_jobs |->
              IF Tracks(bg_jobs[i], g, k) THEN Noted(bg_jobs[i], k, s) ELSE bg_jobs[i]]
        /\ UNCHANGED <<launches, next_job_num, tty, pc, cmd, resumeVars, eof_warned>>
    BY <1>s DEF Sigchld
  <1>r. Reported(s) \in ChildStates \ {"none"} /\ (s = "zombie" => Reported(s) = "reaped")
    BY <1>e DEF Reported, ChildStates
  <1>m. Moves /\ child'[g][k] = Reported(s)
    BY <1>e, <1>r, <1>s, <1>t, MoveOne
  <1>z. s = "zombie" => ~Exists(child'[g][k])
    BY <1>m, <1>r DEF Exists, Alive
  <1>1. ASSUME NEW i \in DOMAIN bg_jobs
        PROVE  /\ Follows(bg_jobs[i], bg_jobs'[i])
               /\ bg_jobs[i].is_done => bg_jobs'[i].is_done
               /\ bg_jobs'[i].pids # bg_jobs[i].pids /\ AllDone(bg_jobs'[i].pids) =>
                      bg_jobs'[i].is_done
    <2>1. PICK e : e = bg_jobs[i]
      OBVIOUS
    <2>2. PICK d : d = bg_jobs'[i]
      OBVIOUS
    <2>3. e \in Entries /\ Lists(e)
      BY <2>1, <1>t DEF IInv
    <2>4. CASE Tracks(e, g, k)
      <3>1. d = Noted(e, k, s) /\ e.pid = g
        BY <2>1, <2>2, <2>4, <1>e DEF Tracks
      <3>2. /\ Follows(e, d)
            /\ d.pids = IF s = "zombie" THEN Forget(e.pids, k) ELSE e.pids
            /\ d.is_done <=> e.is_done \/ (s = "zombie" /\ AllDone(d.pids))
        BY <3>1, <2>3, <1>e, <1>z, NotedFollows
      <3> QED BY <3>2, <2>1, <2>2
    <2>5. CASE ~Tracks(e, g, k)
      <3>1. d = e
        BY <2>1, <2>2, <2>5, <1>e
      <3> QED BY <3>1, <2>1, <2>2, <2>3, FollowsItself
    <2> QED BY <2>4, <2>5
  <1>2. DOMAIN bg_jobs' = DOMAIN bg_jobs /\ bg_jobs' \in Seq(Entries) /\ Len(bg_jobs') = Len(bg_jobs)
    <2>1. \A i \in DOMAIN bg_jobs : bg_jobs'[i] \in Entries
      BY <1>1 DEF Follows
    <2>2. \E f : bg_jobs' = [i \in 1 .. Len(bg_jobs) |-> f[i]]
      <3>1. PICK f : f = bg_jobs'
        OBVIOUS
      <3>2. f = [i \in 1 .. Len(bg_jobs) |-> f[i]]
        BY <3>1, <1>e, <1>t
      <3> QED BY <3>1, <3>2
    <2>3. PICK f : bg_jobs' = [i \in 1 .. Len(bg_jobs) |-> f[i]]
      BY <2>2
    <2>4. Len(bg_jobs) \in Nat /\ DOMAIN bg_jobs = 1 .. Len(bg_jobs)
      BY <1>t
    <2>5. \A i \in 1 .. Len(bg_jobs) : f[i] \in Entries
      BY <2>1, <2>3, <2>4
    <2> QED BY <2>3, <2>4, <2>5
  <1>3. ShellTypeOK'
    BY <1>t, <1>e, <1>m, <1>2 DEF ShellTypeOK, Moves, resumeVars
  <1>4. Control'
    BY <1>t, <1>e DEF Control, Launching, Resuming, Unblocked, resumeVars
  <1>5. TerminalOwner'
    BY <1>t, <1>e DEF TerminalOwner, Unblocked
  <1>6. ~Launching /\ ~Launching'
    BY <1>e DEF Launching, Unblocked
  <1>7. IInv'
    BY <1>1, <1>2, <1>3, <1>4, <1>5, <1>6, <1>m, <1>e, Updated
  <1>8. \A i \in DOMAIN bg_jobs : bg_jobs'[i].pid = bg_jobs[i].pid
    BY <1>1 DEF Follows
  <1> QED BY <1>1, <1>2, <1>7, <1>8, <1>m, <1>e

\* One entry is changed.
LEMMA OneEntry ==
  ASSUME IInv, NEW i \in DOMAIN bg_jobs, NEW d, Follows(bg_jobs[i], d),
         bg_jobs' = [bg_jobs EXCEPT ![i] = d]
  PROVE  /\ DOMAIN bg_jobs' = DOMAIN bg_jobs /\ bg_jobs' \in Seq(Entries)
         /\ Len(bg_jobs') = Len(bg_jobs) /\ bg_jobs'[i] = d
         /\ \A j \in DOMAIN bg_jobs : j # i => bg_jobs'[j] = bg_jobs[j]
         /\ \A j \in DOMAIN bg_jobs :
               Follows(bg_jobs[j], bg_jobs'[j]) /\ bg_jobs'[j].pid = bg_jobs[j].pid
  <1>1. bg_jobs \in Seq(Entries) /\ d \in Entries /\ \A j \in DOMAIN bg_jobs : Lists(bg_jobs[j])
    BY DEF IInv, ShellTypeOK, Follows
  <1>2. /\ DOMAIN bg_jobs' = DOMAIN bg_jobs /\ bg_jobs' \in Seq(Entries)
        /\ Len(bg_jobs') = Len(bg_jobs) /\ bg_jobs'[i] = d
        /\ \A j \in DOMAIN bg_jobs : j # i => bg_jobs'[j] = bg_jobs[j]
    BY <1>1
  <1>3. ASSUME NEW j \in DOMAIN bg_jobs PROVE Follows(bg_jobs[j], bg_jobs'[j])
    <2>1. CASE j = i
      BY <2>1, <1>2
    <2>2. CASE j # i
      <3>1. PICK e : e = bg_jobs[j]
        OBVIOUS
      <3>2. e \in Entries /\ Lists(e)
        BY <3>1, <1>1
      <3>3. Follows(e, e)
        BY <3>2, FollowsItself
      <3> QED BY <3>1, <3>3, <2>2, <1>2
    <2> QED BY <2>1, <2>2
  <1>4. \A j \in DOMAIN bg_jobs : bg_jobs'[j].pid = bg_jobs[j].pid
    BY <1>3 DEF Follows
  <1> QED BY <1>2, <1>3, <1>4

LEMMA ResumeStep ==
  ASSUME IInv, NEW i \in 1 .. MAXJOBS, NEW timeout \in BOOLEAN,
         ResumeBg(i) \/ ResumeGone(i) \/ ResumeFg(i, timeout)
  PROVE  /\ IInv'
         /\ Moves /\ launches' = launches /\ timeouts' = timeouts
         /\ i \in DOMAIN bg_jobs /\ ~bg_jobs[i].is_done /\ DOMAIN bg_jobs' = DOMAIN bg_jobs
         /\ \A j \in DOMAIN bg_jobs : /\ bg_jobs'[j].pid = bg_jobs[j].pid
                                      /\ bg_jobs'[j].pids = bg_jobs[j].pids
                                      /\ bg_jobs'[j].is_done = bg_jobs[j].is_done
         /\ pc = "line" /\ (pc' # "line" => fg' = i /\ live' = Live(bg_jobs[i]))
         /\ pc' \in {"line", "fgwait", "fgend"}
         /\ pc' = "fgend" => Live(bg_jobs[i]) = 0
  <1>t. ShellTypeOK /\ Control /\ TerminalOwner /\ bg_jobs \in Seq(Entries)
    BY DEF IInv, ShellTypeOK
  <1>e. /\ pc = "line" /\ i \in DOMAIN bg_jobs /\ ~bg_jobs[i].is_done
        /\ bg_jobs' = [bg_jobs EXCEPT ![i].state = "running"]
        /\ UNCHANGED <<launches, next_job_num, sigchld_pending, cmd, eof_warned, timeouts>>
    BY DEF ResumeBg, ResumeGone, ResumeFg, CanResume, resumeVars
  <1>d. PICK e : e = bg_jobs[i]
    OBVIOUS
  <1>f. PICK d : d = [e EXCEPT !.state = "running"]
    OBVIOUS
  <1>g. e \in Entries /\ Lists(e) /\ e.pid \in Groups
    <2>1. e \in Entries /\ Lists(e)
      BY <1>d, <1>e, <1>t DEF IInv
    <2> QED BY <2>1 DEF Entries
  <1>h. Follows(e, d) /\ d.pids = e.pids /\ d.is_done = e.is_done
    BY <1>f, <1>g, MarkFollows
  <1>1. bg_jobs' = [bg_jobs EXCEPT ![i] = d]
    BY <1>d, <1>f, <1>e
  <1>2. /\ DOMAIN bg_jobs' = DOMAIN bg_jobs /\ bg_jobs' \in Seq(Entries)
        /\ Len(bg_jobs') = Len(bg_jobs) /\ bg_jobs'[i] = d
        /\ \A j \in DOMAIN bg_jobs : j # i => bg_jobs'[j] = bg_jobs[j]
        /\ \A j \in DOMAIN bg_jobs :
              Follows(bg_jobs[j], bg_jobs'[j]) /\ bg_jobs'[j].pid = bg_jobs[j].pid
    BY <1>1, <1>d, <1>h, <1>e, OneEntry
  <1>3. \A j \in DOMAIN bg_jobs : /\ bg_jobs'[j].pids = bg_jobs[j].pids
                                  /\ bg_jobs'[j].is_done = bg_jobs[j].is_done
    BY <1>2, <1>d, <1>h
  <1>4. Moves
    BY <1>d, <1>g, <1>t, MoveGroup, MoveNone DEF ResumeBg, ResumeGone, ResumeFg
  <1>5. Live(e) \in Nat /\ Live(e) <= Len(e.pids) /\ Len(e.pids) <= MaxCmds
    BY <1>g, LiveFacts DEF Lists
  <1>6. CASE ResumeBg(i) \/ ResumeGone(i)
    <2>1. UNCHANGED <<tty, pc, fg, live, alarm>>
      BY <1>6 DEF ResumeBg, ResumeGone, resumeVars
    <2>2. ShellTypeOK'
      BY <1>t, <1>e, <1>2, <1>4, <2>1 DEF ShellTypeOK, Moves
    <2>3. Control'
      BY <1>t, <1>e, <2>1 DEF Control, Launching, Resuming
    <2>4. TerminalOwner'
      BY <1>t, <1>e, <2>1 DEF TerminalOwner
    <2>5. ~Launching /\ ~Launching'
      BY <1>e, <2>1 DEF Launching
    <2>6. IInv'
      BY <1>e, <1>2, <1>4, <2>2, <2>3, <2>4, <2>5, Updated
    <2> QED BY <2>1, <2>6, <1>2, <1>3, <1>4, <1>e
  <1>7. CASE ResumeFg(i, timeout)
    <2>1. /\ tty' = e.pid /\ fg' = i /\ live' = Live(e) /\ (timeout => timeouts)
          /\ alarm' = IF timeout THEN "set" ELSE "off"
          /\ pc' = IF Live(e) > 0 THEN "fgwait" ELSE "fgend"
      BY <1>7, <1>d DEF ResumeFg
    <2>2. ShellTypeOK'
      <3>1. i \in 0 .. MAXJOBS /\ Live(e) \in 0 .. MaxCmds
        BY <1>5, Sizes
      <3>2. /\ pc' \in Labels /\ tty' \in Groups \cup {Shell} /\ fg' \in 0 .. MAXJOBS
            /\ live' \in 0 .. MaxCmds /\ alarm' \in {"off", "set", "fired"}
        BY <3>1, <2>1, <1>g DEF Labels
      <3> QED BY <1>t, <1>e, <1>2, <1>4, <3>2 DEF ShellTypeOK, Moves
    <2>3. Control'
      <3>1. /\ ~Launching /\ ~Launching' /\ Resuming' /\ fg' # 0 /\ pc' \notin {"wait", "stop"}
        BY <1>e, <2>1, Sizes DEF Launching, Resuming
      <3>2. fg' \in DOMAIN bg_jobs' /\ ~bg_jobs'[fg'].is_done
        BY <2>1, <1>2, <1>3, <1>e
      <3>3. (pc' = "fgwait" => live' > 0) /\ (alarm' # "off" => timeouts')
        BY <2>1, <1>e
      <3> QED BY <3>1, <3>2, <3>3, <1>t, <1>e DEF Control
    <2>4. TerminalOwner'
      <3>1. tty' = bg_jobs'[fg'].pid
        BY <2>1, <1>2, <1>d, <1>e
      <3> QED BY <3>1, <2>1 DEF TerminalOwner
    <2>5. ~Launching /\ ~Launching'
      BY <1>e, <2>1 DEF Launching
    <2>6. IInv'
      BY <1>e, <1>2, <1>4, <2>2, <2>3, <2>4, <2>5, Updated
    <2>7. pc' = "fgend" => Live(e) = 0
      BY <2>1, <1>5
    <2> QED BY <2>1, <2>6, <2>7, <1>2, <1>3, <1>4, <1>d, <1>e
  <1> QED BY <1>6, <1>7

\* One return of waitpid() in fg_job(): a stop, or a process reaped.
LEMMA FgWaitStep ==
  ASSUME IInv, NEW k \in Members, FgWait(k)
  PROVE  /\ IInv'
         /\ Moves /\ launches' = launches /\ timeouts' = timeouts /\ alarm' = alarm /\ fg' = fg
         /\ pc = "fgwait" /\ DOMAIN bg_jobs' = DOMAIN bg_jobs /\ fg \in DOMAIN bg_jobs
         /\ Exists(child[bg_jobs[fg].pid][k])
         /\ \A j \in DOMAIN bg_jobs : /\ bg_jobs'[j].pid = bg_jobs[j].pid
                                      /\ bg_jobs'[j].is_done = bg_jobs[j].is_done
                                      /\ j # fg => bg_jobs'[j] = bg_jobs[j]
         /\ \/ pc' = "fgstop" /\ live' = live /\ bg_jobs'[fg].pids = bg_jobs[fg].pids
            \/ /\ live' = live - 1 /\ pc' = IF live = 1 THEN "fgend" ELSE "fgwait"
               /\ bg_jobs'[fg].pids = Forget(bg_jobs[fg].pids, k)
  <1>t. ShellTypeOK /\ Control /\ TerminalOwner /\ bg_jobs \in Seq(Entries)
    BY DEF IInv, ShellTypeOK
  <1>d. PICK e : e = bg_jobs[fg]
    OBVIOUS
  <1>s. PICK s : s = child[e.pid][k]
    OBVIOUS
  <1>e. /\ pc = "fgwait" /\ s \in {"stopping", "zombie"}
        /\ Become(e.pid, k, Reported(s))
        /\ UNCHANGED <<launches, next_job_num, sigchld_pending, tty, cmd, fg, alarm, eof_warned>>
        /\ UNCHANGED timeouts
    BY <1>d, <1>s DEF FgWait, WaitReturns
  <1>f. fg \in DOMAIN bg_jobs /\ ~e.is_done /\ live > 0 /\ live \in 0 .. MaxCmds
    BY <1>d, <1>e, <1>t DEF Control, Resuming, ShellTypeOK
  <1>g. e \in Entries /\ Lists(e) /\ e.pid \in Groups
    <2>1. e \in Entries /\ Lists(e)
      BY <1>d, <1>f, <1>t DEF IInv
    <2> QED BY <2>1 DEF Entries
  <1>r. Reported(s) \in ChildStates \ {"none"} /\ (s = "zombie" => Reported(s) = "reaped")
    BY <1>e DEF Reported, ChildStates
  <1>m. Moves /\ child'[e.pid][k] = Reported(s)
    BY <1>e, <1>g, <1>r, <1>s, <1>t, MoveOne
  <1>n. Exists(child[e.pid][k])
    BY <1>e, <1>s DEF Exists, Alive
  <1>1. /\ \/ /\ s = "stopping" /\ pc' = "fgstop" /\ live' = live
              /\ bg_jobs' = [bg_jobs EXCEPT ![fg].state = "stopped"]
           \/ /\ s = "zombie" /\ live' = live - 1
              /\ pc' = IF live = 1 THEN "fgend" ELSE "fgwait"
              /\ bg_jobs' = [bg_jobs EXCEPT ![fg].pids = Forget(e.pids, k)]
    BY <1>d, <1>s, <1>e DEF FgWait
  <1>2. \E d : /\ Follows(e, d) /\ d.is_done = e.is_done /\ bg_jobs' = [bg_jobs EXCEPT ![fg] = d]
               /\ d.pids = IF s = "stopping" THEN e.pids ELSE Forget(e.pids, k)
    <2>1. CASE s = "stopping"
      <3>1. PICK d : d = [e EXCEPT !.state = "stopped"]
        OBVIOUS
      <3>2. Follows(e, d) /\ d.pids = e.pids /\ d.is_done = e.is_done
        BY <3>1, <1>g, MarkFollows
      <3>3. bg_jobs' = [bg_jobs EXCEPT ![fg] = d]
        BY <3>1, <2>1, <1>1, <1>d
      <3> QED BY <3>2, <3>3, <2>1
    <2>2. CASE s = "zombie"
      <3>1. PICK p : p = Forget(e.pids, k)
        OBVIOUS
      <3>2. p \in Seq(Members)
        BY <3>1, <1>g, ForgetFacts DEF Entries
      <3>3. PICK d : d = [e EXCEPT !.pids = p]
        OBVIOUS
      <3>4. d \in Entries /\ d.pid = e.pid /\ d.pids = p /\ d.is_done = e.is_done
        BY <3>2, <3>3, <1>g DEF Entries
      <3>5. ~Exists(child'[e.pid][k])
        BY <2>2, <1>m, <1>r DEF Exists, Alive
      <3>6. Follows(e, d)
        BY <3>1, <3>4, <3>5, <1>f, <1>g, ForgetFollows
      <3>7. bg_jobs' = [bg_jobs EXCEPT ![fg] = d]
        BY <3>1, <3>3, <2>2, <1>1, <1>d
      <3> QED BY <3>1, <3>4, <3>6, <3>7, <2>2
    <2> QED BY <2>1, <2>2, <1>e
  <1>3. PICK d : /\ Follows(e, d) /\ d.is_done = e.is_done /\ bg_jobs' = [bg_jobs EXCEPT ![fg] = d]
                 /\ d.pids = IF s = "stopping" THEN e.pids ELSE Forget(e.pids, k)
    BY <1>2
  <1>4. /\ DOMAIN bg_jobs' = DOMAIN bg_jobs /\ bg_jobs' \in Seq(Entries)
        /\ Len(bg_jobs') = Len(bg_jobs) /\ bg_jobs'[fg] = d
        /\ \A j \in DOMAIN bg_jobs : j # fg => bg_jobs'[j] = bg_jobs[j]
        /\ \A j \in DOMAIN bg_jobs :
              Follows(bg_jobs[j], bg_jobs'[j]) /\ bg_jobs'[j].pid = bg_jobs[j].pid
    BY <1>3, <1>d, <1>f, OneEntry
  <1>5. ShellTypeOK'
    <2>1. live' \in 0 .. MaxCmds /\ pc' \in Labels
      BY <1>1, <1>f, Sizes DEF Labels
    <2> QED BY <2>1, <1>t, <1>e, <1>4, <1>m DEF ShellTypeOK, Moves
  <1>6. Control'
    <2>1. Resuming /\ Resuming' /\ ~Launching /\ ~Launching' /\ pc' \notin {"wait", "stop"}
      BY <1>1, <1>e DEF Resuming, Launching
    <2>2. pc' = "fgwait" => live' > 0
      BY <1>1, <1>f, Sizes
    <2>3. fg' \in DOMAIN bg_jobs' /\ ~bg_jobs'[fg'].is_done
      BY <1>3, <1>4, <1>e, <1>f
    <2> QED BY <2>1, <2>2, <2>3, <1>t, <1>e DEF Control
  <1>7. TerminalOwner'
    <2>1. tty # Shell => tty = bg_jobs[fg].pid
      BY <1>t, <1>e DEF TerminalOwner
    <2>2. bg_jobs'[fg'].pid = bg_jobs[fg].pid
      BY <1>4, <1>e, <1>f
    <2>3. pc' \in {"fgwait", "fgstop", "fgend"}
      BY <1>1
    <2> QED BY <2>1, <2>2, <2>3, <1>e DEF TerminalOwner
  <1>8. ~Launching /\ ~Launching'
    BY <1>1, <1>e DEF Launching
  <1>9. IInv'
    BY <1>4, <1>5, <1>6, <1>7, <1>8, <1>d, <1>m, <1>e, Updated
  <1>10. \A j \in DOMAIN bg_jobs : bg_jobs'[j].is_done = bg_jobs[j].is_done
    BY <1>3, <1>4, <1>d
  <1>11. \/ pc' = "fgstop" /\ live' = live /\ bg_jobs'[fg].pids = bg_jobs[fg].pids
         \/ /\ live' = live - 1 /\ pc' = IF live = 1 THEN "fgend" ELSE "fgwait"
            /\ bg_jobs'[fg].pids = Forget(bg_jobs[fg].pids, k)
    BY <1>1, <1>3, <1>4, <1>d
  <1> QED BY <1>4, <1>9, <1>10, <1>11, <1>d, <1>e, <1>f, <1>m, <1>n

\* fg_job() returns: the entry is kept, or removed.
LEMMA FgReturnStep ==
  ASSUME IInv, FgReturn
  PROVE  /\ IInv'
         /\ UNCHANGED <<child, launches, timeouts>> /\ ~Launching /\ pc' = "line" /\ fg \in DOMAIN bg_jobs
         /\ \/ /\ alarm = "fired" \/ pc = "fgstop"
               /\ DOMAIN bg_jobs' = DOMAIN bg_jobs
               /\ \A j \in DOMAIN bg_jobs : /\ bg_jobs'[j].pid = bg_jobs[j].pid
                                            /\ bg_jobs'[j].pids = bg_jobs[j].pids
                                            /\ bg_jobs'[j].is_done = bg_jobs[j].is_done
            \/ /\ alarm # "fired" /\ pc = "fgend"
               /\ bg_jobs' = Keep(DOMAIN bg_jobs \ {fg})
  <1>t. ShellTypeOK /\ Control /\ TerminalOwner /\ bg_jobs \in Seq(Entries)
    BY DEF IInv, ShellTypeOK
  <1>e. /\ pc \in {"fgstop", "fgend"} /\ pc' = "line" /\ tty' = Shell
        /\ fg' = 0 /\ live' = 0 /\ alarm' = "off"
        /\ bg_jobs' = IF alarm = "fired" THEN [bg_jobs EXCEPT ![fg].state = "running"]
                      ELSE IF pc = "fgstop" THEN bg_jobs
                      ELSE Keep(DOMAIN bg_jobs \ {fg})
        /\ UNCHANGED <<child, launches, next_job_num, sigchld_pending, cmd, eof_warned, timeouts>>
    BY DEF FgReturn
  <1>f. fg \in DOMAIN bg_jobs
    BY <1>e, <1>t DEF Control, Resuming
  <1>m. Moves
    BY <1>t, <1>e, MoveNone
  <1>1. ASSUME bg_jobs' \in Seq(Entries), Len(bg_jobs') <= Len(bg_jobs) PROVE ShellTypeOK'
    <2>1. 0 \in 0 .. MAXJOBS /\ 0 \in 0 .. MaxCmds
      BY Sizes
    <2>2. Len(bg_jobs') <= MAXJOBS
      BY <1>1, <1>t, Sizes DEF ShellTypeOK
    <2> QED BY <2>1, <2>2, <1>1, <1>t, <1>e DEF ShellTypeOK, Labels
  <1>2. Control'
    BY <1>t, <1>e DEF Control, Launching, Resuming
  <1>3. TerminalOwner'
    BY <1>e DEF TerminalOwner
  <1>4. ~Launching /\ ~Launching'
    BY <1>e DEF Launching
  <1>5. CASE alarm = "fired"
    <2>1. PICK e : e = bg_jobs[fg]
      OBVIOUS
    <2>2. PICK d : d = [e EXCEPT !.state = "running"]
      OBVIOUS
    <2>3. e \in Entries /\ Lists(e)
      BY <2>1, <1>f, <1>t DEF IInv
    <2>4. Follows(e, d) /\ d.pids = e.pids /\ d.is_done = e.is_done
      BY <2>2, <2>3, MarkFollows
    <2>5. bg_jobs' = [bg_jobs EXCEPT ![fg] = d]
      BY <2>1, <2>2, <1>5, <1>e
    <2>6. /\ DOMAIN bg_jobs' = DOMAIN bg_jobs /\ bg_jobs' \in Seq(Entries)
          /\ Len(bg_jobs') = Len(bg_jobs) /\ bg_jobs'[fg] = d
          /\ \A j \in DOMAIN bg_jobs : j # fg => bg_jobs'[j] = bg_jobs[j]
          /\ \A j \in DOMAIN bg_jobs :
                Follows(bg_jobs[j], bg_jobs'[j]) /\ bg_jobs'[j].pid = bg_jobs[j].pid
      BY <2>1, <2>4, <2>5, <1>f, OneEntry
    <2>7. ShellTypeOK'
      <3>1. Len(bg_jobs) \in Nat
        BY <1>t
      <3> QED BY <3>1, <2>6, <1>1
    <2>8. IInv'
      BY <2>6, <2>7, <1>2, <1>3, <1>4, <1>m, <1>e, Updated
    <2>9. \A j \in DOMAIN bg_jobs : /\ bg_jobs'[j].pids = bg_jobs[j].pids
                                    /\ bg_jobs'[j].is_done = bg_jobs[j].is_done
      BY <2>1, <2>4, <2>6
    <2> QED BY <2>6, <2>8, <2>9, <1>5, <1>4, <1>e, <1>f
  <1>6. CASE alarm # "fired" /\ pc = "fgstop"
    <2>1. bg_jobs' = bg_jobs /\ UNCHANGED tableVars
      BY <1>6, <1>e DEF tableVars
    <2>2. ShellTypeOK'
      BY <2>1, <1>1, <1>t
    <2>3. IInv'
      BY <2>1, <2>2, <1>2, <1>3, <1>4, <1>m, <1>e, Framed
    <2> QED BY <2>1, <2>3, <1>6, <1>4, <1>e, <1>f
  <1>7. CASE alarm # "fired" /\ pc # "fgstop"
    <2>1. bg_jobs' = Keep(DOMAIN bg_jobs \ {fg}) /\ pc = "fgend"
      BY <1>7, <1>e
    <2>2. PICK K : K = DOMAIN bg_jobs \ {fg}
      OBVIOUS
    <2>3. K \in SUBSET DOMAIN bg_jobs /\ bg_jobs' = Keep(K)
      BY <2>1, <2>2
    <2>4. Keep(K) \in Seq(Entries) /\ Len(Keep(K)) <= Len(bg_jobs)
      BY <2>3, <1>t, KeepFacts
    <2>5. ShellTypeOK'
      BY <2>3, <2>4, <1>1
    <2>6. IInv'
      BY <2>3, <2>5, <1>2, <1>3, <1>4, <1>e, Removed
    <2> QED BY <2>1, <2>6, <1>7, <1>4, <1>e, <1>f
  <1> QED BY <1>5, <1>6, <1>7

\* A command gives up its pipe, which the invariant does not look at.
LEMMA ExecsOnly ==
  ASSUME UNCHANGED vars \/ \E k \in Commands : ChildExecs(k)
  PROVE  UNCHANGED shellVars
  BY DEF vars, shellVars, ChildExecs

LEMMA Stutter ==
  ASSUME IInv, UNCHANGED shellVars PROVE IInv'
  <1>1. UNCHANGED <<child, launches, bg_jobs, next_job_num, sigchld_pending, tty, pc, cmd>>
        /\ UNCHANGED <<fg, live, alarm, timeouts, eof_warned>>
    BY DEF shellVars, tableVars, resumeVars
  <1>2. ShellTypeOK' /\ Control' /\ TerminalOwner'
    BY <1>1 DEF IInv, ShellTypeOK, Control, Launching, Resuming, TerminalOwner
  <1>3. Moves
    BY <1>1, MoveNone DEF IInv
  <1>4. (Launching' => Launching) /\ (pc' = "spawn" => pc = "spawn" /\ cmd' = cmd)
    BY <1>1 DEF Launching
  <1>5. UNCHANGED tableVars
    BY <1>1 DEF tableVars
  <1> QED BY <1>1, <1>2, <1>3, <1>4, <1>5, Framed

LEMMA Inductive == IInv /\ [Next]_vars => IInv'
  <1> SUFFICES ASSUME IInv, [Next]_vars PROVE IInv'
    OBVIOUS
  <1>1. CASE MainLoop
    BY <1>1, ReportDoneStep, QuietSteps DEF MainLoop
  <1>2. CASE ExecuteStep
    <2>1. CASE \E helper \in BOOLEAN : Spawn(helper)
      BY <2>1, SpawnStep
    <2>2. CASE SpawnFails \/ AbortEnd \/ LaunchedFg \/ EndFg
      BY <2>2, QuietSteps
    <2>3. CASE LaunchedBg
      BY <2>3, LaunchedBgStep
    <2>4. CASE StopFg
      BY <2>4, StopFgStep
    <2>5. CASE \E k \in Members : AbortReap(k) \/ WaitFg(k)
      <3>1. PICK k \in Members : AbortReap(k) \/ WaitFg(k)
        BY <2>5
      <3>2. launches \in Groups
        BY <3>1, Sizes DEF IInv, Control, Launching, ShellTypeOK, Groups, AbortReap, WaitFg
      <3> QED BY <3>1, <3>2, ChildSteps
    <2> QED BY <1>2, <2>1, <2>2, <2>3, <2>4, <2>5 DEF ExecuteStep
  <1>3. CASE Resume
    BY <1>3, AlarmStep, FgReturnStep, FgWaitStep DEF Resume
  <1>4. CASE User
    <2>1. CASE ReadLine \/ EndOfInput
      BY <2>1, QuietSteps
    <2>2. CASE \E n \in Commands, bg \in BOOLEAN : Execute(n, bg)
      BY <2>2, ExecuteStarts
    <2>3. CASE \E i \in 1 .. MAXJOBS :
                  ResumeBg(i) \/ ResumeGone(i) \/ \E timeout \in BOOLEAN : ResumeFg(i, timeout)
      <3>1. PICK i \in 1 .. MAXJOBS, timeout \in BOOLEAN :
                    ResumeBg(i) \/ ResumeGone(i) \/ ResumeFg(i, timeout)
        BY <2>3
      <3> QED BY <3>1, ResumeStep
    <2>4. CASE InputInterrupted
      BY <2>4, ReportDoneStep
    <2> QED BY <1>4, <2>1, <2>2, <2>3, <2>4 DEF User
  <1>5. CASE Handler
    BY <1>5, SigchldStep DEF Handler
  <1>6. CASE Children
    <2>1. CASE \E k \in Commands : ChildExecs(k)
      BY <2>1, ExecsOnly, Stutter
    <2>2. CASE \E g \in Groups, k \in Members : ChildExits(g, k) \/ ChildStopsOrContinues(g, k)
      BY <2>2, ChildSteps
    <2> QED BY <1>6, <2>1, <2>2 DEF Children
  <1>7. CASE UNCHANGED vars
    BY <1>7, ExecsOnly, Stutter
  <1> QED BY <1>1, <1>2, <1>3, <1>4, <1>5, <1>6, <1>7 DEF Next

-----------------------------------------------------------------------------
(* Without redirection helpers *)

\* A job that is done has no process.
LEMMA DoneHasNone ==
  ASSUME IInv, NEW i \in DOMAIN bg_jobs, AllDone(bg_jobs[i].pids), NEW k \in Commands
  PROVE  ~Exists(child[bg_jobs[i].pid][k])
  <1>1. Lists(bg_jobs[i]) /\ k # 0
    BY Sizes DEF IInv, Commands
  <1> QED BY <1>1 DEF Lists, AllDone

LEMMA ExactInit == Init => Exact
  <1> SUFFICES ASSUME Init PROVE Exact
    OBVIOUS
  <1>1. 0 \in Members
    BY Sizes DEF Members
  <1> QED BY <1>1 DEF Init, Exact

\* Steps that leave the table alone.
LEMMA ExactQuiet ==
  ASSUME IInv, Exact,
         \/ ReadLine \/ EndLine \/ EndOfInput \/ SpawnFails \/ AbortEnd \/ LaunchedFg \/ EndFg
         \/ \E n \in Commands, bg \in BOOLEAN : Execute(n, bg)
  PROVE  Exact'
  <1>1. /\ UNCHANGED <<child, tableVars, resumeVars>> /\ pc # "fgend"
        /\ pc' \in {"line", "top", "exited", "abort", "wait", "spawn"}
    BY DEF ReadLine, EndLine, EndOfInput, SpawnFails, AbortEnd, LaunchedFg, EndFg, Execute
  <1> QED BY <1>1 DEF Exact, tableVars, resumeVars

LEMMA ExactSpawn ==
  ASSUME IInv, Exact, ~WithHelper, NEW helper \in BOOLEAN, Spawn(helper)
  PROVE  Exact'
  <1>1. ~helper /\ pc = "spawn" /\ pc' = pc /\ UNCHANGED <<launches, tableVars, resumeVars>>
    BY DEF Spawn
  <1>2. 0 \in Members
    BY Sizes DEF Members
  <1>3. \A g \in Groups : child'[g][0] = child[g][0]
    BY <1>1, <1>2, SpawnStep
  <1> QED BY <1>1, <1>3 DEF Exact, tableVars, resumeVars

LEMMA ExactChild ==
  ASSUME IInv, Exact, NEW g \in Groups, NEW k \in Members,
         \/ ChildExits(g, k) \/ ChildStopsOrContinues(g, k)
         \/ AbortReap(k) \/ WaitFg(k)
  PROVE  Exact'
  <1>t. ShellTypeOK /\ Control /\ child \in [Groups -> [Members -> ChildStates]]
    BY DEF IInv, ShellTypeOK
  <1>c. UNCHANGED <<launches, tableVars, resumeVars>>
    BY DEF ChildExits, ChildStopsOrContinues, AbortReap, WaitFg
  <1>p. pc' = pc \/ (pc = "wait" /\ pc' \in {"wait", "stop"})
    BY DEF ChildExits, ChildStopsOrContinues, AbortReap, WaitFg
  <1>z. 0 \in Members /\ Commands \subseteq Members /\ \A j \in Members : j # 0 => j \in Commands
    BY Sizes DEF Members, Commands
  <1>l. pc \in {"abort", "wait", "stop"} => launches \in Groups
    BY <1>t, Sizes DEF Control, Launching, ShellTypeOK, Groups
  <1>1. CASE ChildExits(g, k) \/ ChildStopsOrContinues(g, k)
    <2>1. PICK s \in {"zombie", "stopping", "continued"} : Become(g, k, s)
      BY <1>1 DEF ChildExits, ChildStopsOrContinues
    <2>2. child[g][k] \notin {"none", "reaped"}
      BY <1>1 DEF ChildExits, ChildStopsOrContinues, Alive
    <2>3. /\ Moves /\ child'[g][k] = s
          /\ \A h \in Groups, j \in Members : h # g \/ j # k => child'[h][j] = child[h][j]
      BY <2>1, <2>2, <1>t, MoveOne DEF ChildStates
    <2>4. \A h \in Groups : child'[h][0] = "none"
      BY <2>3, <1>z DEF Exact, Moves
    <2>5. pc' = pc
      BY <1>1 DEF ChildExits, ChildStopsOrContinues
    <2>6. pc' = "stop" => Unreaped' # {}
      <3>1. SUFFICES ASSUME pc' = "stop" PROVE \E u \in Commands : u \in Unreaped'
        OBVIOUS
      <3>2. PICK u \in Unreaped : TRUE
        BY <3>1, <2>5 DEF Exact
      <3>3. u \in Commands /\ child[launches][u] \notin {"none", "reaped"}
        BY <3>2 DEF Unreaped, Spawned
      <3>4. child'[launches][u] \notin {"none", "reaped"}
        BY <3>3, <2>3, <1>z, <1>l, <2>5, <3>1
      <3> QED BY <3>3, <3>4, <1>c DEF Unreaped, Spawned
    <2> QED BY <2>4, <2>5, <2>6, <1>c DEF Exact, tableVars, resumeVars
  <1>2. CASE AbortReap(k)
    <2>1. Moves
      BY <1>2, <1>l, <1>t, MoveOne DEF AbortReap, ChildStates
    <2>2. \A h \in Groups : child'[h][0] = "none"
      BY <2>1, <1>z DEF Exact, Moves
    <2>3. pc' = "abort" /\ pc = "abort"
      BY <1>2 DEF AbortReap
    <2> QED BY <2>2, <2>3, <1>c DEF Exact, tableVars, resumeVars
  <1>3. CASE WaitFg(k)
    <2>1. PICK s : s = child[launches][k]
      OBVIOUS
    <2>2. /\ pc = "wait" /\ launches \in Groups /\ s \in {"stopping", "zombie"}
          /\ Become(launches, k, Reported(s)) /\ (pc' = "stop" => s = "stopping")
          /\ pc' \in {"wait", "stop"}
      BY <1>3, <1>l, <2>1 DEF WaitFg, WaitReturns
    <2>3. Reported(s) \in ChildStates \ {"none"} /\ (s = "stopping" => Reported(s) = "stopped")
      BY <2>2 DEF Reported, ChildStates
    <2>4. Moves /\ child'[launches][k] = Reported(s)
      BY <2>1, <2>2, <2>3, <1>t, MoveOne
    <2>5. \A h \in Groups : child'[h][0] = "none"
      BY <2>4, <1>z DEF Exact, Moves
    <2>6. k \in Commands
      BY <2>1, <2>2, <1>z DEF Exact
    <2>7. pc' = "stop" => k \in Unreaped'
      BY <2>2, <2>3, <2>4, <2>6, <1>c DEF Unreaped, Spawned
    <2> QED BY <2>2, <2>5, <2>7, <1>c DEF Exact, tableVars, resumeVars
  <1> QED BY <1>1, <1>2, <1>3

LEMMA ExactAlarm ==
  ASSUME IInv, Exact, Alarm PROVE Exact'
  <1>1. /\ UNCHANGED <<child, launches, tableVars, fg, live, timeouts>>
        /\ alarm = "set" /\ alarm' = "fired" /\ (pc' = pc \/ pc' = "fgend")
        /\ pc \in {"fgwait", "fgstop", "fgend"}
    BY DEF Alarm
  <1>2. timeouts
    BY <1>1 DEF IInv, Control
  <1> QED BY <1>1, <1>2 DEF Exact, tableVars

\* A job is added that has something to wait for.
LEMMA ExactAdd ==
  ASSUME IInv, Exact, LaunchedBg \/ StopFg PROVE Exact'
  <1>1. /\ UNCHANGED <<child, launches, resumeVars>> /\ pc' \in {"line", "top"} /\ Launching
        /\ \A i \in DOMAIN bg_jobs : /\ i \in DOMAIN bg_jobs'
                                     /\ bg_jobs'[i].pids = bg_jobs[i].pids
                                     /\ bg_jobs'[i].is_done = bg_jobs[i].is_done
        /\ \A i \in DOMAIN bg_jobs' \ DOMAIN bg_jobs : ~AllDone(bg_jobs'[i].pids)
    <2>1. CASE LaunchedBg
      BY <2>1, LaunchedBgStep
    <2>2. CASE StopFg
      <3>1. Unreaped # {}
        BY <2>2 DEF Exact, StopFg
      <3> QED BY <2>2, <3>1, StopFgStep
    <2> QED BY <2>1, <2>2
  <1>2. ASSUME ~timeouts', NEW i \in DOMAIN bg_jobs', AllDone(bg_jobs'[i].pids)
        PROVE  bg_jobs'[i].is_done
    <2>1. i \in DOMAIN bg_jobs
      BY <1>1, <1>2
    <2>2. AllDone(bg_jobs[i].pids) /\ ~timeouts /\ pc # "fgend"
      BY <2>1, <1>1, <1>2 DEF resumeVars, Launching
    <2> QED BY <2>1, <2>2, <1>1 DEF Exact
  <1> QED BY <1>1, <1>2 DEF Exact

\* Entries are removed, none of which was waited for.
LEMMA ExactRemove ==
  ASSUME IInv, Exact, UNCHANGED <<child, launches, timeouts>>, pc' \in {"line", "prompt", "top"},
         NEW K \in SUBSET DOMAIN bg_jobs, bg_jobs' = Keep(K), pc = "fgend" => fg \notin K
  PROVE  Exact'
  <1>1. bg_jobs \in Seq(Entries)
    BY DEF IInv, ShellTypeOK
  <1>2. \A n \in DOMAIN Keep(K) : Ordered(K)[n] \in K /\ Keep(K)[n] = bg_jobs[Ordered(K)[n]]
    BY <1>1, KeepFacts
  <1>3. ASSUME ~timeouts', NEW n \in DOMAIN bg_jobs', AllDone(bg_jobs'[n].pids)
        PROVE  bg_jobs'[n].is_done
    <2>1. PICK i : i = Ordered(K)[n]
      OBVIOUS
    <2>2. i \in K /\ bg_jobs'[n] = bg_jobs[i]
      BY <2>1, <1>2
    <2> QED BY <2>2, <1>3 DEF Exact
  <1> QED BY <1>3 DEF Exact

LEMMA ExactReport ==
  ASSUME IInv, Exact, ReportDone \/ InputInterrupted PROVE Exact'
  <1>1. /\ UNCHANGED <<child, launches, resumeVars>>
        /\ pc \in {"top", "prompt"} /\ pc' \in {"top", "prompt"}
        /\ bg_jobs' = IF sigchld_pending THEN Keep({i \in DOMAIN bg_jobs : ~bg_jobs[i].is_done})
                      ELSE bg_jobs
    BY DEF ReportDone, InputInterrupted, PrcsCmpltJob
  <1>2. CASE sigchld_pending
    <2>1. PICK K : K = {i \in DOMAIN bg_jobs : ~bg_jobs[i].is_done}
      OBVIOUS
    <2>2. K \in SUBSET DOMAIN bg_jobs /\ bg_jobs' = Keep(K) /\ timeouts' = timeouts
      BY <2>1, <1>1, <1>2 DEF resumeVars
    <2> QED BY <2>2, <1>1, ExactRemove
  <1>3. CASE ~sigchld_pending
    BY <1>1, <1>3 DEF Exact, resumeVars
  <1> QED BY <1>2, <1>3

LEMMA ExactSigchld ==
  ASSUME IInv, Exact, NEW g \in Groups, NEW k \in Members, Sigchld(g, k)
  PROVE  Exact'
  <1>1. /\ Moves /\ UNCHANGED <<launches, pc, resumeVars>>
        /\ DOMAIN bg_jobs' = DOMAIN bg_jobs
        /\ \A i \in DOMAIN bg_jobs :
              /\ bg_jobs[i].is_done => bg_jobs'[i].is_done
              /\ bg_jobs'[i].pids # bg_jobs[i].pids /\ AllDone(bg_jobs'[i].pids) => bg_jobs'[i].is_done
    BY SigchldStep
  <1>2. pc \in {"top", "prompt", "line"}
    BY DEF Sigchld, Unblocked
  <1>3. ASSUME ~timeouts', NEW i \in DOMAIN bg_jobs', AllDone(bg_jobs'[i].pids)
        PROVE  bg_jobs'[i].is_done
    <2>1. CASE bg_jobs'[i].pids # bg_jobs[i].pids
      BY <2>1, <1>1, <1>3
    <2>2. CASE bg_jobs'[i].pids = bg_jobs[i].pids
      <3>1. bg_jobs[i].is_done
        BY <2>2, <1>1, <1>2, <1>3 DEF Exact, resumeVars
      <3> QED BY <3>1, <1>1
    <2> QED BY <2>1, <2>2
  <1>4. \A h \in Groups : child'[h][0] = "none"
    <2>1. 0 \in Members
      BY Sizes DEF Members
    <2> QED BY <2>1, <1>1 DEF Exact, Moves
  <1> QED BY <1>1, <1>2, <1>3, <1>4 DEF Exact

LEMMA ExactResume ==
  ASSUME IInv, Exact, NEW i \in 1 .. MAXJOBS, NEW timeout \in BOOLEAN,
         ResumeBg(i) \/ ResumeGone(i) \/ ResumeFg(i, timeout)
  PROVE  Exact'
  <1>1. /\ Moves /\ launches' = launches /\ timeouts' = timeouts
        /\ i \in DOMAIN bg_jobs /\ ~bg_jobs[i].is_done /\ DOMAIN bg_jobs' = DOMAIN bg_jobs
        /\ \A j \in DOMAIN bg_jobs : /\ bg_jobs'[j].pids = bg_jobs[j].pids
                                     /\ bg_jobs'[j].is_done = bg_jobs[j].is_done
        /\ pc = "line" /\ (pc' # "line" => fg' = i /\ live' = Live(bg_jobs[i]))
        /\ pc' \in {"line", "fgwait", "fgend"}
        /\ pc' = "fgend" => Live(bg_jobs[i]) = 0
    BY ResumeStep
  <1>2. bg_jobs[i] \in Entries
    BY <1>1 DEF IInv, ShellTypeOK
  <1>3. Live(bg_jobs[i]) = 0 => AllDone(bg_jobs[i].pids)
    BY <1>2, LiveFacts
  <1>4. \A h \in Groups : child'[h][0] = "none"
    <2>1. 0 \in Members
      BY Sizes DEF Members
    <2> QED BY <2>1, <1>1 DEF Exact, Moves
  <1>5. pc' = "fgwait" => live' = Live(bg_jobs'[fg'])
    BY <1>1 DEF Live
  <1>6. pc' = "fgend" => AllDone(bg_jobs'[fg'].pids)
    BY <1>1, <1>3
  <1>7. ASSUME ~timeouts', NEW j \in DOMAIN bg_jobs', AllDone(bg_jobs'[j].pids)
        PROVE  bg_jobs'[j].is_done
    BY <1>1, <1>7 DEF Exact
  <1>8. (Live(bg_jobs[fg]))' = Live(bg_jobs'[fg'])
    BY DEF Live
  <1> QED BY <1>1, <1>4, <1>5, <1>6, <1>7, <1>8 DEF Exact

LEMMA ExactFgWait ==
  ASSUME IInv, Exact, NEW k \in Members, FgWait(k)
  PROVE  Exact'
  <1>1. /\ IInv'
        /\ Moves /\ launches' = launches /\ timeouts' = timeouts /\ alarm' = alarm /\ fg' = fg
        /\ pc = "fgwait" /\ DOMAIN bg_jobs' = DOMAIN bg_jobs /\ fg \in DOMAIN bg_jobs
        /\ Exists(child[bg_jobs[fg].pid][k])
        /\ \A j \in DOMAIN bg_jobs : /\ bg_jobs'[j].pid = bg_jobs[j].pid
                                     /\ bg_jobs'[j].is_done = bg_jobs[j].is_done
                                     /\ j # fg => bg_jobs'[j] = bg_jobs[j]
        /\ \/ pc' = "fgstop" /\ live' = live /\ bg_jobs'[fg].pids = bg_jobs[fg].pids
           \/ /\ live' = live - 1 /\ pc' = IF live = 1 THEN "fgend" ELSE "fgwait"
              /\ bg_jobs'[fg].pids = Forget(bg_jobs[fg].pids, k)
    BY FgWaitStep
  <1>2. PICK e : e = bg_jobs[fg]
    OBVIOUS
  <1>3. PICK d : d = bg_jobs'[fg]
    OBVIOUS
  <1>4. e \in Entries /\ Lists(e) /\ d \in Entries
    BY <1>1, <1>2, <1>3 DEF IInv, ShellTypeOK
  <1>5. live = Live(e) /\ live \in Nat /\ live > 0
    BY <1>1, <1>2, Sizes DEF Exact, IInv, ShellTypeOK, Control
  <1>6. k # 0 /\ k \in Commands
    <2>1. child[e.pid][0] = "none"
      BY <1>4 DEF Exact, Entries
    <2>2. k # 0
      BY <2>1, <1>1, <1>2 DEF Exists, Alive
    <2> QED BY <2>2, Sizes DEF Members, Commands
  <1>7. CASE pc' = "fgstop"
    <2>1. d.pids = e.pids
      BY <1>7, <1>1, <1>2, <1>3
    <2>2. ASSUME ~timeouts', NEW j \in DOMAIN bg_jobs', AllDone(bg_jobs'[j].pids)
          PROVE  bg_jobs'[j].is_done
      BY <2>1, <2>2, <1>1, <1>2, <1>3 DEF Exact
    <2>3. \A h \in Groups : child'[h][0] = "none"
      <3>1. 0 \in Members
        BY Sizes DEF Members
      <3> QED BY <3>1, <1>1 DEF Exact, Moves
    <2> QED BY <2>2, <2>3, <1>7 DEF Exact
  <1>8. CASE pc' # "fgstop"
    <2>1. /\ live' = live - 1 /\ pc' = IF live = 1 THEN "fgend" ELSE "fgwait"
          /\ d.pids = Forget(e.pids, k)
      BY <1>8, <1>1, <1>2, <1>3
    <2>2. PICK a \in DOMAIN e.pids : e.pids[a] = k
      BY <1>1, <1>2, <1>4, <1>6 DEF Lists
    <2>3. \A a1, b1 \in DOMAIN e.pids : e.pids[a1] = e.pids[b1] => a1 = b1 \/ e.pids[a1] = 0
      BY <1>4 DEF Lists
    <2>4. Live(d) = Live(e) - 1
      BY <2>1, <2>2, <2>3, <1>4, <1>6, LiveForget
    <2>5. Live(d) = live'
      BY <2>1, <2>4, <1>5
    <2>6. AllDone(d.pids) <=> Live(d) = 0
      BY <1>4, LiveFacts
    <2>7. pc' = "fgend" => AllDone(bg_jobs'[fg'].pids)
      BY <2>1, <2>5, <2>6, <1>1, <1>3, <1>5
    <2>8. ASSUME ~timeouts', NEW j \in DOMAIN bg_jobs', AllDone(bg_jobs'[j].pids)
          PROVE  bg_jobs'[j].is_done \/ (pc' = "fgend" /\ j = fg')
      <3>1. CASE j # fg
        BY <3>1, <2>8, <1>1 DEF Exact
      <3>2. CASE j = fg
        BY <3>2, <2>1, <2>5, <2>6, <2>8, <1>1, <1>3, <1>5
      <3> QED BY <3>1, <3>2
    <2>9. \A h \in Groups : child'[h][0] = "none"
      <3>1. 0 \in Members
        BY Sizes DEF Members
      <3> QED BY <3>1, <1>1 DEF Exact, Moves
    <2>10. (Live(bg_jobs[fg]))' = Live(d) /\ pc' # "stop"
      BY <2>1, <1>1, <1>3 DEF Live
    <2> QED BY <2>5, <2>7, <2>8, <2>9, <2>10 DEF Exact
  <1> QED BY <1>7, <1>8

LEMMA ExactReturn ==
  ASSUME IInv, Exact, FgReturn PROVE Exact'
  <1>1. /\ UNCHANGED <<child, launches, timeouts>> /\ pc' = "line"
        /\ \/ /\ alarm = "fired" \/ pc = "fgstop"
              /\ DOMAIN bg_jobs' = DOMAIN bg_jobs
              /\ \A j \in DOMAIN bg_jobs : /\ bg_jobs'[j].pid = bg_jobs[j].pid
                                           /\ bg_jobs'[j].pids = bg_jobs[j].pids
                                           /\ bg_jobs'[j].is_done = bg_jobs[j].is_done
           \/ /\ alarm # "fired" /\ pc = "fgend"
              /\ bg_jobs' = Keep(DOMAIN bg_jobs \ {fg})
    BY FgReturnStep
  <1>2. CASE bg_jobs' = Keep(DOMAIN bg_jobs \ {fg})
    <2>1. PICK K : K = DOMAIN bg_jobs \ {fg}
      OBVIOUS
    <2>2. K \in SUBSET DOMAIN bg_jobs /\ bg_jobs' = Keep(K) /\ fg \notin K
      BY <2>1, <1>2
    <2> QED BY <2>2, <1>1, ExactRemove
  <1>3. CASE /\ alarm = "fired" \/ pc = "fgstop"
             /\ DOMAIN bg_jobs' = DOMAIN bg_jobs
             /\ \A j \in DOMAIN bg_jobs : /\ bg_jobs'[j].pids = bg_jobs[j].pids
                                          /\ bg_jobs'[j].is_done = bg_jobs[j].is_done
    <2>1. ~timeouts => pc # "fgend"
      BY <1>3 DEF IInv, Control
    <2> QED BY <2>1, <1>1, <1>3 DEF Exact
  <1> QED BY <1>1, <1>2, <1>3

LEMMA ExactStutter ==
  ASSUME Exact, UNCHANGED shellVars PROVE Exact'
  <1>1. UNCHANGED <<child, launches, bg_jobs, pc, fg, live, alarm, timeouts>>
    BY DEF shellVars, tableVars, resumeVars
  <1> QED BY <1>1 DEF Exact, Unreaped, Spawned, Live

LEMMA ExactInductive ==
  ASSUME ~WithHelper, IInv, Exact, [Next]_vars PROVE Exact'
  <1>1. CASE MainLoop
    BY <1>1, ExactReport, ExactQuiet DEF MainLoop
  <1>2. CASE ExecuteStep
    <2>1. CASE \E helper \in BOOLEAN : Spawn(helper)
      BY <2>1, ExactSpawn
    <2>2. CASE SpawnFails \/ AbortEnd \/ LaunchedFg \/ EndFg
      BY <2>2, ExactQuiet
    <2>3. CASE LaunchedBg \/ StopFg
      BY <2>3, ExactAdd
    <2>4. CASE \E k \in Members : AbortReap(k) \/ WaitFg(k)
      <3>1. PICK k \in Members : AbortReap(k) \/ WaitFg(k)
        BY <2>4
      <3>2. launches \in Groups
        BY <3>1, Sizes DEF IInv, Control, Launching, ShellTypeOK, Groups, AbortReap, WaitFg
      <3> QED BY <3>1, <3>2, ExactChild
    <2> QED BY <1>2, <2>1, <2>2, <2>3, <2>4 DEF ExecuteStep
  <1>3. CASE Resume
    BY <1>3, ExactAlarm, ExactReturn, ExactFgWait DEF Resume
  <1>4. CASE User
    <2>1. CASE ReadLine \/ EndOfInput \/ \E n \in Commands, bg \in BOOLEAN : Execute(n, bg)
      BY <2>1, ExactQuiet
    <2>2. CASE \E i \in 1 .. MAXJOBS :
                  ResumeBg(i) \/ ResumeGone(i) \/ \E timeout \in BOOLEAN : ResumeFg(i, timeout)
      <3>1. PICK i \in 1 .. MAXJOBS, timeout \in BOOLEAN :
                    ResumeBg(i) \/ ResumeGone(i) \/ ResumeFg(i, timeout)
        BY <2>2
      <3> QED BY <3>1, ExactResume
    <2>3. CASE InputInterrupted
      BY <2>3, ExactReport
    <2> QED BY <1>4, <2>1, <2>2, <2>3 DEF User
  <1>5. CASE Handler
    BY <1>5, ExactSigchld DEF Handler
  <1>6. CASE Children
    <2>1. CASE \E k \in Commands : ChildExecs(k)
      BY <2>1, ExecsOnly, ExactStutter
    <2>2. CASE \E g \in Groups, k \in Members : ChildExits(g, k) \/ ChildStopsOrContinues(g, k)
      BY <2>2, ExactChild
    <2> QED BY <1>6, <2>1, <2>2 DEF Children
  <1>7. CASE UNCHANGED vars
    BY <1>7, ExecsOnly, ExactStutter
  <1> QED BY <1>1, <1>2, <1>3, <1>4, <1>5, <1>6, <1>7 DEF Next

-----------------------------------------------------------------------------
(* In a table with an entry for each launch nothing that lives is lost *)

LEMMA CoveredInit == Init => Covered
  <1> SUFFICES ASSUME Init, NEW g \in Groups, NEW k \in Commands PROVE ~Exists(child[g][k])
    BY DEF Covered
  <1>1. k \in Members
    BY Sizes DEF Commands, Members
  <1>2. child[g][k] = "none"
    BY <1>1 DEF Init
  <1> QED BY <1>2 DEF Exists, Alive

\* Nothing comes to be, and no entry and no launch ends.
LEMMA CoveredKeeps ==
  ASSUME Covered, Moves, launches' = launches, Launching => Launching',
         \A i \in DOMAIN bg_jobs : i \in DOMAIN bg_jobs' /\ bg_jobs'[i].pid = bg_jobs[i].pid
  PROVE  Covered'
  <1> SUFFICES ASSUME NEW g \in Groups, NEW k \in Commands, Exists(child'[g][k])
               PROVE  \/ Launching' /\ g = launches'
                      \/ \E i \in DOMAIN bg_jobs' : bg_jobs'[i].pid = g
    BY DEF Covered
  <1>1. k \in Members
    BY Sizes DEF Commands, Members
  <1>2. Exists(child[g][k])
    BY <1>1 DEF Moves
  <1>3. CASE Launching /\ g = launches
    BY <1>3
  <1>4. CASE \E i \in DOMAIN bg_jobs : bg_jobs[i].pid = g
    BY <1>4
  <1> QED BY <1>2, <1>3, <1>4 DEF Covered

\* A launch ends with its processes or in the table.
LEMMA CoveredEnds ==
  ASSUME Covered, UNCHANGED <<child, launches>>,
         \A i \in DOMAIN bg_jobs : i \in DOMAIN bg_jobs' /\ bg_jobs'[i].pid = bg_jobs[i].pid,
         ~GroupExists(launches) \/ \E i \in DOMAIN bg_jobs' : bg_jobs'[i].pid = launches
  PROVE  Covered'
  <1> SUFFICES ASSUME NEW g \in Groups, NEW k \in Commands, Exists(child[g][k])
               PROVE  \E i \in DOMAIN bg_jobs' : bg_jobs'[i].pid = g
    BY DEF Covered
  <1>1. k \in Members
    BY Sizes DEF Commands, Members
  <1>2. CASE g = launches
    BY <1>1, <1>2 DEF GroupExists
  <1>3. CASE \E i \in DOMAIN bg_jobs : bg_jobs[i].pid = g
    BY <1>3
  <1> QED BY <1>2, <1>3 DEF Covered

LEMMA CoveredQuiet ==
  ASSUME IInv, Covered,
         \/ ReadLine \/ EndLine \/ EndOfInput \/ SpawnFails \/ AbortEnd \/ LaunchedFg \/ EndFg
         \/ \E n \in Commands, bg \in BOOLEAN : Execute(n, bg)
  PROVE  Covered'
  <1>t. ShellTypeOK
    BY DEF IInv
  <1>1. UNCHANGED <<child, tableVars>>
    BY DEF ReadLine, EndLine, EndOfInput, SpawnFails, AbortEnd, LaunchedFg, EndFg, Execute
  <1>2. Moves
    BY <1>t, <1>1, MoveNone
  <1>3. \A i \in DOMAIN bg_jobs : i \in DOMAIN bg_jobs' /\ bg_jobs'[i].pid = bg_jobs[i].pid
    BY <1>1 DEF tableVars
  <1>4. CASE ReadLine \/ EndLine \/ EndOfInput \/ SpawnFails \/ LaunchedFg
    <2>1. launches' = launches /\ (Launching => Launching')
      BY <1>4 DEF ReadLine, EndLine, EndOfInput, SpawnFails, LaunchedFg, Launching
    <2> QED BY <2>1, <1>2, <1>3, CoveredKeeps
  <1>5. CASE AbortEnd \/ EndFg
    <2>1. launches' = launches /\ ~GroupExists(launches)
      BY <1>5 DEF AbortEnd, EndFg
    <2> QED BY <2>1, <1>1, <1>3, CoveredEnds
  <1>6. CASE \E n \in Commands, bg \in BOOLEAN : Execute(n, bg)
    <2>1. ~Launching
      BY <1>6 DEF Execute, Launching
    <2> QED BY <2>1, <1>1 DEF Covered, tableVars
  <1> QED BY <1>4, <1>5, <1>6

LEMMA CoveredSpawn ==
  ASSUME IInv, Covered, NEW helper \in BOOLEAN, Spawn(helper)
  PROVE  Covered'
  <1>1. pc = "spawn" /\ pc' = pc /\ UNCHANGED <<launches, tableVars>>
    BY DEF Spawn
  <1>2. \A g \in Groups, k \in Members : g # launches => child'[g][k] = child[g][k]
    BY SpawnStep
  <1>3. Commands \subseteq Members
    BY Sizes DEF Commands, Members
  <1> QED BY <1>1, <1>2, <1>3 DEF Covered, tableVars, Launching

LEMMA CoveredChild ==
  ASSUME IInv, Covered, NEW g \in Groups, NEW k \in Members,
         \/ ChildExits(g, k) \/ ChildStopsOrContinues(g, k)
         \/ AbortReap(k) \/ WaitFg(k)
  PROVE  Covered'
  <1>t. ShellTypeOK /\ Control /\ child \in [Groups -> [Members -> ChildStates]]
    BY DEF IInv, ShellTypeOK
  <1>1. UNCHANGED <<launches, tableVars>> /\ (Launching => Launching')
    BY DEF ChildExits, ChildStopsOrContinues, AbortReap, WaitFg, Launching
  <1>2. Moves
    <2>1. CASE ChildExits(g, k) \/ ChildStopsOrContinues(g, k)
      <3>1. PICK s \in {"zombie", "stopping", "continued"} : Become(g, k, s)
        BY <2>1 DEF ChildExits, ChildStopsOrContinues
      <3>2. child[g][k] \notin {"none", "reaped"}
        BY <2>1 DEF ChildExits, ChildStopsOrContinues, Alive
      <3> QED BY <3>1, <3>2, <1>t, MoveOne DEF ChildStates
    <2>2. CASE AbortReap(k) \/ WaitFg(k)
      <3>1. launches \in Groups
        BY <2>2, <1>t, Sizes DEF AbortReap, WaitFg, Control, Launching, ShellTypeOK, Groups
      <3>2. PICK s : s = child[launches][k]
        OBVIOUS
      <3>3. s \in {"stopping", "zombie"} /\ \/ Become(launches, k, "reaped")
                                            \/ Become(launches, k, Reported(s))
        BY <2>2, <3>2 DEF AbortReap, WaitFg, WaitReturns
      <3>4. Reported(s) \in ChildStates \ {"none"} /\ "reaped" \in ChildStates \ {"none"}
        BY <3>3 DEF Reported, ChildStates
      <3> QED BY <3>1, <3>2, <3>3, <3>4, <1>t, MoveOne
    <2> QED BY <2>1, <2>2
  <1>3. \A i \in DOMAIN bg_jobs : i \in DOMAIN bg_jobs' /\ bg_jobs'[i].pid = bg_jobs[i].pid
    BY <1>1 DEF tableVars
  <1> QED BY <1>1, <1>2, <1>3, CoveredKeeps

\* There is room for the pipeline that was launched last.
LEMMA CoveredAdd ==
  ASSUME MaxLaunches <= MAXJOBS, IInv, Covered, LaunchedBg \/ StopFg PROVE Covered'
  <1>1. /\ Launching /\ UNCHANGED <<child, launches>>
        /\ \A i \in DOMAIN bg_jobs : i \in DOMAIN bg_jobs' /\ bg_jobs'[i].pid = bg_jobs[i].pid
        /\ Len(bg_jobs) < MAXJOBS => \E i \in DOMAIN bg_jobs' : bg_jobs'[i].pid = launches
    BY LaunchedBgStep, StopFgStep
  <1>2. Len(bg_jobs) < launches /\ launches <= MaxLaunches /\ launches \in Nat /\ Len(bg_jobs) \in Nat
    BY <1>1, Sizes DEF IInv, Numbers, ShellTypeOK
  <1>3. Len(bg_jobs) < MAXJOBS
    BY <1>2, Sizes
  <1> QED BY <1>1, <1>3, CoveredEnds

\* The entries that are removed are those of jobs that have ended.
LEMMA CoveredRemove ==
  ASSUME IInv, Covered, UNCHANGED <<child, launches>>, ~Launching,
         NEW K \in SUBSET DOMAIN bg_jobs, bg_jobs' = Keep(K),
         \A i \in DOMAIN bg_jobs \ K : AllDone(bg_jobs[i].pids)
  PROVE  Covered'
  <1>1. bg_jobs \in Seq(Entries)
    BY DEF IInv, ShellTypeOK
  <1>2. \A i \in K : \E n \in DOMAIN Keep(K) : Keep(K)[n] = bg_jobs[i]
    BY <1>1, KeepFacts
  <1> SUFFICES ASSUME NEW g \in Groups, NEW k \in Commands, Exists(child[g][k])
               PROVE  \E n \in DOMAIN bg_jobs' : bg_jobs'[n].pid = g
    BY DEF Covered
  <1>3. PICK i \in DOMAIN bg_jobs : bg_jobs[i].pid = g
    BY DEF Covered
  <1>4. i \in K
    BY <1>3, DoneHasNone
  <1> QED BY <1>2, <1>3, <1>4

LEMMA CoveredStutter ==
  ASSUME Covered, UNCHANGED shellVars PROVE Covered'
  <1>1. UNCHANGED <<child, launches, bg_jobs, pc>>
    BY DEF shellVars, tableVars
  <1> QED BY <1>1 DEF Covered, Launching

LEMMA CoveredInductive ==
  ASSUME ~WithHelper, MaxLaunches <= MAXJOBS, IInv, Exact, Covered, [Next]_vars
  PROVE  Covered'
  <1>t. ShellTypeOK
    BY DEF IInv
  <1>r. CASE ReportDone \/ InputInterrupted
    <2>1. /\ UNCHANGED <<child, launches>> /\ ~Launching
          /\ bg_jobs' = IF sigchld_pending THEN Keep({i \in DOMAIN bg_jobs : ~bg_jobs[i].is_done})
                        ELSE bg_jobs
      BY <1>r DEF ReportDone, InputInterrupted, PrcsCmpltJob, Launching
    <2>2. CASE sigchld_pending
      <3>1. PICK K : K = {i \in DOMAIN bg_jobs : ~bg_jobs[i].is_done}
        OBVIOUS
      <3>2. K \in SUBSET DOMAIN bg_jobs /\ bg_jobs' = Keep(K)
        BY <3>1, <2>1, <2>2
      <3>3. \A i \in DOMAIN bg_jobs \ K : AllDone(bg_jobs[i].pids)
        BY <3>1 DEF IInv, Lists
      <3> QED BY <3>2, <3>3, <2>1, CoveredRemove
    <2>3. CASE ~sigchld_pending
      BY <2>1, <2>3, <1>t, MoveNone, CoveredKeeps
    <2> QED BY <2>2, <2>3
  <1>f. CASE FgReturn
    <2>1. /\ UNCHANGED <<child, launches>> /\ ~Launching /\ fg \in DOMAIN bg_jobs
          /\ \/ /\ DOMAIN bg_jobs' = DOMAIN bg_jobs
                /\ \A j \in DOMAIN bg_jobs : bg_jobs'[j].pid = bg_jobs[j].pid
             \/ /\ alarm # "fired" /\ pc = "fgend"
                /\ bg_jobs' = Keep(DOMAIN bg_jobs \ {fg})
      BY <1>f, FgReturnStep
    <2>2. CASE /\ DOMAIN bg_jobs' = DOMAIN bg_jobs
               /\ \A j \in DOMAIN bg_jobs : bg_jobs'[j].pid = bg_jobs[j].pid
      BY <2>1, <2>2, <1>t, MoveNone, CoveredKeeps
    <2>3. CASE /\ alarm # "fired" /\ pc = "fgend"
               /\ bg_jobs' = Keep(DOMAIN bg_jobs \ {fg})
      <3>1. PICK K : K = DOMAIN bg_jobs \ {fg}
        OBVIOUS
      <3>2. K \in SUBSET DOMAIN bg_jobs /\ bg_jobs' = Keep(K)
        BY <3>1, <2>3
      <3>3. \A i \in DOMAIN bg_jobs \ K : AllDone(bg_jobs[i].pids)
        BY <3>1, <2>3 DEF Exact
      <3> QED BY <3>2, <3>3, <2>1, CoveredRemove
    <2> QED BY <2>1, <2>2, <2>3
  <1>1. CASE MainLoop
    BY <1>1, <1>r, CoveredQuiet DEF MainLoop
  <1>2. CASE ExecuteStep
    <2>1. CASE \E helper \in BOOLEAN : Spawn(helper)
      BY <2>1, CoveredSpawn
    <2>2. CASE SpawnFails \/ AbortEnd \/ LaunchedFg \/ EndFg
      BY <2>2, CoveredQuiet
    <2>3. CASE LaunchedBg \/ StopFg
      BY <2>3, CoveredAdd
    <2>4. CASE \E k \in Members : AbortReap(k) \/ WaitFg(k)
      <3>1. PICK k \in Members : AbortReap(k) \/ WaitFg(k)
        BY <2>4
      <3>2. launches \in Groups
        BY <3>1, Sizes DEF IInv, Control, Launching, ShellTypeOK, Groups, AbortReap, WaitFg
      <3> QED BY <3>1, <3>2, CoveredChild
    <2> QED BY <1>2, <2>1, <2>2, <2>3, <2>4 DEF ExecuteStep
  <1>3. CASE Resume
    <2>1. CASE Alarm
      <3>1. UNCHANGED <<child, launches, tableVars>> /\ ~Launching
        BY <2>1 DEF Alarm, Launching
      <3>2. \A i \in DOMAIN bg_jobs : i \in DOMAIN bg_jobs' /\ bg_jobs'[i].pid = bg_jobs[i].pid
        BY <3>1 DEF tableVars
      <3> QED BY <3>1, <3>2, <1>t, MoveNone, CoveredKeeps
    <2>2. CASE \E k \in Members : FgWait(k)
      <3>1. PICK k \in Members : FgWait(k)
        BY <2>2
      <3>2. /\ Moves /\ launches' = launches /\ ~Launching
            /\ DOMAIN bg_jobs' = DOMAIN bg_jobs
            /\ \A j \in DOMAIN bg_jobs : bg_jobs'[j].pid = bg_jobs[j].pid
        BY <3>1, FgWaitStep DEF Launching
      <3> QED BY <3>2, CoveredKeeps
    <2> QED BY <1>3, <1>f, <2>1, <2>2 DEF Resume
  <1>4. CASE User
    <2>1. CASE ReadLine \/ EndOfInput \/ \E n \in Commands, bg \in BOOLEAN : Execute(n, bg)
      BY <2>1, CoveredQuiet
    <2>2. CASE \E i \in 1 .. MAXJOBS :
                  ResumeBg(i) \/ ResumeGone(i) \/ \E timeout \in BOOLEAN : ResumeFg(i, timeout)
      <3>1. PICK i \in 1 .. MAXJOBS, timeout \in BOOLEAN :
                    ResumeBg(i) \/ ResumeGone(i) \/ ResumeFg(i, timeout)
        BY <2>2
      <3>2. /\ Moves /\ launches' = launches /\ ~Launching
            /\ DOMAIN bg_jobs' = DOMAIN bg_jobs
            /\ \A j \in DOMAIN bg_jobs : bg_jobs'[j].pid = bg_jobs[j].pid
        BY <3>1, ResumeStep DEF Launching
      <3> QED BY <3>2, CoveredKeeps
    <2> QED BY <1>4, <1>r, <2>1, <2>2 DEF User
  <1>5. CASE Handler
    <2>1. PICK g \in Groups, k \in Members : Sigchld(g, k)
      BY <1>5 DEF Handler
    <2>2. /\ Moves /\ UNCHANGED <<launches, pc>>
          /\ DOMAIN bg_jobs' = DOMAIN bg_jobs
          /\ \A i \in DOMAIN bg_jobs : bg_jobs'[i].pid = bg_jobs[i].pid
      BY <2>1, SigchldStep
    <2> QED BY <2>2, CoveredKeeps DEF Launching
  <1>6. CASE Children
    <2>1. CASE \E k \in Commands : ChildExecs(k)
      BY <2>1, ExecsOnly, CoveredStutter
    <2>2. CASE \E g \in Groups, k \in Members : ChildExits(g, k) \/ ChildStopsOrContinues(g, k)
      BY <2>2, CoveredChild
    <2> QED BY <1>6, <2>1, <2>2 DEF Children
  <1>7. CASE UNCHANGED vars
    BY <1>7, ExecsOnly, CoveredStutter
  <1> QED BY <1>1, <1>2, <1>3, <1>4, <1>5, <1>6, <1>7 DEF Next

\* The commands that hold a pipe are commands of the pipeline.
LEMMA LoadingType ==
  ASSUME IInv, loading \subseteq Commands, [Next]_vars
  PROVE  (loading \subseteq Commands)'
  <1>1. CASE ExecuteStep
    <2>1. CASE \E helper \in BOOLEAN : Spawn(helper)
      <3>1. PICK n \in 0 .. cmd.length : Spawned = 1 .. n
        BY <2>1 DEF IInv, Spawning, Spawn
      <3>2. Cardinality(Spawned) = n /\ n \in Nat /\ cmd.length \in Nat /\ cmd.length <= MaxCmds
        BY <3>1, FS_Interval, Sizes DEF IInv, ShellTypeOK
      <3>3. n < cmd.length /\ loading' \subseteq loading \cup {n + 1}
        BY <2>1, <3>2 DEF Spawn
      <3>4. n + 1 \in Commands
        BY <3>2, <3>3, Sizes DEF Commands
      <3> QED BY <3>3, <3>4
    <2>2. CASE ~\E helper \in BOOLEAN : Spawn(helper)
      BY <1>1, <2>2 DEF ExecuteStep, SpawnFails, AbortEnd, LaunchedBg, LaunchedFg, EndFg, StopFg,
         AbortReap, WaitFg
    <2> QED BY <2>1, <2>2
  <1>2. CASE MainLoop \/ Resume
    BY <1>2 DEF MainLoop, ReportDone, EndLine, Resume, Alarm, FgReturn, FgWait
  <1>3. CASE User
    BY <1>3 DEF User, ReadLine, EndOfInput, InputInterrupted, Execute, ResumeBg, ResumeGone,
       ResumeFg
  <1>4. CASE Handler
    BY <1>4 DEF Handler, Sigchld
  <1>5. CASE Children
    BY <1>5 DEF Children, ChildExits, ChildStopsOrContinues, ChildExecs
  <1>6. CASE UNCHANGED vars
    BY <1>6 DEF vars
  <1> QED BY <1>1, <1>2, <1>3, <1>4, <1>5, <1>6 DEF Next

-----------------------------------------------------------------------------
(* Reports *)

\* No job becomes done where the handler does not see it.
NoNewDone == \A i \in DOMAIN bg_jobs' : bg_jobs'[i].is_done =>
    \E j \in DOMAIN bg_jobs : bg_jobs[j].is_done

LEMMA KeepDone ==
  ASSUME bg_jobs \in Seq(Entries), NEW K \in SUBSET DOMAIN bg_jobs, bg_jobs' = Keep(K)
  PROVE  \A i \in DOMAIN bg_jobs' : \E j \in K : bg_jobs'[i] = bg_jobs[j]
  <1>1. \A n \in DOMAIN Keep(K) : Ordered(K)[n] \in K /\ Keep(K)[n] = bg_jobs[Ordered(K)[n]]
    BY KeepFacts
  <1> QED BY <1>1

LEMMA EditDone ==
  ASSUME bg_jobs \in Seq(Entries), NEW m, NEW s,
         \/ bg_jobs' = [bg_jobs EXCEPT ![m].state = s]
         \/ bg_jobs' = [bg_jobs EXCEPT ![m].pids = s]
  PROVE  NoNewDone
  <1> SUFFICES ASSUME NEW i \in DOMAIN bg_jobs', bg_jobs'[i].is_done
               PROVE  i \in DOMAIN bg_jobs /\ bg_jobs[i].is_done
    BY DEF NoNewDone
  <1>1. i \in DOMAIN bg_jobs
    OBVIOUS
  <1>2. PICK e : e = bg_jobs[i]
    OBVIOUS
  <1>3. e \in Entries
    BY <1>1, <1>2
  <1>4. PICK d : d = bg_jobs'[i]
    OBVIOUS
  <1>5. d = e \/ d = [e EXCEPT !.state = s] \/ d = [e EXCEPT !.pids = s]
    BY <1>1, <1>2, <1>4
  <1>6. d.is_done = e.is_done
    BY <1>3, <1>5 DEF Entries
  <1> QED BY <1>1, <1>2, <1>4, <1>6

LEMMA AddDone ==
  ASSUME IInv, NEW pids, NEW added, added = AddJob(pids),
         bg_jobs' = added \/ bg_jobs' = [added EXCEPT ![Len(added)].state = "stopped"]
  PROVE  NoNewDone
  <1>1. bg_jobs \in Seq(Entries)
    BY DEF IInv, ShellTypeOK
  <1>2. CASE Len(bg_jobs) >= MAXJOBS
    <2>1. added = bg_jobs
      BY <1>2 DEF AddJob
    <2>2. CASE bg_jobs' = bg_jobs
      BY <2>2 DEF NoNewDone
    <2>3. CASE bg_jobs' = [bg_jobs EXCEPT ![Len(bg_jobs)].state = "stopped"]
      BY <1>1, <2>3, EditDone
    <2> QED BY <2>1, <2>2, <2>3
  <1>3. CASE ~(Len(bg_jobs) >= MAXJOBS)
    <2>1. PICK e : /\ e = [job_num |-> next_job_num, pid |-> launches, pids |-> pids,
                           state |-> "running", is_done |-> FALSE]
                   /\ added = Append(bg_jobs, e)
      BY <1>3 DEF AddJob
    <2>2. /\ DOMAIN added = 1 .. Len(bg_jobs) + 1 /\ Len(added) = Len(bg_jobs) + 1
          /\ Len(bg_jobs) \in Nat /\ DOMAIN bg_jobs = 1 .. Len(bg_jobs)
          /\ added[Len(bg_jobs) + 1] = e
          /\ \A i \in DOMAIN bg_jobs : added[i] = bg_jobs[i]
      BY <1>1, <2>1
    <2>3. ~e.is_done /\ e = [job_num |-> e.job_num, pid |-> e.pid, pids |-> e.pids,
                             state |-> e.state, is_done |-> e.is_done]
      BY <2>1
    <2>4. ASSUME NEW i \in DOMAIN bg_jobs', bg_jobs'[i].is_done
          PROVE  i \in DOMAIN bg_jobs /\ bg_jobs[i].is_done
      <3>1. DOMAIN bg_jobs' = DOMAIN added
        OBVIOUS
      <3>2. CASE i = Len(bg_jobs) + 1
        <4>1. ~bg_jobs'[i].is_done
          BY <2>2, <2>3, <3>1, <3>2
        <4> QED BY <4>1, <2>4
      <3>3. CASE i # Len(bg_jobs) + 1
        <4>1. i \in DOMAIN bg_jobs /\ bg_jobs'[i] = bg_jobs[i]
          BY <2>2, <3>1, <3>3
        <4> QED BY <4>1, <2>4
      <3> QED BY <3>2, <3>3
    <2> QED BY <2>4 DEF NoNewDone
  <1> QED BY <1>2, <1>3

LEMMA PendingInductive ==
  ASSUME IInv, DoneIsPending, [Next]_vars PROVE DoneIsPending'
  <1>t. bg_jobs \in Seq(Entries)
    BY DEF IInv, ShellTypeOK
  <1>a. ASSUME NoNewDone, sigchld_pending' = sigchld_pending PROVE DoneIsPending'
    BY <1>a DEF NoNewDone, DoneIsPending
  <1>b. ASSUME UNCHANGED <<bg_jobs, sigchld_pending>> PROVE DoneIsPending'
    BY <1>b DEF DoneIsPending
  <1>r. ASSUME PrcsCmpltJob PROVE DoneIsPending'
    <2>1. PICK K : K = {i \in DOMAIN bg_jobs : ~bg_jobs[i].is_done}
      OBVIOUS
    <2>2. CASE sigchld_pending
      <3>1. K \in SUBSET DOMAIN bg_jobs /\ bg_jobs' = Keep(K)
        BY <2>1, <2>2, <1>r DEF PrcsCmpltJob
      <3>2. \A i \in DOMAIN bg_jobs' : \E j \in K : bg_jobs'[i] = bg_jobs[j]
        BY <3>1, <1>t, KeepDone
      <3> QED BY <2>1, <3>2 DEF DoneIsPending
    <2>3. CASE ~sigchld_pending
      BY <2>3, <1>r DEF PrcsCmpltJob, DoneIsPending
    <2> QED BY <2>2, <2>3
  <1>1. CASE MainLoop
    BY <1>1, <1>b, <1>r DEF MainLoop, ReportDone, EndLine, tableVars
  <1>2. CASE ExecuteStep
    <2>1. CASE LaunchedBg
      <3>1. PICK pids : bg_jobs' = AddJob(pids) /\ sigchld_pending' = sigchld_pending
        BY <2>1 DEF LaunchedBg
      <3>2. NoNewDone
        BY <3>1, AddDone
      <3> QED BY <3>1, <3>2, <1>a
    <2>2. CASE StopFg
      <3>1. PICK pids, added : /\ added = AddJob(pids)
                               /\ bg_jobs' = [added EXCEPT ![Len(added)].state = "stopped"]
                               /\ sigchld_pending' = sigchld_pending
        BY <2>2 DEF StopFg
      <3>2. NoNewDone
        BY <3>1, AddDone
      <3> QED BY <3>1, <3>2, <1>a
    <2> QED BY <1>2, <2>1, <2>2, <1>b DEF ExecuteStep, Spawn, SpawnFails, AbortEnd, LaunchedFg,
          EndFg, AbortReap, WaitFg, tableVars
  <1>3. CASE Resume
    <2>1. CASE Alarm
      BY <2>1, <1>b DEF Alarm, tableVars
    <2>2. CASE FgReturn
      <3>1. PICK K : K = DOMAIN bg_jobs \ {fg}
        OBVIOUS
      <3>2. sigchld_pending' = sigchld_pending
        BY <2>2 DEF FgReturn
      <3>3. CASE bg_jobs' = Keep(K)
        <4>1. \A i \in DOMAIN bg_jobs' : \E j \in K : bg_jobs'[i] = bg_jobs[j]
          BY <3>1, <3>3, <1>t, KeepDone
        <4> QED BY <3>1, <3>2, <4>1, <1>a DEF NoNewDone
      <3>4. CASE bg_jobs' = [bg_jobs EXCEPT ![fg].state = "running"]
        <4>1. NoNewDone
          BY <3>4, <1>t, EditDone
        <4> QED BY <3>2, <4>1, <1>a
      <3>5. CASE bg_jobs' = bg_jobs
        BY <3>2, <3>5, <1>b
      <3> QED BY <2>2, <3>1, <3>3, <3>4, <3>5 DEF FgReturn
    <2>3. CASE \E k \in Members : FgWait(k)
      <3>1. PICK k \in Members : FgWait(k)
        BY <2>3
      <3>2. sigchld_pending' = sigchld_pending
            /\ \/ bg_jobs' = [bg_jobs EXCEPT ![fg].state = "stopped"]
               \/ bg_jobs' = [bg_jobs EXCEPT ![fg].pids = Forget(@, k)]
        BY <3>1 DEF FgWait
      <3>3. PICK pids : \/ bg_jobs' = [bg_jobs EXCEPT ![fg].state = "stopped"]
                        \/ bg_jobs' = [bg_jobs EXCEPT ![fg].pids = pids]
        BY <3>2
      <3>4. NoNewDone
        BY <3>3, <1>t, EditDone
      <3> QED BY <3>2, <3>4, <1>a
    <2> QED BY <1>3, <2>1, <2>2, <2>3 DEF Resume
  <1>4. CASE User
    <2>1. CASE ReadLine \/ EndOfInput \/ \E n \in Commands, bg \in BOOLEAN : Execute(n, bg)
      BY <2>1, <1>b DEF ReadLine, EndOfInput, Execute, tableVars
    <2>2. CASE InputInterrupted
      BY <2>2, <1>r DEF InputInterrupted
    <2>3. CASE \E i \in 1 .. MAXJOBS :
                  ResumeBg(i) \/ ResumeGone(i) \/ \E timeout \in BOOLEAN : ResumeFg(i, timeout)
      <3>1. PICK i \in 1 .. MAXJOBS :
               bg_jobs' = [bg_jobs EXCEPT ![i].state = "running"]
               /\ sigchld_pending' = sigchld_pending
        BY <2>3 DEF ResumeBg, ResumeGone, ResumeFg
      <3>2. NoNewDone
        BY <3>1, <1>t, EditDone
      <3> QED BY <3>1, <3>2, <1>a
    <2> QED BY <1>4, <2>1, <2>2, <2>3 DEF User
  <1>5. CASE Handler
    BY <1>5 DEF Handler, Sigchld, DoneIsPending
  <1>6. CASE Children
    BY <1>6, <1>b DEF Children, ChildExits, ChildStopsOrContinues, ChildExecs, tableVars
  <1>7. CASE UNCHANGED vars
    BY <1>7, <1>b DEF vars, tableVars
  <1> QED BY <1>1, <1>2, <1>3, <1>4, <1>5, <1>6, <1>7 DEF Next

-----------------------------------------------------------------------------
(* The theorems *)

\* What each step finds of the children, of execute(), of fg_job() and of the
\* table.
THEOREM JobsInvariant == Spec => []IInv
  <1>1. Init => IInv
    BY InitInvariant
  <1>2. IInv /\ [Next]_vars => IInv'
    BY Inductive
  <1> QED BY <1>1, <1>2, PTL DEF Spec

\* The variables of the shell keep their types, in particular the table its
\* length (jobs.c:9-31).
THEOREM TypeCorrect == Spec => []TypeOK
  <1>1. Init => loading \subseteq Commands
    BY DEF Init
  <1>2. ASSUME IInv, loading \subseteq Commands, [Next]_vars PROVE (loading \subseteq Commands)'
    BY <1>2, LoadingType
  <1>3. IInv /\ loading \subseteq Commands => TypeOK
    BY DEF IInv, ShellTypeOK, TypeOK
  <1> QED BY <1>1, <1>2, <1>3, JobsInvariant, PTL DEF Spec

\* No job is left with the terminal: the shell has it whenever it reads a line
\* (exec.c:213-240, 358, cmds_resume.c:50-136).
THEOREM TerminalReturns == Spec => []TerminalOwner
  <1>1. IInv => TerminalOwner
    BY DEF IInv
  <1> QED BY <1>1, JobsInvariant, PTL


\* A job marked done has no process left, whatever helpers and alarms do
\* (main.c:55-73).
THEOREM DoneHasNoProcess ==
  Spec => [](\A i \in DOMAIN bg_jobs : bg_jobs[i].is_done =>
                \A k \in Commands : ~Exists(child[bg_jobs[i].pid][k]))
  <1>1. IInv => \A i \in DOMAIN bg_jobs : bg_jobs[i].is_done =>
                   \A k \in Commands : ~Exists(child[bg_jobs[i].pid][k])
    BY DoneHasNone DEF IInv, Lists
  <1> QED BY <1>1, JobsInvariant, PTL

\* Without helpers each entry counts the processes of its pipeline, and
\* fg_job() drops a job only when it has none left.
THEOREM JobsCount == ASSUME ~WithHelper PROVE Spec => [](IInv /\ Exact)
  <1>1. Init => IInv /\ Exact
    BY InitInvariant, ExactInit
  <1>2. IInv /\ Exact /\ [Next]_vars => (IInv /\ Exact)'
    BY Inductive, ExactInductive
  <1> QED BY <1>1, <1>2, PTL DEF Spec

\* A job is marked done exactly when its commands have been reaped, if no
\* command has a helper; the second half when the user gives no timeouts
\* (main.c:43-73, cmds_resume.c:84-140).
THEOREM DoneExact == ASSUME ~WithHelper PROVE Spec => []DoneIsExact
  <1>1. ASSUME IInv, Exact PROVE DoneIsExact
    <2>1. \A i \in DOMAIN bg_jobs : bg_jobs[i].is_done =>
             \A k \in Commands : ~Exists(child[bg_jobs[i].pid][k])
      BY <1>1, DoneHasNone DEF IInv, Lists
    <2>2. Unblocked /\ ~timeouts =>
             \A i \in DOMAIN bg_jobs : ~bg_jobs[i].is_done => ~AllDone(bg_jobs[i].pids)
      BY <1>1 DEF Exact, Unblocked
    <2> QED BY <2>1, <2>2 DEF DoneIsExact
  <1> QED BY <1>1, JobsCount, PTL

\* No command is lost: between two commands of the user each process that
\* lives is listed by an entry that is not done, if no command has a helper
\* and the table has an entry for each launch (exec.c:316-383,
\* cmds_resume.c:84-136).
THEOREM LiveTracked ==
  ASSUME ~WithHelper, MaxLaunches <= MAXJOBS PROVE Spec => []LiveIsTracked
  <1>1. Init => IInv /\ Exact /\ Covered
    BY InitInvariant, ExactInit, CoveredInit
  <1>2. IInv /\ Exact /\ Covered /\ [Next]_vars => (IInv /\ Exact /\ Covered)'
    BY Inductive, ExactInductive, CoveredInductive
  <1>3. ASSUME IInv, Covered PROVE LiveIsTracked
    <2> SUFFICES ASSUME Unblocked, NEW g \in Groups, NEW k \in Commands, Exists(child[g][k])
                 PROVE  Tracked(g, k)
      BY DEF LiveIsTracked
    <2>1. PICK i \in DOMAIN bg_jobs : bg_jobs[i].pid = g
      BY <1>3 DEF Covered, Unblocked, Launching
    <2>2. Lists(bg_jobs[i]) /\ k # 0
      BY <1>3, Sizes DEF IInv, Commands
    <2>3. ~AllDone(bg_jobs[i].pids)
      BY <1>3, <2>1, DoneHasNone
    <2>4. ~bg_jobs[i].is_done /\ \E a \in DOMAIN bg_jobs[i].pids : bg_jobs[i].pids[a] = k
      BY <2>1, <2>2, <2>3 DEF Lists
    <2> QED BY <2>1, <2>2, <2>4 DEF Tracked, Tracks
  <1> QED BY <1>1, <1>2, <1>3, PTL DEF Spec

\* No report is dropped: a job that is done stays in the table with
\* sigchld_pending set until prcs_cmplt_job() has reported it, whatever helpers
\* and alarms do (main.c:39, 80-103).
THEOREM DonePending == Spec => []DoneIsPending
  <1>1. Init => DoneIsPending
    BY DEF Init, DoneIsPending
  <1>2. IInv /\ DoneIsPending /\ [Next]_vars => DoneIsPending'
    BY PendingInductive
  <1> QED BY <1>1, <1>2, JobsInvariant, PTL DEF Spec
=============================================================================
