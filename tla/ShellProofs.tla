---------------------------- MODULE ShellProofs ----------------------------
(***************************************************************************)
(* Theorems about Shell for every script, command line, user and status: a *)
(* run obeys its lines exactly where the conditions hold, as long as its   *)
(* level counts them (Levels), and an operation that began with SIGINT     *)
(* ignored is not interrupted, although nested runs save the handler in one*)
(* place (Handlers).  The stack of calls is a sequence whose elements are  *)
(* unknown records, so the first lemmas are about such sequences; then come*)
(* the frames that a step can put on top, the stacks that a step can make, *)
(* and the actions.                                                        *)
(***************************************************************************)
EXTENDS Shell, SequenceTheorems, TLAPS

(* A sequence, of whatever it is made.                                      *)
IsStack(s) == s \in Seq({ s[k] : k \in DOMAIN s })

(* Every sequence is one.                                                  *)
LEMMA Elements ==
  ASSUME NEW S, NEW s \in Seq(S)
  PROVE  IsStack(s)
<1>1. s \in [1 .. Len(s) -> S] /\ Len(s) \in Nat /\ DOMAIN s = 1 .. Len(s)
  OBVIOUS
<1>2. s \in [1 .. Len(s) -> { s[k] : k \in DOMAIN s }]
  BY <1>1
<1> QED
  BY <1>1, <1>2, SeqDef DEF IsStack

(* The top of a stack is replaced.                                         *)
LEMMA Replaced ==
  ASSUME NEW s, IsStack(s), s # <<>>, NEW f
  PROVE  LET t == <<f>> \o Tail(s) IN
         /\ IsStack(t) /\ t # <<>> /\ DOMAIN t = DOMAIN s /\ t[1] = f
         /\ \A k \in DOMAIN s : k # 1 => t[k] = s[k]
<1> DEFINE S == { s[k] : k \in DOMAIN s } \cup {f}
           t == <<f>> \o Tail(s)
<1>1. s \in Seq(S) /\ Len(s) \in Nat \ {0}
  BY SeqDef DEF IsStack
<1>2. Tail(s) \in Seq(S) /\ <<f>> \in Seq(S) /\ Len(Tail(s)) = Len(s) - 1
  <2> HIDE DEF S
  <2>1. f \in S  BY DEF S
  <2> QED BY <1>1, <2>1
<1>3. \A k \in 1 .. Len(s) - 1 : Tail(s)[k] = s[k + 1]
  <2> HIDE DEF S
  <2> QED BY <1>1
<1>4. t \in Seq(S) /\ Len(t) = Len(s) /\ DOMAIN t = DOMAIN s /\ DOMAIN s = 1 .. Len(s)
      /\ t # <<>> /\ t[1] = f
      /\ \A k \in 1 .. Len(s) : k # 1 => t[k] = s[k]
  <2> HIDE DEF S
  <2> QED BY <1>1, <1>2, <1>3
<1>5. IsStack(t)
  <2> HIDE DEF S, t
  <2> QED BY <1>4, Elements
<1> QED
  <2> HIDE DEF S
  <2> QED BY <1>4, <1>5

(* Something is put on a stack.                                            *)
LEMMA Pushed ==
  ASSUME NEW s, IsStack(s), NEW f
  PROVE  \E t :
         /\ t = <<f>> \o s
         /\ IsStack(t) /\ t # <<>> /\ DOMAIN t = 1 .. Len(s) + 1 /\ t[1] = f
         /\ DOMAIN s = 1 .. Len(s) /\ Len(s) \in Nat
         /\ \A k \in DOMAIN s : t[k + 1] = s[k]
<1> DEFINE S == { s[k] : k \in DOMAIN s } \cup {f}
           t == <<f>> \o s
<1>1. s \in Seq(S) /\ Len(s) \in Nat
  BY SeqDef DEF IsStack
<1>2. <<f>> \in Seq(S)
  OBVIOUS
<1>3. t \in Seq(S) /\ Len(t) = Len(s) + 1 /\ DOMAIN t = 1 .. Len(s) + 1
      /\ DOMAIN s = 1 .. Len(s) /\ t # <<>> /\ t[1] = f
      /\ \A k \in 1 .. Len(s) : t[k + 1] = s[k]
  <2> HIDE DEF S
  <2> QED BY <1>1, <1>2
<1>4. IsStack(t)
  <2> HIDE DEF S, t
  <2> QED BY <1>3, Elements
<1> QED
  <2> HIDE DEF S
  <2> QED BY <1>1, <1>3, <1>4

(* The head of a sequence is its first element.                            *)
LEMMA First ==
  ASSUME NEW S, NEW s \in Seq(S), Len(s) > 0
  PROVE  DOMAIN s = 1 .. Len(s) /\ s # <<>> /\ Head(s) = s[1]
  OBVIOUS

(* The top of a stack is taken away.                                       *)
LEMMA Popped ==
  ASSUME NEW s, IsStack(s), Len(s) > 1
  PROVE  LET t == Tail(s) IN
         /\ IsStack(t) /\ t # <<>> /\ DOMAIN t = 1 .. Len(s) - 1 /\ Head(t) = s[2]
         /\ DOMAIN s = 1 .. Len(s) /\ Len(s) \in Nat
         /\ \A k \in DOMAIN t : t[k] = s[k + 1]
<1> DEFINE S == { s[k] : k \in DOMAIN s }
<1>1. s \in Seq(S) /\ Len(s) \in Nat
  BY DEF IsStack
<1>2. /\ Tail(s) \in Seq(S) /\ Len(Tail(s)) = Len(s) - 1 /\ DOMAIN Tail(s) = 1 .. Len(s) - 1
      /\ DOMAIN s = 1 .. Len(s) /\ Tail(s) # <<>> /\ Head(Tail(s)) = s[2]
      /\ \A k \in 1 .. Len(s) - 1 : Tail(s)[k] = s[k + 1]
  <2> HIDE DEF S
  <2>1. Tail(s) \in Seq(S) /\ Len(Tail(s)) = Len(s) - 1 /\ DOMAIN s = 1 .. Len(s)
    BY <1>1
  <2>2. \A k \in 1 .. Len(s) - 1 : Tail(s)[k] = s[k + 1]
    BY <1>1
  <2>3. DOMAIN Tail(s) = 1 .. Len(s) - 1 /\ Tail(s) # <<>> /\ Head(Tail(s)) = Tail(s)[1]
    <3> DEFINE t == Tail(s)
    <3>1. t \in Seq(S) /\ Len(t) = Len(s) - 1 /\ Len(t) > 0
      BY <1>1, <2>1
    <3> HIDE DEF t
    <3>2. DOMAIN t = 1 .. Len(t) /\ t # <<>> /\ Head(t) = t[1]
      BY <3>1, First
    <3> QED
      BY <3>1, <3>2 DEF t
  <2> QED
    BY <1>1, <2>1, <2>2, <2>3
<1>3. IsStack(Tail(s))
  <2> HIDE DEF S
  <2> QED BY <1>2, Elements
<1> QED
  <2> HIDE DEF S
  <2> QED BY <1>1, <1>2, <1>3

(* What Stack says of one run, of a stack; and what Handlers says of it.   *)
RunFrame(f) == f.kind = "run" /\ DOMAIN f = Fields /\ Levels(f)

Frames(s) ==
  /\ IsStack(s) /\ s # <<>>
  /\ \A k \in DOMAIN s : s[k].kind \in {"run", "prompt"}
  /\ \A k \in DOMAIN s : s[k].kind = "run" =>
       RunFrame(s[k]) /\ (k > 1 => s[k].where \in {"if", "op"})

Guarded(s, now, next) ==
  /\ \A k \in DOMAIN s : Protected(s[k]) => now = "ignore"
  /\ \A j, k \in DOMAIN s :
       j < k /\ InOperation(s[j]) /\ Protected(s[k]) => next = "ignore"

----------------------------------------------------------------------------
(* An "if" among skipped lines keeps the level right.                      *)
LEMMA NestedFrame ==
  ASSUME NEW f, RunFrame(f), f.where = "line", f.iflevel # 0
  PROVE  LET g == [f EXCEPT !.iflevel = Deeper(@), !.open = Append(@, FALSE)] IN
         RunFrame(g) /\ g.where = "line"
  BY DEF RunFrame, Levels, Fields, Deeper

(* An endif keeps it right, or the run is astray: the last open condition  *)
(* is false exactly if the level is not 0.                                 *)
LEMMA EndifFrame ==
  ASSUME NEW f, RunFrame(f), f.where = "line"
  PROVE  LET open == f.open
             g == [f EXCEPT
               !.iflevel = @ - 1,
               !.open = IF open = <<>> THEN open ELSE SubSeq(open, 1, Len(open) - 1),
               !.astray = @ \/ open = <<>> \/ open[Len(open)]] IN
         RunFrame(g) /\ g.where = "line"
<1> DEFINE open == f.open
           less == IF open = <<>> THEN open ELSE SubSeq(open, 1, Len(open) - 1)
           lost_way == f.astray \/ open = <<>> \/ open[Len(open)]
           g == [f EXCEPT !.iflevel = @ - 1, !.open = less, !.astray = lost_way]
<1>1. open \in Seq(BOOLEAN) /\ f.iflevel \in Int /\ f.astray \in BOOLEAN
  BY DEF RunFrame, Levels
<1>2. less \in Seq(BOOLEAN)
  <2>1. CASE open = <<>>
    BY <1>1, <2>1
  <2>2. CASE open # <<>>
    <3> HIDE DEF open
    <3>1. Len(open) \in Nat \ {0} /\ \A c \in 1 .. Len(open) - 1 : open[c] \in BOOLEAN
      BY <1>1, <2>2
    <3> QED BY <1>1, <2>2, <3>1, SubSeqProperties
  <2> QED
    BY <2>1, <2>2
<1>3. lost_way \in BOOLEAN
  BY <1>1
<1>4. ~lost_way => /\ f.iflevel - 1 \in 0 .. Len(less)
                   /\ \A c \in DOMAIN less : less[c] <=> c <= Len(less) - (f.iflevel - 1)
  <2> SUFFICES ASSUME ~f.astray, open # <<>>, ~open[Len(open)]
      PROVE  /\ f.iflevel - 1 \in 0 .. Len(less)
             /\ \A c \in DOMAIN less : less[c] <=> c <= Len(less) - (f.iflevel - 1)
    OBVIOUS
  <2>1. f.iflevel \in 0 .. Len(open) /\ \A c \in DOMAIN open : open[c] <=> c <= Len(open) - f.iflevel
    BY DEF RunFrame, Levels
  <2>2. Len(open) \in Nat \ {0} /\ Len(open) \in DOMAIN open /\ DOMAIN open = 1 .. Len(open)
    BY <1>1
  <2>3. Len(less) = Len(open) - 1 /\ DOMAIN less = 1 .. Len(open) - 1
        /\ \A c \in 1 .. Len(open) - 1 : less[c] = open[c]
    BY <1>1, <2>2
  <2>4. f.iflevel > 0
    BY <2>1, <2>2
  <2> HIDE DEF less, open
  <2> QED
    BY <2>1, <2>2, <2>3, <2>4
<1>5. DOMAIN g = Fields /\ g.kind = "run" /\ g.where = "line"
      /\ g.iflevel = f.iflevel - 1 /\ g.open = less /\ g.astray = lost_way
      /\ g.back = f.back /\ g.back_astray = f.back_astray
  <2> HIDE DEF less, lost_way
  <2> QED BY DEF RunFrame, Fields
<1>6. Levels(g)
  <2> HIDE DEF less, lost_way, g, open
  <2>1. f.back \in Seq(BOOLEAN) /\ f.back_astray \in BOOLEAN
        /\ (~f.back_astray => \A c \in DOMAIN f.back : f.back[c])
    BY DEF RunFrame, Levels
  <2> QED BY <1>1, <1>2, <1>3, <1>4, <1>5, <2>1 DEF Levels
<1> QED
  BY <1>5, <1>6 DEF RunFrame

(* A goto starts again, and what was open, all true, waits for the ret.    *)
LEMMA GotoFrame ==
  ASSUME NEW f, RunFrame(f), f.where = "line", f.iflevel <= 0, NEW n
  PROVE  LET g == [f EXCEPT !.i = n, !.last_i = f.i, !.iflevel = 0, !.open = <<>>,
                     !.astray = FALSE, !.back = f.open, !.back_astray = f.astray] IN
         RunFrame(g) /\ g.where = "line"
  BY DEF RunFrame, Levels, Fields

(* A goto to nowhere, forgiven.                                            *)
LEMMA UndefinedFrame ==
  ASSUME NEW f, RunFrame(f), f.where = "line", f.iflevel <= 0
  PROVE  LET g == [f EXCEPT !.last_i = f.i, !.back = f.open, !.back_astray = f.astray] IN
         RunFrame(g) /\ g.where = "line"
  BY DEF RunFrame, Levels, Fields

(* A ret brings back conditions that were all true.                        *)
LEMMA RetFrame ==
  ASSUME NEW f, RunFrame(f), f.where = "line", f.iflevel <= 0
  PROVE  LET g == [f EXCEPT !.i = f.last_i, !.last_i = 0, !.open = f.back,
                     !.astray = @ \/ f.back_astray] IN
         RunFrame(g) /\ g.where = "line"
  BY DEF RunFrame, Levels, Fields

(* A line that only moves on.                                              *)
LEMMA PlainFrame ==
  ASSUME NEW f, RunFrame(f), f.where = "line", NEW x
  PROVE  LET g == [f EXCEPT !.labels = x]
             h == [f EXCEPT !.i = @ + 1] IN
         RunFrame(g) /\ g.where = "line" /\ RunFrame(h) /\ h.where = "line"
  BY DEF RunFrame, Levels, Fields

(* An operation begins, of a line or of an "if".                           *)
LEMMA BegunFrame ==
  ASSUME NEW f, RunFrame(f), f.where = "line", NEW g
  PROVE  /\ RunFrame([f EXCEPT !.where = "op", !.guarded = g])
         /\ f.iflevel = 0 => RunFrame([f EXCEPT !.where = "if", !.guarded = g])
  BY DEF RunFrame, Levels, Fields

(* One more condition that holds.                                          *)
LEMMA AppendedTrue ==
  ASSUME NEW open \in Seq(BOOLEAN)
  PROVE  LET more == Append(open, TRUE) IN
         /\ more \in Seq(BOOLEAN) /\ Len(more) = Len(open) + 1
         /\ (\A c \in DOMAIN open : open[c]) => \A c \in DOMAIN more : more[c]
  OBVIOUS

(* It ends; the "if" opens a condition and counts it if it is false.       *)
LEMMA FinishedFrame ==
  ASSUME NEW f, RunFrame(f), f.where \in {"if", "op"}, NEW status
  PROVE  LET g == [f EXCEPT
               !.i = @ + 1,
               !.where = "line",
               !.iflevel = IF f.where = "if" /\ status # 0 THEN @ + 1 ELSE @,
               !.open = IF f.where = "if" THEN Append(@, status = 0) ELSE @] IN
         RunFrame(g) /\ g.where = "line"
<1>1. CASE f.where = "op"
  BY <1>1 DEF RunFrame, Levels, Fields
<1>2. CASE f.where = "if" /\ status = 0
  <2> DEFINE open == Append(f.open, TRUE)
             g == [f EXCEPT
               !.i = @ + 1,
               !.where = "line",
               !.iflevel = IF f.where = "if" /\ status # 0 THEN @ + 1 ELSE @,
               !.open = IF f.where = "if" THEN open ELSE @]
  <2>1. f.open \in Seq(BOOLEAN) /\ f.iflevel = 0
        /\ (~f.astray => \A c \in DOMAIN f.open : f.open[c])
    BY <1>2 DEF RunFrame, Levels
  <2>2. open \in Seq(BOOLEAN) /\ Len(open) = Len(f.open) + 1
        /\ (~f.astray => \A c \in DOMAIN open : open[c])
    BY <2>1, AppendedTrue
  <2>3. DOMAIN g = Fields /\ g.kind = "run" /\ g.where = "line" /\ g.iflevel = 0 /\ g.open = open
        /\ g.astray = f.astray /\ g.back = f.back /\ g.back_astray = f.back_astray
    <3> HIDE DEF open
    <3> QED BY <1>2, <2>1 DEF RunFrame, Fields
  <2>4. Levels(g)
    <3> HIDE DEF g, open
    <3>1. f.back \in Seq(BOOLEAN) /\ f.back_astray \in BOOLEAN /\ f.astray \in BOOLEAN
          /\ (~f.back_astray => \A c \in DOMAIN f.back : f.back[c])
      BY DEF RunFrame, Levels
    <3> QED BY <2>2, <2>3, <3>1 DEF Levels
  <2>5. (status = 0) = TRUE
    BY <1>2
  <2> QED
    BY <2>3, <2>4, <2>5 DEF RunFrame
<1>3. CASE f.where = "if" /\ status # 0
  BY <1>3 DEF RunFrame, Levels, Fields
<1> QED
  BY <1>1, <1>2, <1>3

(* A run that has just begun.                                              *)
LEMMA NewFrame ==
  ASSUME NEW script
  PROVE  RunFrame(Run(script)) /\ Run(script).where = "line"
  BY DEF RunFrame, Levels, Fields, Run

----------------------------------------------------------------------------
(* The stack stays well formed if a run replaces its top.                  *)
LEMMA FramesReplaced ==
  ASSUME NEW s, Frames(s), NEW f, RunFrame(f)
  PROVE  Frames(<<f>> \o Tail(s))
<1>1. IsStack(s) /\ s # <<>>
  BY DEF Frames
<1>2. 1 \in DOMAIN s /\ \A k \in DOMAIN s : k \in Nat \ {0}
  BY <1>1 DEF IsStack
<1> DEFINE t == <<f>> \o Tail(s)
<1>3. IsStack(t) /\ t # <<>> /\ DOMAIN t = DOMAIN s /\ t[1] = f
      /\ \A k \in DOMAIN s : k # 1 => t[k] = s[k]
  BY <1>1, Replaced
<1> HIDE DEF t
<1> QED
  BY <1>2, <1>3 DEF Frames, RunFrame, t

(* It does if a run or a prompt is put on an operation or a prompt.        *)
LEMMA FramesPushed ==
  ASSUME NEW s, Frames(s), InOperation(Head(s)) \/ Head(s).kind = "prompt",
         NEW f, RunFrame(f) \/ f.kind = "prompt"
  PROVE  Frames(<<f>> \o s)
<1>1. IsStack(s) /\ s # <<>> /\ Head(s) = s[1]
  BY DEF Frames, IsStack
<1>2. PICK t :
         /\ t = <<f>> \o s
         /\ IsStack(t) /\ t # <<>> /\ DOMAIN t = 1 .. Len(s) + 1 /\ t[1] = f
         /\ DOMAIN s = 1 .. Len(s) /\ Len(s) \in Nat
         /\ \A k \in DOMAIN s : t[k + 1] = s[k]
  <2>1. IsStack(s)
    BY <1>1
  <2> QED BY ONLY <2>1, Pushed, SMTT(30)
<1>3. \A k \in DOMAIN t : k = 1 \/ (k - 1 \in DOMAIN s /\ t[k] = s[k - 1])
  <2> QED BY <1>2
<1>4. \A k \in DOMAIN t : t[k].kind \in {"run", "prompt"}
  BY <1>2, <1>3 DEF Frames, RunFrame
<1>5. \A k \in DOMAIN t : t[k].kind = "run" => RunFrame(t[k])
  BY <1>2, <1>3 DEF Frames, RunFrame
<1>6. ASSUME NEW k \in DOMAIN t, k > 1, t[k].kind = "run"
      PROVE  t[k].where \in {"if", "op"}
  <2>1. k - 1 \in DOMAIN s /\ t[k] = s[k - 1]
    BY <1>3, <1>6
  <2>2. CASE k - 1 = 1
    BY <2>1, <2>2, <1>1, <1>6 DEF InOperation
  <2>3. CASE k - 1 > 1
    BY <2>1, <2>3, <1>6 DEF Frames
  <2> QED
    BY <2>1, <2>2, <2>3, <1>2
<1> QED
  BY <1>2, <1>4, <1>5, <1>6 DEF Frames

(* It does if the top is taken; below is an operation or a prompt.         *)
LEMMA FramesPopped ==
  ASSUME NEW s, Frames(s), Len(s) > 1
  PROVE  /\ Frames(Tail(s)) /\ Head(Tail(s)) = s[2] /\ 2 \in DOMAIN s
         /\ s[2].kind = "run" => RunFrame(s[2]) /\ InOperation(s[2])
<1>1. IsStack(s)
  BY DEF Frames
<1> DEFINE t == Tail(s)
<1>2. /\ IsStack(t) /\ t # <<>> /\ DOMAIN t = 1 .. Len(s) - 1 /\ Head(t) = s[2]
      /\ DOMAIN s = 1 .. Len(s) /\ Len(s) \in Nat
      /\ \A k \in DOMAIN t : t[k] = s[k + 1]
  BY <1>1, Popped
<1> HIDE DEF t
<1>3. \A k \in DOMAIN t : k + 1 \in DOMAIN s /\ k + 1 > 1
  BY <1>2
<1>4. Frames(t)
  BY <1>2, <1>3 DEF Frames
<1>5. 2 \in DOMAIN s
  BY <1>2
<1> QED
  BY <1>2, <1>4, <1>5 DEF Frames, InOperation, t

----------------------------------------------------------------------------
(* The invariant in terms of stacks, before and after a step.              *)
LEMMA InvariantParts ==
  /\ Stack <=> Frames(calls)
  /\ Stack' <=> Frames(calls')
  /\ Handlers <=> (exit = -1 => Guarded(calls, sigint, sigint_signal))
  /\ Handlers' <=> (exit' = -1 => Guarded(calls', sigint', sigint_signal'))
  BY DEF Stack, Frames, IsStack, RunFrame, Runs, Handlers, Guarded

(* A top outside operations needs no protection; if it was in one, the     *)
(* handler that unblock_sigint brings back protects those below.           *)
LEMMA GuardedLine ==
  ASSUME NEW s, IsStack(s), s # <<>>, NEW now, NEW next, Guarded(s, now, next),
         NEW f, ~InOperation(f)
  PROVE  /\ Guarded(<<f>> \o Tail(s), now, next)
         /\ InOperation(Head(s)) => Guarded(<<f>> \o Tail(s), next, next)
<1> DEFINE t == <<f>> \o Tail(s)
<1>1. DOMAIN t = DOMAIN s /\ t[1] = f /\ \A k \in DOMAIN s : k # 1 => t[k] = s[k]
  BY Replaced
<1>2. Head(s) = s[1] /\ 1 \in DOMAIN s /\ \A k \in DOMAIN s : k \in Nat \ {0}
  BY DEF IsStack
<1> HIDE DEF t
<1>3. \A k \in DOMAIN t : Protected(t[k]) => k # 1 /\ Protected(s[k]) /\ 1 < k
  BY <1>1, <1>2 DEF Protected
<1>4. \A k \in DOMAIN t : InOperation(t[k]) => InOperation(s[k])
  BY <1>1
<1>5. Guarded(t, now, next)
  BY <1>1, <1>3, <1>4 DEF Guarded
<1>6. InOperation(Head(s)) => Guarded(t, next, next)
  BY <1>1, <1>2, <1>3, <1>4 DEF Guarded
<1> QED
  BY <1>5, <1>6 DEF t

(* lock_operation protects the operation, and saves what protected those   *)
(* below.                                                                  *)
LEMMA GuardedLock ==
  ASSUME NEW s, IsStack(s), s # <<>>, NEW now, NEW next, Guarded(s, now, next),
         NEW f, NEW new \in {now, "ignore"}, Protected(f) => new = "ignore"
  PROVE  Guarded(<<f>> \o Tail(s), new, now)
<1> DEFINE t == <<f>> \o Tail(s)
<1>1. DOMAIN t = DOMAIN s /\ t[1] = f /\ \A k \in DOMAIN s : k # 1 => t[k] = s[k]
  BY Replaced
<1>2. \A k \in DOMAIN s : k \in Nat \ {0}
  BY DEF IsStack
<1> HIDE DEF t
<1>3. \A j, k \in DOMAIN t : j < k => k # 1
  BY <1>1, <1>2
<1>4. \A k \in DOMAIN t : k # 1 /\ Protected(t[k]) => now = "ignore"
  BY <1>1 DEF Guarded
<1> QED
  BY <1>1, <1>3, <1>4 DEF Guarded, t

(* What is put on top outside operations changes nothing for those below.  *)
LEMMA GuardedPushed ==
  ASSUME NEW s, IsStack(s), NEW now, NEW next, Guarded(s, now, next), NEW f, ~InOperation(f)
  PROVE  Guarded(<<f>> \o s, now, next)
<1>1. PICK t :
         /\ t = <<f>> \o s
         /\ IsStack(t) /\ t # <<>> /\ DOMAIN t = 1 .. Len(s) + 1 /\ t[1] = f
         /\ DOMAIN s = 1 .. Len(s) /\ Len(s) \in Nat
         /\ \A k \in DOMAIN s : t[k + 1] = s[k]
  BY Pushed, SMTT(30)
<1>2. \A k \in DOMAIN t : k = 1 \/ (k - 1 \in DOMAIN s /\ t[k] = s[k - 1])
  BY <1>1
<1>3. \A k \in DOMAIN t :
        InOperation(t[k]) => k - 1 \in DOMAIN s /\ t[k] = s[k - 1]
  BY <1>1, <1>2
<1>4. \A j, k \in DOMAIN t : j < k => j - 1 < k - 1
  BY <1>1
<1> QED
  BY <1>1, <1>3, <1>4 DEF Guarded, Protected

(* What is taken from the top neither.                                     *)
LEMMA GuardedPopped ==
  ASSUME NEW s, IsStack(s), Len(s) > 1, NEW now, NEW next, Guarded(s, now, next)
  PROVE  Guarded(Tail(s), now, next)
<1> DEFINE t == Tail(s)
<1>1. /\ DOMAIN t = 1 .. Len(s) - 1 /\ DOMAIN s = 1 .. Len(s) /\ Len(s) \in Nat
      /\ \A k \in DOMAIN t : t[k] = s[k + 1]
  BY Popped
<1> HIDE DEF t
<1>2. \A k \in DOMAIN t : k + 1 \in DOMAIN s
  BY <1>1
<1>3. \A j, k \in DOMAIN t : j < k => j + 1 < k + 1
  BY <1>1
<1> QED
  BY <1>1, <1>2, <1>3 DEF Guarded, t

----------------------------------------------------------------------------
(* What is known of the top if it is a run.                                *)
LEMMA TopRun ==
  ASSUME Stack, Top.kind = "run"
  PROVE  Frames(calls) /\ IsStack(calls) /\ calls # <<>> /\ RunFrame(Top)
<1>1. Frames(calls) /\ IsStack(calls) /\ calls # <<>>
  BY InvariantParts DEF Frames
<1>2. Head(calls) = calls[1] /\ 1 \in DOMAIN calls
  BY <1>1 DEF IsStack
<1> QED
  BY <1>1, <1>2 DEF Frames, Top

(* A step that leaves a run at a line keeps the invariant.                 *)
LEMMA LineStep ==
  ASSUME Stack, Handlers, Running, Top.kind = "run",
         NEW f, RunFrame(f), f.where = "line", calls' = <<f>> \o Tail(calls),
         sigint' = sigint, sigint_signal' = sigint_signal
  PROVE  Stack' /\ Handlers'
<1>1. Frames(calls) /\ IsStack(calls) /\ calls # <<>>
  BY TopRun
<1>2. Guarded(calls, sigint, sigint_signal)
  BY InvariantParts DEF Running
<1>3. ~InOperation(f)
  BY DEF InOperation
<1>4. Frames(calls')
  BY <1>1, FramesReplaced
<1>5. Guarded(calls', sigint', sigint_signal')
  BY <1>1, <1>2, <1>3, GuardedLine
<1> QED
  BY <1>4, <1>5, InvariantParts

(* So does one that goes on with the next line.                            *)
LEMMA ResumeStep ==
  ASSUME Stack, Handlers, Running, Top.kind = "run",
         NEW f, RunFrame(f), f.where = "line", Resume(f),
         UNCHANGED signals
  PROVE  Stack' /\ Handlers'
<1> DEFINE g == [f EXCEPT !.i = @ + 1]
<1>1. RunFrame(g) /\ g.where = "line"
  BY PlainFrame
<1>2. calls' = <<g>> \o Tail(calls)
  BY DEF Resume
<1> HIDE DEF g
<1> QED
  BY <1>1, <1>2, LineStep DEF signals

(* So does lock_operation.                                                 *)
LEMMA LockStep ==
  ASSUME Stack, Handlers, Running, Top.kind = "run", Lock,
         NEW f, RunFrame(f), f.guarded = ("unblock" \notin flags), calls' = <<f>> \o Tail(calls)
  PROVE  Stack' /\ Handlers'
<1>1. Frames(calls) /\ IsStack(calls) /\ calls # <<>>
  BY TopRun
<1>2. Guarded(calls, sigint, sigint_signal)
  BY InvariantParts DEF Running
<1>3. sigint' \in {sigint, "ignore"} /\ sigint_signal' = sigint /\ (Protected(f) => sigint' = "ignore")
  BY DEF Lock, Protected
<1>4. Frames(calls')
  BY <1>1, FramesReplaced
<1>5. Guarded(calls', sigint', sigint_signal')
  BY <1>1, <1>2, <1>3, GuardedLock
<1> QED
  BY <1>4, <1>5, InvariantParts

(* So does the end of an operation on whatever stack it leaves.            *)
LEMMA FinishStep ==
  ASSUME NEW stack, Frames(stack), InOperation(Head(stack)),
         Guarded(stack, sigint, sigint_signal), exit = -1,
         NEW status \in Int, NEW errs, Finish(stack, status, errs)
  PROVE  Stack' /\ Handlers'
<1> DEFINE f == Head(stack)
           g == [f EXCEPT
             !.i = @ + 1,
             !.where = "line",
             !.iflevel = IF f.where = "if" /\ status # 0 THEN @ + 1 ELSE @,
             !.open = IF f.where = "if" THEN Append(@, status = 0) ELSE @]
<1>1. IsStack(stack) /\ stack # <<>> /\ f = stack[1] /\ 1 \in DOMAIN stack
  BY DEF Frames, IsStack
<1>2. RunFrame(f) /\ f.where \in {"if", "op"}
  BY <1>1 DEF Frames, InOperation
<1>3. CASE f.where = "op" /\ status # 0 /\ ~Forgiving
  <2>1. calls' = stack /\ exit' = ExitCode(status)
    BY <1>3 DEF Finish
  <2>2. ExitCode(status) # -1
    BY DEF ExitCode
  <2> QED
    BY <2>1, <2>2, InvariantParts
<1>4. CASE ~(f.where = "op" /\ status # 0 /\ ~Forgiving)
  <2>1. calls' = <<g>> \o Tail(stack) /\ sigint' = sigint_signal /\ sigint_signal' = sigint_signal
    BY <1>4 DEF Finish, SavedHandler
  <2>2. RunFrame(g) /\ g.where = "line"
    BY <1>2, FinishedFrame
  <2> HIDE DEF g
  <2>3. ~InOperation(g)
    BY <2>2 DEF InOperation
  <2>4. Frames(calls')
    BY <2>1, <2>2, FramesReplaced
  <2>5. Guarded(calls', sigint', sigint_signal')
    BY <1>1, <2>1, <2>3, GuardedLine
  <2> QED
    BY <2>4, <2>5, InvariantParts
<1> QED
  BY <1>3, <1>4

(* So does the end of an operation that ran nothing.                       *)
LEMMA OperationEnds ==
  ASSUME Stack, Handlers, Doing, NEW status \in Int, NEW errs, Finish(calls, status, errs)
  PROVE  Stack' /\ Handlers'
<1>1. Frames(calls) /\ exit = -1 /\ Guarded(calls, sigint, sigint_signal)
  BY InvariantParts DEF Doing, Running
<1>2. InOperation(Head(calls))
  BY DEF Doing, InOperation, Top
<1> QED
  BY <1>1, <1>2, FinishStep

(* So does a step that leaves the stack and the handlers alone.            *)
LEMMA Unmoved ==
  ASSUME Stack, Handlers, Running, UNCHANGED <<calls, sigint, sigint_signal>>
  PROVE  Stack' /\ Handlers'
<1>1. Frames(calls) /\ Guarded(calls, sigint, sigint_signal)
  BY InvariantParts DEF Running
<1> QED
  BY <1>1, InvariantParts

(* So does the beginning of a run or a prompt.                             *)
LEMMA PushStep ==
  ASSUME Stack, Handlers, Running, NEW s, Frames(s), Guarded(s, sigint, sigint_signal),
         InOperation(Head(s)) \/ Head(s).kind = "prompt",
         NEW f, RunFrame(f) \/ f.kind = "prompt", ~InOperation(f),
         calls' = <<f>> \o s, UNCHANGED <<sigint, sigint_signal>>
  PROVE  Stack' /\ Handlers'
<1>1. Frames(calls')
  BY FramesPushed
<1>2. IsStack(s)
  BY DEF Frames
<1>3. Guarded(calls', sigint', sigint_signal')
  BY <1>2, GuardedPushed
<1> QED
  BY <1>1, <1>3, InvariantParts

----------------------------------------------------------------------------
(* The lines that ymp_run itself understands.                              *)
LEMMA ControlStep ==
  ASSUME Stack, Handlers,
         LabelLine \/ NestedIf \/ Endif \/ Skip \/ Goto \/ UndefinedLabel \/ Ret
  PROVE  Stack' /\ Handlers'
<1>1. RunFrame(Top) /\ Top.where = "line" /\ Running /\ Top.kind = "run"
  BY TopRun DEF LabelLine, NestedIf, Endif, Skip, Goto, UndefinedLabel, Ret, Obeyed, Ordinary,
                AtLine, At
<1>2. Top.iflevel \in Int /\ (Obeyed => Top.iflevel <= 0)
  BY <1>1 DEF RunFrame, Levels, Obeyed
<1>3. CASE LabelLine
  <2> DEFINE g == [Top EXCEPT !.labels =
                     [l \in DOMAIN @ \cup {Arg} |-> IF l \in DOMAIN @ THEN @[l] ELSE Top.i]]
  <2>1. RunFrame(g) /\ g.where = "line"
    BY <1>1, <1>2, <1>3, PlainFrame DEF LabelLine, Obeyed
  <2>2. Resume(g) /\ UNCHANGED signals
    BY <1>3 DEF LabelLine, signals
  <2> HIDE DEF g
  <2> QED
    BY <1>1, <2>1, <2>2, ResumeStep
<1>4. CASE NestedIf
  <2> DEFINE g == [Top EXCEPT !.iflevel = Deeper(@), !.open = Append(@, FALSE)]
  <2>1. RunFrame(g) /\ g.where = "line"
    BY <1>1, <1>2, <1>4, NestedFrame DEF NestedIf, Obeyed
  <2>2. Resume(g) /\ UNCHANGED signals
    BY <1>4 DEF NestedIf, signals
  <2> HIDE DEF g
  <2> QED
    BY <1>1, <2>1, <2>2, ResumeStep
<1>5. CASE Endif
  <2> DEFINE g == [Top EXCEPT
                 !.iflevel = @ - 1,
                 !.open = IF Top.open = <<>> THEN Top.open ELSE SubSeq(Top.open, 1, Len(Top.open) - 1),
                 !.astray = @ \/ Top.open = <<>> \/ Top.open[Len(Top.open)]]
  <2>1. RunFrame(g) /\ g.where = "line"
    BY <1>1, <1>2, <1>5, EndifFrame DEF Endif, Obeyed
  <2>2. Resume(g) /\ UNCHANGED signals
    BY <1>5 DEF Endif, signals
  <2> HIDE DEF g
  <2> QED
    BY <1>1, <2>1, <2>2, ResumeStep
<1>6. CASE Skip
  BY <1>1, <1>6, ResumeStep DEF Skip, signals
<1>7. CASE Goto
  <2> DEFINE g == [Top EXCEPT !.i = Top.labels[Arg], !.last_i = Top.i, !.iflevel = 0, !.open = <<>>,
                 !.astray = FALSE, !.back = Top.open, !.back_astray = Top.astray]
  <2>1. RunFrame(g) /\ g.where = "line"
    <3>1. Top.iflevel <= 0
      BY <1>2, <1>7 DEF Goto
    <3> QED
      BY <1>1, <3>1, GotoFrame
  <2>2. Resume(g) /\ UNCHANGED signals
    BY <1>7 DEF Goto, signals
  <2> HIDE DEF g
  <2> QED
    BY <1>1, <2>1, <2>2, ResumeStep
<1>8. CASE UndefinedLabel
  <2> DEFINE g == [Top EXCEPT !.last_i = Top.i, !.back = Top.open, !.back_astray = Top.astray]
  <2>1. CASE Abort(2)
    BY <1>1, <2>1, Unmoved DEF Abort, signals
  <2>2. CASE ~Abort(2)
    <3>1. RunFrame(g) /\ g.where = "line"
      <4>1. Top.iflevel <= 0
        BY <1>2, <1>8 DEF UndefinedLabel
      <4> QED
        BY <1>1, <4>1, UndefinedFrame
    <3>2. Resume(g) /\ UNCHANGED signals
      BY <1>8, <2>2 DEF UndefinedLabel, signals
    <3> HIDE DEF g
    <3> QED
      BY <1>1, <3>1, <3>2, ResumeStep
  <2> QED
    BY <2>1, <2>2
<1>9. CASE Ret /\ HasReturn
  <2> DEFINE g == [Top EXCEPT !.i = Top.last_i, !.last_i = 0, !.open = Top.back,
                     !.astray = @ \/ Top.back_astray]
  <2>1. RunFrame(g) /\ g.where = "line"
    <3>1. Top.iflevel <= 0
      BY <1>2, <1>9 DEF Ret
    <3> QED
      BY <1>1, <3>1, RetFrame
  <2>2. Resume(g) /\ UNCHANGED signals
    BY <1>9 DEF Ret, signals
  <2> HIDE DEF g
  <2> QED
    BY <1>1, <2>1, <2>2, ResumeStep
<1>10. CASE Ret /\ ~HasReturn
  BY <1>1, <1>10, ResumeStep DEF Ret, signals
<1> QED
  BY <1>3, <1>4, <1>5, <1>6, <1>7, <1>8, <1>9, <1>10

(* Where an operation begins.                                              *)
LEMMA BeginStep ==
  ASSUME Stack, Handlers, Condition \/ Begin
  PROVE  Stack' /\ Handlers'
<1>1. RunFrame(Top) /\ Top.where = "line" /\ Running /\ Top.kind = "run"
  BY TopRun DEF Condition, Begin, Obeyed, Ordinary, AtLine, At
<1> DEFINE guarded == "unblock" \notin flags
           f == [Top EXCEPT !.where = "if", !.guarded = guarded]
           g == [Top EXCEPT !.where = "op", !.guarded = guarded]
<1>2. f.guarded = guarded /\ g.guarded = guarded
  BY <1>1 DEF RunFrame, Fields
<1>3. CASE Condition
  <2>1. calls' = <<f>> \o Tail(calls) /\ Lock /\ Top.iflevel = 0
    BY <1>3 DEF Condition
  <2>2. RunFrame(f)
    BY <1>1, <2>1, BegunFrame
  <2> HIDE DEF f
  <2> QED
    BY <1>1, <1>2, <2>1, <2>2, LockStep
<1>4. CASE Begin
  <2>1. calls' = <<g>> \o Tail(calls) /\ Lock
    BY <1>4 DEF Begin
  <2>2. RunFrame(g)
    BY <1>1, BegunFrame
  <2> HIDE DEF g
  <2> QED
    BY <1>1, <1>2, <2>1, <2>2, LockStep
<1> QED
  BY <1>3, <1>4

(* Whatever a command returns, the status is a number.                     *)
LEMMA Statuses ==
  /\ \A status \in Codes : status \in Int
  /\ \A r \in Outcome : /\ run_args(r) \div 256 \in Int
                        /\ sandbox(r) \in Int /\ sandbox(r) \div 256 \in Int
<1>1. \A n \in Codes \cup Signals : n \in Int
  BY ShellAssumption DEF ShellAssumption
<1>2. ASSUME NEW r \in Outcome
      PROVE  WaitStatus(r) \in Int /\ run_args(r) \in Int
  <2>1. r[2] \in Codes \cup Signals
    BY DEF Outcome
  <2> QED
    BY <1>1, <2>1 DEF WaitStatus, run_args
<1>3. \A r \in Outcome : sandbox(r) \in Int
  BY <1>2 DEF sandbox, ExitCode
<1> QED
  BY <1>1, <1>2, <1>3

(* An operation that runs nothing ends, well or with the program.          *)
LEMMA EndStep ==
  ASSUME Stack, Handlers,
         Other \/ Exec \/ RunSandbox \/ Sandboxed \/ SetValue \/ ExitMain
  PROVE  Stack' /\ Handlers'
<1>1. Doing /\ Running
  BY DEF Other, Exec, RunSandbox, Sandboxed, SetValue, ExitMain, Op, Doing
<1>2. ASSUME NEW status, Abort(status)
      PROVE  Stack' /\ Handlers'
  BY <1>1, <1>2, Unmoved DEF Abort, signals
<1>3. CASE Other
  BY <1>1, <1>2, <1>3, OperationEnds, Statuses DEF Other
<1>4. CASE Exec
  BY <1>1, <1>4, OperationEnds, Statuses DEF Exec
<1>5. CASE RunSandbox
  BY <1>1, <1>2, <1>5, OperationEnds, Statuses DEF RunSandbox
<1>6. CASE Sandboxed
  BY <1>1, <1>6, OperationEnds, Statuses DEF Sandboxed
<1>7. CASE SetValue
  BY <1>1, <1>7, OperationEnds DEF SetValue
<1>8. CASE ExitMain
  BY <1>1, <1>8, Unmoved DEF ExitMain, signals
<1> QED
  BY <1>3, <1>4, <1>5, <1>6, <1>7, <1>8

(* A run or a prompt within.                                               *)
LEMMA InnerStep ==
  ASSUME Stack, Handlers, Shell \/ OpenPrompt \/ \E line \in Typed : Type(line)
  PROVE  Stack' /\ Handlers'
<1>1. Running /\ Frames(calls) /\ Guarded(calls, sigint, sigint_signal)
  BY InvariantParts DEF Shell, OpenPrompt, Type, AtPrompt, Op, Doing, Running
<1>2. CASE Shell
  <2> DEFINE f == [Top EXCEPT !.nested = TRUE]
             s == <<f>> \o Tail(calls)
  <2>1. Top.kind = "run" /\ RunFrame(Top) /\ Top.where \in {"if", "op"}
    BY <1>2, TopRun DEF Shell, Op, Doing
  <2>2. RunFrame(f) /\ InOperation(f) /\ (Protected(f) <=> Protected(Top))
    BY <2>1 DEF RunFrame, Levels, Fields, InOperation, Protected
  <2> HIDE DEF f
  <2>3. IsStack(calls) /\ calls # <<>>
    BY <1>1 DEF Frames
  <2>4. Frames(s) /\ Head(s) = f
    BY <1>1, <2>2, FramesReplaced
  <2>5. Guarded(s, sigint, sigint_signal)
    <3>1. DOMAIN s = DOMAIN calls /\ s[1] = f /\ \A k \in DOMAIN calls : k # 1 => s[k] = calls[k]
      BY <2>3, Replaced
    <3>2. Top = calls[1] /\ InOperation(Top)
      BY <2>1, <2>3 DEF Top, IsStack, InOperation
    <3> HIDE DEF s
    <3>3. \A k \in DOMAIN s : (Protected(s[k]) <=> Protected(calls[k]))
                              /\ (InOperation(s[k]) <=> InOperation(calls[k]))
      BY <2>2, <3>1, <3>2
    <3> QED
      BY <1>1, <3>1, <3>3 DEF Guarded
  <2> HIDE DEF s
  <2>6. calls' = <<Run(source[Line[2]])>> \o s /\ sigint' = sigint /\ sigint_signal' = sigint_signal
    BY <1>2 DEF Shell, signals, s, f
  <2>7. RunFrame(Run(source[Line[2]])) /\ ~InOperation(Run(source[Line[2]]))
    BY NewFrame DEF InOperation
  <2> QED
    BY <1>1, <2>2, <2>4, <2>5, <2>6, <2>7, PushStep
<1>3. CASE OpenPrompt
  <2>1. InOperation(Head(calls))
    BY <1>3 DEF OpenPrompt, Op, Doing, InOperation, Top
  <2>2. Prompt.kind = "prompt" /\ ~InOperation(Prompt)
    BY DEF Prompt, InOperation
  <2>3. calls' = <<Prompt>> \o calls /\ sigint' = sigint /\ sigint_signal' = sigint_signal
    BY <1>3 DEF OpenPrompt, signals
  <2> QED
    BY <1>1, <2>1, <2>2, <2>3, PushStep
<1>4. ASSUME NEW line \in Typed, Type(line)
      PROVE  Stack' /\ Handlers'
  <2>1. Head(calls).kind = "prompt"
    BY <1>4 DEF Type, AtPrompt, Top
  <2>2. RunFrame(Run(<<line>>)) /\ ~InOperation(Run(<<line>>))
    BY NewFrame DEF InOperation
  <2>3. calls' = <<Run(<<line>>)>> \o calls /\ sigint' = sigint /\ sigint_signal' = sigint_signal
    BY <1>4 DEF Type, signals
  <2> QED
    BY <1>1, <2>1, <2>2, <2>3, PushStep
<1> QED
  BY <1>2, <1>3, <1>4

(* A run within is at its end.                                             *)
LEMMA OuterStep ==
  ASSUME Stack, Handlers, ScriptEnds \/ TypedEnds
  PROVE  Stack' /\ Handlers'
<1>1. Running /\ Frames(calls) /\ Guarded(calls, sigint, sigint_signal) /\ Len(calls) > 1
  BY InvariantParts DEF ScriptEnds, TypedEnds, RunEnded, At, Running
<1>2. IsStack(calls)
  BY <1>1 DEF Frames
<1>3. Guarded(Tail(calls), sigint, sigint_signal)
  BY <1>1, <1>2, GuardedPopped
<1>4. CASE ScriptEnds
  <2>1. Frames(Tail(calls)) /\ InOperation(Head(Tail(calls)))
    BY <1>1, <1>4, FramesPopped DEF ScriptEnds
  <2>2. Finish(Tail(calls), 0, errors)
    BY <1>4 DEF ScriptEnds
  <2> QED
    <3>1. exit = -1 /\ 0 \in Int
      BY <1>1 DEF Running
    <3> QED
      BY <1>3, <2>1, <2>2, <3>1, FinishStep
<1>5. CASE TypedEnds
  <2>1. calls' = Tail(calls) /\ sigint' = sigint /\ sigint_signal' = sigint_signal
    BY <1>5 DEF TypedEnds, signals
  <2>2. Frames(Tail(calls))
    BY <1>1, FramesPopped
  <2> QED
    BY <1>3, <2>1, <2>2, InvariantParts
<1> QED
  BY <1>4, <1>5

----------------------------------------------------------------------------
(* The invariant holds at first.                                           *)
LEMMA InitInvariant == Init => IInv
<1> SUFFICES ASSUME Init
    PROVE  IInv
  OBVIOUS
<1>1. calls = <<Run(proc)>> /\ exit = -1 /\ killed = FALSE
  BY DEF Init
<1>2. RunFrame(Run(proc)) /\ Run(proc).where = "line"
  BY NewFrame
<1> DEFINE f == Run(proc)
<1> HIDE DEF f
<1>3. calls \in Seq({f}) /\ DOMAIN calls = {1} /\ calls[1] = f /\ calls # <<>>
  BY <1>1 DEF f
<1>4. IsStack(calls)
  BY <1>3, Elements
<1>5. Frames(calls)
  BY <1>2, <1>3, <1>4 DEF Frames, f, RunFrame
<1>6. Guarded(calls, sigint, sigint_signal)
  BY <1>2, <1>3 DEF Guarded, Protected, InOperation, f
<1> QED
  BY <1>1, <1>5, <1>6, InvariantParts DEF IInv, OperationsNotInterrupted

(* Every step keeps it.                                                    *)
LEMMA StepInvariant == IInv /\ [Next]_vars => IInv'
<1> SUFFICES ASSUME IInv, [Next]_vars
    PROVE  IInv'
  OBVIOUS
<1>1. Stack /\ Handlers /\ OperationsNotInterrupted
  BY DEF IInv
<1>2. ASSUME Running, killed' = killed, Stack', Handlers'
      PROVE  IInv'
  BY <1>2 DEF Running, IInv, OperationsNotInterrupted
<1>3. ASSUME UNCHANGED <<calls, sigint, sigint_signal, exit, killed>>
      PROVE  IInv'
  <2>1. Stack'
    BY <1>1, <1>3, InvariantParts
  <2>2. Handlers'
    BY <1>1, <1>3, InvariantParts
  <2>3. OperationsNotInterrupted'
    BY <1>1, <1>3 DEF OperationsNotInterrupted, Runs
  <2> QED
    BY <2>1, <2>2, <2>3 DEF IInv
<1>4. CASE LabelLine \/ NestedIf \/ Endif \/ Skip \/ Goto \/ UndefinedLabel \/ Ret
  <2>1. Running /\ killed' = killed
    BY <1>4 DEF LabelLine, NestedIf, Endif, Skip, Goto, UndefinedLabel, Ret, Abort, Obeyed, Ordinary,
                AtLine, At
  <2> QED
    BY <1>1, <1>2, <1>4, <2>1, ControlStep
<1>5. CASE Condition \/ Begin
  <2>1. Running /\ killed' = killed
    BY <1>5 DEF Condition, Begin, Obeyed, Ordinary, AtLine, At
  <2> QED
    BY <1>1, <1>2, <1>5, <2>1, BeginStep
<1>6. CASE Other \/ Exec \/ RunSandbox \/ Sandboxed \/ SetValue \/ ExitMain
  <2>1. Running /\ killed' = killed
    BY <1>6 DEF Other, Exec, RunSandbox, Sandboxed, SetValue, ExitMain, Abort, Op, Doing
  <2> QED
    BY <1>1, <1>2, <1>6, <2>1, EndStep
<1>7. CASE Shell \/ OpenPrompt \/ \E line \in Typed : Type(line)
  <2>1. Running /\ killed' = killed
    BY <1>7 DEF Shell, OpenPrompt, Type, AtPrompt, Op, Doing
  <2> QED
    BY <1>1, <1>2, <1>7, <2>1, InnerStep
<1>8. CASE ScriptEnds \/ TypedEnds
  <2>1. Running /\ killed' = killed
    BY <1>8 DEF ScriptEnds, TypedEnds, RunEnded, At
  <2> QED
    BY <1>1, <1>2, <1>8, <2>1, OuterStep
<1>9. CASE UnexpectedEndif \/ MainEnds \/ EndOfInput
  <2>1. Running /\ killed' = killed /\ UNCHANGED <<calls, sigint, sigint_signal>>
    BY <1>9 DEF UnexpectedEndif, MainEnds, EndOfInput, Abort, Ordinary, AtLine, RunEnded, At, AtPrompt,
                signals
  <2> QED
    BY <1>1, <1>2, <2>1, Unmoved
<1>10. CASE Interrupt
  <2>1. /\ exit = -1 /\ sigint = "default"
        /\ UNCHANGED <<calls, sigint, sigint_signal>>
    BY <1>10 DEF Interrupt, Running, signals
  <2>2. Stack' /\ Handlers'
    BY <1>1, <1>10, <2>1, Unmoved DEF Interrupt
  <2>3. \A k \in DOMAIN calls : ~Protected(calls[k])
    BY <1>1, <2>1, InvariantParts DEF Guarded
  <2>4. OperationsNotInterrupted'
    BY <2>1, <2>3 DEF OperationsNotInterrupted, Runs, Protected, InOperation
  <2> QED
    BY <2>2, <2>4 DEF IInv
<1>11. CASE Ended \/ UNCHANGED vars
  BY <1>3, <1>11 DEF Ended, vars
<1> QED
  BY <1>4, <1>5, <1>6, <1>7, <1>8, <1>9, <1>10, <1>11 DEF Next, Step

(* The stack of runs is well formed, and the handlers protect it, always.  *)
THEOREM Invariance == Spec => []IInv
  BY InitInvariant, StepInvariant, PTL DEF Spec

(* The level of a run that is not astray is 0 exactly if all that is open  *)
(* is true.                                                                *)
LEMMA LevelsFollow == IInv => FollowsConditions
<1> SUFFICES ASSUME Stack, NEW k \in Runs, ~calls[k].astray
    PROVE  calls[k].iflevel = 0 <=> \A c \in DOMAIN calls[k].open : calls[k].open[c]
  BY DEF IInv, FollowsConditions
<1> DEFINE open == calls[k].open
           level == calls[k].iflevel
<1>1. Levels(calls[k])
  BY DEF Stack
<1>2. open \in Seq(BOOLEAN) /\ level \in 0 .. Len(open)
      /\ \A c \in DOMAIN open : open[c] <=> c <= Len(open) - level
  BY <1>1 DEF Levels
<1> HIDE DEF open, level
<1>3. DOMAIN open = 1 .. Len(open) /\ Len(open) \in Nat
  BY <1>2
<1>4. level # 0 => Len(open) \in DOMAIN open /\ ~open[Len(open)]
  BY <1>2, <1>3
<1>5. level = 0 => \A c \in DOMAIN open : open[c]
  BY <1>2, <1>3
<1> QED
  BY <1>4, <1>5 DEF open, level

(* ymp_run obeys its lines exactly where all enclosing conditions hold, as *)
(* long as no "if" that was taken has come to its endif.                   *)
THEOREM ConditionsFollowed == Spec => []FollowsConditions
  BY Invariance, LevelsFollow, PTL

(* Control-C never ends the program in an operation that was protected     *)
(* when it began, at any depth of scripts.                                 *)
THEOREM NeverInterrupted == Spec => []OperationsNotInterrupted
<1>1. IInv => OperationsNotInterrupted
  BY DEF IInv
<1> QED
  BY <1>1, Invariance, PTL

----------------------------------------------------------------------------
(* A failure that must be told is still among the errors, and nothing has  *)
(* told the program to forget them, until it ends.                         *)
HInv ==
  /\ exit = 0 /\ failed => KilledInSandbox
  /\ Running /\ failed => errors /\ ~Forgiving

(* What exit makes of a status below 256 that is not 0.                    *)
LEMMA CodesKept ==
  /\ \A status \in Codes \ {0} : ExitCode(status) # 0
  /\ ExitCode(2) # 0 /\ ExitCode(31) # 0
  /\ \A r \in Outcome : run_args(r) \div 256 = 0
  /\ \A r \in Outcome : LET status == sandbox(r) \div 256 IN
       status # 0 => ExitCode(status) # 0
<1>1. \A status \in Codes : status \in 0 .. 255
  BY ShellAssumption
<1>2. \A n \in Signals : n \in 1 .. 127
  BY ShellAssumption
<1>3. \A status \in 0 .. 255 : ExitCode(status) = status /\ status \div 256 = 0
  BY DEF ExitCode
<1>4. \A r \in Outcome : run_args(r) \in 0 .. 255
  BY <1>1 DEF Outcome, run_args
<1>5. ASSUME NEW r \in Outcome
      PROVE  sandbox(r) \div 256 \in 0 .. 255
  <2>1. WaitStatus(r) \in Nat
    BY <1>1, <1>2 DEF Outcome, WaitStatus
  <2>2. ExitCode(WaitStatus(r)) \in 0 .. 255
    BY <2>1 DEF ExitCode
  <2>3. \A n \in 0 .. 255 : (256 * n) \div 256 = n
    OBVIOUS
  <2> QED
    BY <2>2, <2>3 DEF sandbox
<1>6. 2 \in 0 .. 255 /\ 31 \in 0 .. 255
  OBVIOUS
<1> QED
  BY <1>1, <1>3, <1>4, <1>5, <1>6

(* The end of an operation: a failure is told at once, kept among the      *)
(* errors, or forgiven.                                                    *)
LEMMA FinishHonest ==
  ASSUME HInv, Running, NEW stack, NEW status \in Int, NEW errs,
         Finish(stack, status, errs), killed' = killed,
         status # 0 => flags' = flags /\ (ExitCode(status) # 0 \/ "sandbox" \in flags),
         errors => errs \/ Forgiving
  PROVE  HInv'
<1> DEFINE fails == Head(stack).where = "op" /\ status # 0
<1>1. failed' = (~Forgiving' /\ (failed \/ errs \/ fails))
  BY DEF Finish
<1>2. exit = -1
  BY DEF Running
<1>3. CASE fails /\ ~Forgiving
  <2>1. exit' = ExitCode(status) /\ flags' = flags /\ calls' = stack
    BY <1>3 DEF Finish
  <2>2. ExitCode(status) \in Nat
    BY DEF ExitCode
  <2>3. exit' = 0 => KilledInSandbox'
    BY <1>3, <2>1 DEF KilledInSandbox, Top
  <2>4. exit' # -1
    BY <2>1, <2>2
  <2> QED
    BY <2>3, <2>4 DEF HInv, Running
<1>4. CASE ~(fails /\ ~Forgiving)
  <2>1. errors' = (~fails /\ errs) /\ exit' = exit
    BY <1>4 DEF Finish
  <2>2. fails => Forgiving'
    BY <1>4 DEF Forgiving
  <2>3. failed => errs
    BY DEF HInv
  <2>4. failed' => ~Forgiving' /\ ~fails /\ errs
    BY <1>1, <2>2, <2>3
  <2>5. failed' => errors' /\ ~Forgiving'
    BY <2>1, <2>4
  <2>6. exit' # 0
    BY <1>2, <2>1
  <2> QED
    BY <2>5, <2>6 DEF HInv
<1> QED
  BY <1>3, <1>4

(* The program ends with another status than 0, or without a failure.      *)
LEMMA EndHonest ==
  ASSUME exit' \in 0 .. 255, exit' = 0 => ~failed'
  PROVE  HInv'
  BY DEF HInv, Running

(* A step that leaves failures and settings alone and forgets errors only  *)
(* when it may.                                                            *)
LEMMA SameHonest ==
  ASSUME HInv, UNCHANGED <<flags, exit, killed, failed>>, errors /\ ~Forgiving => errors',
         exit = -1 \/ calls' = calls
  PROVE  HInv'
  BY DEF HInv, Running, Forgiving, KilledInSandbox, Top

LEMMA StepHonest == HInv /\ IInv /\ [Next]_vars => HInv'
<1> SUFFICES ASSUME HInv, IInv, [Next]_vars PROVE HInv'
  OBVIOUS
<1>1. ASSUME NEW status \in (Codes \ {0}) \cup {2, 31}, Abort(status)
      PROVE  HInv'
  <2>1. ExitCode(status) # 0
    BY CodesKept
  <2>2. ExitCode(status) \in 0 .. 255
    BY ShellAssumption DEF ExitCode
  <2> QED
    BY <1>1, <2>1, <2>2, EndHonest DEF Abort
<1>2. CASE LabelLine \/ NestedIf \/ Condition \/ Endif \/ Skip \/ Shell \/ TypedEnds
           \/ \E line \in Typed : Type(line)
  <2>1. UNCHANGED <<flags, errors, exit, killed, failed>> /\ exit = -1
    BY <1>2 DEF LabelLine, NestedIf, Condition, Endif, Skip, Shell, TypedEnds, Type, inner,
         AtLine, At, Ordinary, Op, Doing, RunEnded, AtPrompt, Running
  <2> QED
    BY <2>1, SameHonest
<1>3. CASE UnexpectedEndif
  BY <1>1, <1>3 DEF UnexpectedEndif
<1>4. CASE Goto \/ Ret \/ Begin
  <2>1. Obeyed /\ Cleared /\ UNCHANGED <<flags, exit, killed, failed>> /\ exit = -1
    BY <1>4 DEF Goto, Ret, Begin, inner, Obeyed, Ordinary, AtLine, At, Running
  <2>2. Top.iflevel = 0 \/ Forgiving
    BY <2>1 DEF Obeyed
  <2>3. errors /\ ~Forgiving => errors'
    BY <2>1, <2>2 DEF Cleared
  <2> QED
    BY <2>1, <2>3, SameHonest
<1>5. CASE UndefinedLabel
  <2>1. CASE Abort(2)
    BY <1>1, <2>1
  <2>2. CASE ~Abort(2)
    <3>1. Forgiving /\ UNCHANGED <<flags, exit, killed, failed>> /\ exit = -1
      BY <1>5, <2>2 DEF UndefinedLabel, inner, Obeyed, Ordinary, AtLine, At, Running
    <3> QED
      BY <3>1, SameHonest
  <2> QED
    BY <2>1, <2>2
<1>6. CASE Other
  <2>1. CASE \E status \in Codes \ {0} : Abort(status)
    BY <1>1, <2>1
  <2>2. CASE UNCHANGED <<lists, inner, killed>> /\
             \E status \in Codes, errs \in {errors, TRUE, errors /\ ~Forgiving} :
               Finish(calls, status, errs)
    <3>1. PICK status \in Codes, errs \in {errors, TRUE, errors /\ ~Forgiving} :
            Finish(calls, status, errs)
      BY <2>2
    <3>2. status \in Int /\ (status # 0 => ExitCode(status) # 0)
      BY CodesKept, Statuses
    <3>3. flags' = flags /\ killed' = killed /\ Running
      BY <1>6, <2>2 DEF inner, Other, Op, Doing
    <3>4. errors => errs \/ Forgiving
      BY <3>1
    <3> QED
      BY <3>1, <3>2, <3>3, <3>4, FinishHonest
  <2> QED
    BY <1>6, <2>1, <2>2 DEF Other
<1>7. CASE Exec
  <2>1. PICK r \in Outcome :
          Finish(calls, run_args(r) \div 256,
                 errors \/ run_args(r) \div 256 # 0 \/ r[1] = "signal")
    BY <1>7 DEF Exec
  <2>2. run_args(r) \div 256 = 0 /\ 0 \in Int
    BY CodesKept
  <2>3. killed' = killed /\ Running
    BY <1>7 DEF Exec, Op, Doing
  <2> QED
    BY <2>1, <2>2, <2>3, FinishHonest
<1>8. CASE RunSandbox
  <2>1. CASE Abort(31)
    BY <1>1, <2>1
  <2>2. CASE ~Abort(31)
    <3>1. PICK r \in Outcome, errs \in {errors, errors /\ ~Forgiving} :
            Finish(calls, sandbox(r) \div 256, errs)
      BY <1>8, <2>2 DEF RunSandbox
    <3>2. sandbox(r) \div 256 \in Int
          /\ (sandbox(r) \div 256 # 0 => ExitCode(sandbox(r) \div 256) # 0)
      BY CodesKept, Statuses
    <3>3. flags' = flags /\ killed' = killed /\ Running
      BY <1>8, <2>2 DEF inner, RunSandbox, Op, Doing
    <3>4. errors => errs \/ Forgiving
      BY <3>1
    <3> QED
      BY <3>1, <3>2, <3>3, <3>4, FinishHonest
  <2> QED
    BY <2>1, <2>2
<1>9. CASE Sandboxed
  <2>1. PICK r \in Outcome : Finish(calls, sandbox(r), errors)
    BY <1>9 DEF Sandboxed
  <2>2. sandbox(r) \in Int
    BY Statuses
  <2>3. flags' = flags /\ killed' = killed /\ Running /\ "sandbox" \in flags
    BY <1>9 DEF inner, Sandboxed, Doing
  <2> QED
    BY <2>1, <2>2, <2>3, FinishHonest
<1>10. CASE SetValue \/ ScriptEnds
  <2>1. PICK stack : Finish(stack, 0, errors)
    BY <1>10 DEF SetValue, ScriptEnds
  <2>2. killed' = killed /\ Running /\ 0 \in Int
    BY <1>10 DEF SetValue, ScriptEnds, Op, Doing, RunEnded, At
  <2> QED
    BY <2>1, <2>2, FinishHonest
<1>11. CASE OpenPrompt \/ ExitMain \/ EndOfInput
  <2>1. failed' = FALSE
    BY <1>11 DEF OpenPrompt, ExitMain, EndOfInput
  <2> QED
    BY <2>1 DEF HInv
<1>12. CASE MainEnds
  <2>1. exit' = (IF errors /\ ~Forgiving THEN 1 ELSE 0) /\ failed' = failed /\ Running
    BY <1>12 DEF MainEnds, HasError, RunEnded, At
  <2>2. failed => errors /\ ~Forgiving
    BY <2>1 DEF HInv
  <2> QED
    BY <2>1, <2>2, EndHonest
<1>13. CASE Interrupt
  <2>1. killed' /\ UNCHANGED <<exit, failed>> /\ exit = -1
    BY <1>13 DEF Interrupt, Running
  <2> QED
    BY <2>1 DEF HInv, Running
<1>14. CASE Ended \/ UNCHANGED vars
  BY <1>14, SameHonest DEF Ended, vars
<1> QED
  BY <1>2, <1>3, <1>4, <1>5, <1>6, <1>7, <1>8, <1>9, <1>10, <1>11, <1>12, <1>13, <1>14
     DEF Next, Step

(* Status 0 hides no failure, at any depth of scripts and prompts, unless  *)
(* it was forgiven, a script chose the status, or the program ended with   *)
(* the status of an operation that a signal killed in the sandbox, which   *)
(* is a multiple of 256 (sandbox.c:104, 195; interpreter.vala:95-98).      *)
THEOREM HonestStatus == Spec => []ExitStatusIsHonest
<1>1. Init => HInv
  BY DEF Init, HInv
<1>2. HInv => ExitStatusIsHonest
  BY DEF HInv, ExitStatusIsHonest
<1> QED
  BY <1>1, <1>2, StepHonest, Invariance, PTL DEF Spec

----------------------------------------------------------------------------
(* A run's counter and marks lie in its script: labels at label lines, the *)
(* place to return to behind a goto.                                       *)
Sound(f) ==
  /\ IsScript(f.script)
  /\ f.i \in Nat \ {0} /\ f.last_i \in Nat
  /\ \A l \in DOMAIN f.labels :
       f.labels[l] \in Nat \ {0} /\ f.script[f.labels[l]] = <<"label", l>>
  /\ f.last_i > 0 => f.script[f.last_i][1] = "goto"

(* The list is the innermost run's, and the backup that of the run that has*)
(* called it, unless that run's own list has been saved over it by another *)
(* script it ran (nested).                                                 *)
Jumps(s, list, backup) ==
  /\ \A k \in DOMAIN s : s[k].kind = "run" => Sound(s[k])
  /\ \A k \in DOMAIN s : k + 1 \in DOMAIN s /\ s[k].kind = "run" /\ s[k + 1].kind = "run"
       => s[k + 1].nested
  /\ s[1].kind = "run" => list = s[1].script
  /\ 2 \in DOMAIN s /\ s[1].kind = "run" /\ s[2].kind = "run" /\ ~s[1].nested
       => backup = s[2].script

JInv == source \in Sources /\ (~lost => Jumps(calls, proc, proc_backup))

(* The run on top goes on in its script.                                   *)
LEMMA JumpsReplaced ==
  ASSUME NEW s, IsStack(s), s # <<>>, NEW list, NEW backup, Jumps(s, list, backup),
         NEW f, s[1].kind = "run", f.kind = "run", Sound(f), f.script = s[1].script,
         f.nested <=> s[1].nested
  PROVE  Jumps(<<f>> \o Tail(s), list, backup)
<1> DEFINE t == <<f>> \o Tail(s)
<1>1. DOMAIN t = DOMAIN s /\ t[1] = f /\ \A k \in DOMAIN s : k # 1 => t[k] = s[k]
  BY Replaced
<1>2. \A k \in DOMAIN s : k \in Nat \ {0} /\ k + 1 # 1
  BY DEF IsStack
<1> HIDE DEF t
<1>3. \A k \in DOMAIN t : t[k].kind = "run" => Sound(t[k])
  BY <1>1 DEF Jumps
<1>4. \A k \in DOMAIN t : k + 1 \in DOMAIN t /\ t[k].kind = "run" /\ t[k + 1].kind = "run"
        => t[k + 1].nested
  BY <1>1, <1>2 DEF Jumps
<1> QED
  BY <1>1, <1>3, <1>4 DEF Jumps, t

(* Something begins on top.                                                *)
LEMMA JumpsPushed ==
  ASSUME NEW s, IsStack(s), s # <<>>, NEW list, NEW backup, Jumps(s, list, backup), NEW f,
         f.kind = "run" => Sound(f),
         f.kind = "run" /\ s[1].kind = "run" => s[1].nested,
         NEW list1, f.kind = "run" => list1 = f.script,
         NEW backup1, f.kind = "run" /\ s[1].kind = "run" => backup1 = s[1].script
  PROVE  Jumps(<<f>> \o s, list1, backup1)
<1>1. PICK t :
         /\ t = <<f>> \o s
         /\ IsStack(t) /\ t # <<>> /\ DOMAIN t = 1 .. Len(s) + 1 /\ t[1] = f
         /\ DOMAIN s = 1 .. Len(s) /\ Len(s) \in Nat
         /\ \A k \in DOMAIN s : t[k + 1] = s[k]
  BY Pushed, ZenonT(30)
<1>2. \A k \in DOMAIN t : k = 1 \/ (k - 1 \in DOMAIN s /\ t[k] = s[k - 1])
  BY <1>1
<1>3. 1 \in DOMAIN s /\ t[2] = s[1]
  <2>1. 1 \in DOMAIN s
    BY DEF IsStack
  <2>2. 1 + 1 = 2
    OBVIOUS
  <2> QED
    BY <1>1, <2>1, <2>2
<1>4. \A k \in DOMAIN t : t[k].kind = "run" => Sound(t[k])
  BY <1>1, <1>2 DEF Jumps
<1>5. ASSUME NEW k \in DOMAIN t, k + 1 \in DOMAIN t, t[k].kind = "run", t[k + 1].kind = "run"
      PROVE  t[k + 1].nested
  <2>1. CASE k = 1
    BY <1>1, <1>3, <1>5, <2>1
  <2>2. CASE k # 1
    <3>1. k - 1 \in DOMAIN s /\ t[k] = s[k - 1] /\ k \in DOMAIN s /\ t[k + 1] = s[k]
      BY <1>1, <1>2, <1>5, <2>2
    <3>2. (k - 1) + 1 = k
      BY <1>1
    <3> QED
      BY <1>5, <3>1, <3>2 DEF Jumps
  <2> QED
    BY <2>1, <2>2
<1> QED
  BY <1>1, <1>3, <1>4, <1>5 DEF Jumps

(* The top ends; the list is restored if its backup is still the caller's. *)
LEMMA JumpsPopped ==
  ASSUME NEW s, IsStack(s), Len(s) > 1, NEW list, NEW backup, Jumps(s, list, backup),
         s[1].kind = "run",
         NEW list1, s[2].kind = "run" => ~s[1].nested /\ list1 = backup
  PROVE  Jumps(Tail(s), list1, backup)
<1> DEFINE t == Tail(s)
<1>1. /\ DOMAIN t = 1 .. Len(s) - 1 /\ DOMAIN s = 1 .. Len(s) /\ Len(s) \in Nat
      /\ \A k \in DOMAIN t : t[k] = s[k + 1]
  BY Popped
<1> HIDE DEF t
<1>2. \A k \in DOMAIN t : k + 1 \in DOMAIN s
  BY <1>1
<1>3. 1 \in DOMAIN t /\ 1 \in DOMAIN s /\ 2 \in DOMAIN s /\ 1 + 1 = 2
  BY <1>1
<1>4. t[1] = s[2]
  BY <1>1, <1>3
<1>5. \A k \in DOMAIN t : t[k].kind = "run" => Sound(t[k])
  BY <1>1, <1>2 DEF Jumps
<1>6. \A k \in DOMAIN t : k + 1 \in DOMAIN t /\ t[k].kind = "run" /\ t[k + 1].kind = "run"
        => t[k + 1].nested
  BY <1>1, <1>2 DEF Jumps
<1>7. t[1].kind = "run" => list1 = t[1].script
  BY <1>3, <1>4 DEF Jumps
<1>8. t[1].kind = "run" => t[1].nested
  BY <1>3, <1>4 DEF Jumps
<1> QED
  BY <1>5, <1>6, <1>7, <1>8 DEF Jumps, t

(* A label line marks itself, if its label is new.                         *)
LEMMA LabelSound ==
  ASSUME NEW f, RunFrame(f), Sound(f), NEW arg, f.script[f.i] = <<"label", arg>>
  PROVE  LET g == [f EXCEPT !.labels =
                     [l \in DOMAIN @ \cup {arg} |-> IF l \in DOMAIN @ THEN @[l] ELSE f.i]] IN
         Sound(g) /\ g.script = f.script /\ g.nested = f.nested /\ g.kind = "run"
<1> DEFINE marks == [l \in DOMAIN f.labels \cup {arg} |->
                       IF l \in DOMAIN f.labels THEN f.labels[l] ELSE f.i]
           g == [f EXCEPT !.labels = marks]
<1>1. \A l \in DOMAIN marks : marks[l] \in Nat \ {0} /\ f.script[marks[l]] = <<"label", l>>
  BY DEF Sound
<1> HIDE DEF marks
<1>2. g.labels = marks /\ g.script = f.script /\ g.i = f.i /\ g.last_i = f.last_i
      /\ g.nested = f.nested /\ g.kind = "run"
  BY DEF RunFrame, Fields
<1> HIDE DEF g
<1>3. Sound(g)
  BY <1>1, <1>2 DEF Sound
<1> QED
  BY <1>2, <1>3 DEF g, marks

(* The next line.                                                          *)
LEMMA NextSound ==
  ASSUME NEW f, f.kind = "run", DOMAIN f = Fields, Sound(f)
  PROVE  LET g == [f EXCEPT !.i = @ + 1] IN
         Sound(g) /\ g.script = f.script /\ g.nested = f.nested /\ g.kind = "run"
<1> DEFINE g == [f EXCEPT !.i = @ + 1]
<1>1. g.labels = f.labels /\ g.script = f.script /\ g.i = f.i + 1 /\ g.last_i = f.last_i
      /\ g.nested = f.nested /\ g.kind = "run"
  BY DEF Fields
<1> HIDE DEF g
<1>2. Sound(g)
  BY <1>1 DEF Sound
<1> QED
  BY <1>1, <1>2 DEF g

(* A frame of the same script whose marks are those of f, or a goto's.     *)
LEMMA AlikeSound ==
  ASSUME NEW f, Sound(f), NEW g, g.script = f.script, g.labels = f.labels,
         g.i = f.i \/ (g.i = f.last_i /\ f.last_i > 0) \/ g.i \in { f.labels[l] : l \in DOMAIN f.labels },
         g.last_i \in {f.last_i, 0} \/ (g.last_i = f.i /\ f.script[f.i][1] = "goto")
  PROVE  Sound(g)
  BY DEF Sound

(* A run that begins.                                                      *)
LEMMA BegunSound ==
  ASSUME NEW script, IsScript(script)
  PROVE  Sound(Run(script)) /\ Run(script).script = script /\ Run(script).kind = "run"
<1>1. DOMAIN <<>> = {}
  OBVIOUS
<1> QED
  BY <1>1 DEF Sound, Run

(* What is known of a run on top while no backup has been lost.            *)
LEMMA TopSound ==
  ASSUME IInv, JInv, ~lost, Top.kind = "run"
  PROVE  /\ IsStack(calls) /\ calls # <<>> /\ Top = calls[1] /\ 1 \in DOMAIN calls
         /\ RunFrame(Top) /\ DOMAIN Top = Fields /\ Sound(Top) /\ proc = Top.script
         /\ Jumps(calls, proc, proc_backup)
<1>1. IsStack(calls) /\ calls # <<>> /\ RunFrame(Top)
  BY TopRun DEF IInv
<1>2. Top = calls[1] /\ 1 \in DOMAIN calls
  BY <1>1 DEF Top, IsStack
<1>3. Jumps(calls, proc, proc_backup)
  BY DEF JInv
<1>4. Sound(Top) /\ proc = Top.script
  BY <1>2, <1>3 DEF Jumps
<1> QED
  BY <1>1, <1>2, <1>3, <1>4 DEF RunFrame

(* A step of a run within its script.                                      *)
LEMMA LineJumps ==
  ASSUME IInv, JInv, Top.kind = "run", UNCHANGED lists,
         NEW f, calls' = <<f>> \o Tail(calls),
         ~lost => /\ Sound(f) /\ f.kind = "run" /\ f.script = Top.script
                  /\ f.nested = Top.nested
  PROVE  JInv'
<1>1. ASSUME ~lost PROVE Jumps(calls', proc', proc_backup')
  <2>1. /\ IsStack(calls) /\ calls # <<>> /\ Top = calls[1]
        /\ Jumps(calls, proc, proc_backup)
    BY <1>1, TopSound
  <2>2. Jumps(<<f>> \o Tail(calls), proc, proc_backup)
    BY <1>1, <2>1, JumpsReplaced
  <2> QED
    BY <2>2 DEF lists
<1> QED
  BY <1>1 DEF JInv, lists

LEMMA ResumeJumps ==
  ASSUME IInv, JInv, Top.kind = "run", UNCHANGED lists, NEW f, Resume(f),
         ~lost => /\ Sound(f) /\ f.kind = "run" /\ DOMAIN f = Fields /\ f.script = Top.script
                  /\ f.nested = Top.nested
  PROVE  JInv'
<1> DEFINE g == [f EXCEPT !.i = @ + 1]
<1>1. calls' = <<g>> \o Tail(calls)
  BY DEF Resume
<1>2. ~lost => Sound(g) /\ g.script = f.script /\ g.nested = f.nested /\ g.kind = "run"
  BY NextSound
<1> HIDE DEF g
<1> QED
  BY <1>1, <1>2, LineJumps

(* A step that leaves the stack and the lists alone.                       *)
LEMMA StillJumps ==
  ASSUME JInv, UNCHANGED <<calls, source, proc, proc_backup, lost>>
  PROVE  JInv'
  BY DEF JInv

(* The lines that ymp_run itself understands.                              *)
LEMMA ControlJumps ==
  ASSUME IInv, JInv,
         LabelLine \/ NestedIf \/ Endif \/ Skip \/ Goto \/ UndefinedLabel \/ Ret
           \/ Condition \/ Begin
  PROVE  JInv'
<1>1. AtLine /\ Top.kind = "run"
  BY DEF LabelLine, NestedIf, Endif, Skip, Goto, UndefinedLabel, Ret, Condition, Begin, Obeyed,
         Ordinary, AtLine, At
<1>2. ~lost => /\ DOMAIN Top = Fields /\ Sound(Top) /\ proc = Top.script
               /\ Top.i \in 1 .. Len(proc) /\ Top.i \in DOMAIN proc
               /\ Top.script[Top.i] = <<Word, Arg>>
  <2> SUFFICES ASSUME ~lost
               PROVE  /\ DOMAIN Top = Fields /\ Sound(Top) /\ proc = Top.script
                      /\ Top.i \in 1 .. Len(proc) /\ Top.i \in DOMAIN proc
                      /\ Top.script[Top.i] = <<Word, Arg>>
    OBVIOUS
  <2>1. DOMAIN Top = Fields /\ Sound(Top) /\ proc = Top.script
    BY <1>1, TopSound
  <2>2. DOMAIN proc = 1 .. Len(proc) /\ Len(proc) \in Nat
    BY <2>1 DEF Sound, IsScript
  <2>3. Top.i \in 1 .. Len(proc)
    BY <1>1, <2>1, <2>2 DEF AtLine, Sound
  <2> QED
    BY <2>1, <2>2, <2>3 DEF Sound, IsScript, IsLine, Word, Arg
<1>3. ~lost => Word = Top.script[Top.i][1]
  BY <1>2 DEF Word
<1>4. CASE LabelLine
  <2> DEFINE g == [Top EXCEPT !.labels =
                     [l \in DOMAIN @ \cup {Arg} |-> IF l \in DOMAIN @ THEN @[l] ELSE Top.i]]
  <2>1. Resume(g) /\ UNCHANGED lists /\ Word = "label"
    BY <1>4 DEF LabelLine
  <2>2. ASSUME ~lost
        PROVE  Sound(g) /\ g.kind = "run" /\ g.script = Top.script /\ g.nested = Top.nested
    BY <1>1, <1>2, <2>1, <2>2, LabelSound, TopSound
  <2>3. DOMAIN g = DOMAIN Top
    OBVIOUS
  <2> HIDE DEF g
  <2> QED
    BY <1>1, <1>2, <2>1, <2>2, <2>3, ResumeJumps
<1>5. ASSUME NEW g, Resume(g), UNCHANGED lists,
             ~lost => /\ DOMAIN g = Fields /\ g.kind = "run" /\ g.script = Top.script
                      /\ g.labels = Top.labels /\ g.nested = Top.nested
                      /\ \/ g.i = Top.i \/ (g.i = Top.last_i /\ Top.last_i > 0)
                         \/ g.i \in { Top.labels[l] : l \in DOMAIN Top.labels }
                      /\ \/ g.last_i \in {Top.last_i, 0}
                         \/ (g.last_i = Top.i /\ Top.script[Top.i][1] = "goto")
      PROVE  JInv'
  <2>1. ~lost => Sound(g)
    BY <1>2, <1>5, AlikeSound
  <2> QED
    BY <1>1, <1>5, <2>1, ResumeJumps
<1>6. CASE NestedIf
  <2> DEFINE g == [Top EXCEPT !.iflevel = Deeper(@), !.open = Append(@, FALSE)]
  <2>1. Resume(g) /\ UNCHANGED lists
    BY <1>6 DEF NestedIf
  <2>2. ~lost => /\ DOMAIN g = Fields /\ g.kind = "run" /\ g.script = Top.script /\ g.i = Top.i
                 /\ g.labels = Top.labels /\ g.nested = Top.nested /\ g.last_i = Top.last_i
    BY <1>1, <1>2 DEF Fields
  <2> HIDE DEF g
  <2> QED
    BY <2>1, <2>2, <1>5
<1>7. CASE Endif
  <2> DEFINE open == Top.open
             less == IF open = <<>> THEN open ELSE SubSeq(open, 1, Len(open) - 1)
             lost_way == Top.astray \/ open = <<>> \/ open[Len(open)]
             g == [Top EXCEPT !.iflevel = @ - 1, !.open = less, !.astray = lost_way]
  <2>1. Resume(g) /\ UNCHANGED lists
    BY <1>7 DEF Endif
  <2> HIDE DEF less, lost_way
  <2>2. ~lost => /\ DOMAIN g = Fields /\ g.kind = "run" /\ g.script = Top.script /\ g.i = Top.i
                 /\ g.labels = Top.labels /\ g.nested = Top.nested /\ g.last_i = Top.last_i
    BY <1>1, <1>2 DEF Fields
  <2> HIDE DEF g
  <2> QED
    BY <2>1, <2>2, <1>5
<1>8. CASE Skip \/ (Ret /\ ~HasReturn)
  <2>1. Resume(Top) /\ UNCHANGED lists
    BY <1>8 DEF Skip, Ret
  <2> QED
    BY <1>1, <1>2, <2>1, <1>5
<1>9. CASE Goto
  <2> DEFINE g == [Top EXCEPT !.i = Top.labels[Arg], !.last_i = Top.i, !.iflevel = 0,
                     !.open = <<>>, !.astray = FALSE, !.back = Top.open,
                     !.back_astray = Top.astray]
  <2>1. Resume(g) /\ UNCHANGED lists /\ Word = "goto" /\ Arg \in DOMAIN Top.labels
    BY <1>9 DEF Goto
  <2>2. ~lost => /\ DOMAIN g = Fields /\ g.kind = "run" /\ g.script = Top.script
                 /\ g.i = Top.labels[Arg]
                 /\ g.labels = Top.labels /\ g.nested = Top.nested /\ g.last_i = Top.i
    BY <1>1, <1>2 DEF Fields
  <2> HIDE DEF g
  <2>3. Top.labels[Arg] \in { Top.labels[l] : l \in DOMAIN Top.labels }
    BY <2>1
  <2> QED
    BY <1>3, <2>1, <2>2, <2>3, <1>5
<1>10. CASE UndefinedLabel
  <2> DEFINE g == [Top EXCEPT !.last_i = Top.i, !.back = Top.open, !.back_astray = Top.astray]
  <2>1. CASE Abort(2)
    BY <2>1, StillJumps DEF Abort, lists
  <2>2. CASE ~Abort(2)
    <3>1. Resume(g) /\ UNCHANGED lists /\ Word = "goto"
      BY <1>10, <2>2 DEF UndefinedLabel
    <3>2. ~lost => /\ DOMAIN g = Fields /\ g.kind = "run" /\ g.script = Top.script /\ g.i = Top.i
                   /\ g.labels = Top.labels /\ g.nested = Top.nested /\ g.last_i = Top.i
      BY <1>1, <1>2 DEF Fields
    <3> HIDE DEF g
    <3> QED
      BY <1>3, <3>1, <3>2, <1>5
  <2> QED
    BY <2>1, <2>2
<1>11. CASE Ret /\ HasReturn
  <2> DEFINE g == [Top EXCEPT !.i = Top.last_i, !.last_i = 0, !.open = Top.back,
                     !.astray = @ \/ Top.back_astray]
  <2>1. Resume(g) /\ UNCHANGED lists /\ Top.last_i > 0
    BY <1>11 DEF Ret, HasReturn
  <2>2. ~lost => /\ DOMAIN g = Fields /\ g.kind = "run" /\ g.script = Top.script
                 /\ g.i = Top.last_i
                 /\ g.labels = Top.labels /\ g.nested = Top.nested /\ g.last_i = 0
    BY <1>1, <1>2 DEF Fields
  <2> HIDE DEF g
  <2> QED
    BY <2>1, <2>2, <1>5
<1>12. CASE Condition \/ Begin
  <2> DEFINE guarded == "unblock" \notin flags
  <2>1. PICK where \in {"if", "op"} :
          /\ calls' = <<[Top EXCEPT !.where = where, !.guarded = guarded]>> \o Tail(calls)
          /\ UNCHANGED lists
    BY <1>12 DEF Condition, Begin
  <2> DEFINE g == [Top EXCEPT !.where = where, !.guarded = guarded]
  <2>2. ~lost => /\ DOMAIN g = Fields /\ g.kind = "run" /\ g.script = Top.script /\ g.i = Top.i
                 /\ g.labels = Top.labels /\ g.nested = Top.nested /\ g.last_i = Top.last_i
    BY <1>1, <1>2 DEF Fields
  <2>3. calls' = <<g>> \o Tail(calls) /\ UNCHANGED lists
    BY <2>1
  <2> HIDE DEF g
  <2>4. ~lost => Sound(g)
    BY <1>2, <2>2, AlikeSound
  <2> QED
    BY <1>1, <2>2, <2>3, <2>4, LineJumps
<1> QED
  BY <1>4, <1>6, <1>7, <1>8, <1>9, <1>10, <1>11, <1>12

(* An operation ends on the stack it leaves.                               *)
LEMMA FinishJumps ==
  ASSUME NEW stack, IsStack(stack), stack # <<>>, RunFrame(stack[1]),
         Jumps(stack, proc', proc_backup'),
         NEW status, NEW errs, Finish(stack, status, errs)
  PROVE  Jumps(calls', proc', proc_backup')
<1> DEFINE f == stack[1]
           opened == IF f.where = "if" THEN Append(f.open, status = 0) ELSE f.open
           g == [f EXCEPT
             !.i = @ + 1,
             !.where = "line",
             !.iflevel = IF f.where = "if" /\ status # 0 THEN @ + 1 ELSE @,
             !.open = opened]
<1>1. Head(stack) = f /\ 1 \in DOMAIN stack
  BY DEF IsStack
<1>2. CASE calls' = stack
  BY <1>2
<1>3. CASE calls' # stack
  <2>1. calls' = <<g>> \o Tail(stack)
    BY <1>1, <1>3 DEF Finish
  <2>2. f.kind = "run" /\ DOMAIN f = Fields /\ Sound(f)
    BY <1>1 DEF RunFrame, Jumps
  <2> HIDE DEF opened
  <2>3. /\ g.kind = "run" /\ g.script = f.script /\ g.i = f.i + 1
        /\ g.labels = f.labels /\ g.nested = f.nested /\ g.last_i = f.last_i
    BY <2>2 DEF Fields
  <2> HIDE DEF g
  <2>4. Sound(g)
    BY <2>2, <2>3 DEF Sound
  <2> QED
    BY <2>1, <2>2, <2>3, <2>4, JumpsReplaced
<1> QED
  BY <1>2, <1>3

(* An operation that ran nothing ends.                                     *)
LEMMA EndJumps ==
  ASSUME IInv, JInv,
         Other \/ Exec \/ RunSandbox \/ Sandboxed \/ SetValue \/ ExitMain
  PROVE  JInv'
<1>1. Doing /\ Top.kind = "run" /\ UNCHANGED lists
  BY DEF Other, Exec, RunSandbox, Sandboxed, SetValue, ExitMain, Op, Doing, Abort
<1>2. CASE UNCHANGED calls
  BY <1>1, <1>2, StillJumps DEF lists
<1>3. CASE \E status, errs : Finish(calls, status, errs)
  <2>1. PICK status, errs : Finish(calls, status, errs)
    BY <1>3
  <2>2. ASSUME ~lost PROVE Jumps(calls', proc', proc_backup')
    <3>1. /\ IsStack(calls) /\ calls # <<>> /\ RunFrame(calls[1])
          /\ Jumps(calls, proc, proc_backup)
      BY <1>1, <2>2, TopSound
    <3>2. Jumps(calls, proc', proc_backup')
      BY <1>1, <3>1 DEF lists
    <3> QED
      BY <2>1, <3>1, <3>2, FinishJumps
  <2> QED
    BY <1>1, <2>2 DEF JInv, lists
<1>4. (\E status, errs : Finish(calls, status, errs)) \/ UNCHANGED calls
  BY DEF Other, Exec, RunSandbox, Sandboxed, SetValue, ExitMain, Abort
<1> QED
  BY <1>2, <1>3, <1>4

(* A run or a prompt within.                                               *)
LEMMA InnerJumps ==
  ASSUME IInv, JInv, Shell \/ OpenPrompt \/ \E line \in Typed : Type(line)
  PROVE  JInv'
<1>1. IsStack(calls) /\ calls # <<>> /\ Top = calls[1]
  BY InvariantParts DEF IInv, Frames, Top, IsStack
<1>2. CASE Shell
  <2> DEFINE script == source[Line[2]]
             f == [Top EXCEPT !.nested = TRUE]
             s == <<f>> \o Tail(calls)
  <2>1. /\ Line[2] \in DOMAIN source /\ proc_backup' = proc /\ proc' = script
        /\ calls' = <<Run(script)>> \o s /\ Top.kind = "run" /\ UNCHANGED <<source, lost>>
    BY <1>2 DEF Shell, Op, Doing
  <2>2. IsScript(script)
    BY <2>1, ShellAssumption DEF JInv
  <2>3. Sound(Run(script)) /\ Run(script).script = script /\ Run(script).kind = "run"
    BY <2>2, BegunSound
  <2> HIDE DEF script
  <2>4. ASSUME ~lost PROVE Jumps(calls', proc', proc_backup')
    <3>1. /\ RunFrame(Top) /\ DOMAIN Top = Fields /\ Sound(Top) /\ proc = Top.script
          /\ Jumps(calls, proc, proc_backup)
      BY <2>1, <2>4, TopSound
    <3>2. /\ f.kind = "run" /\ f.script = Top.script /\ f.i = Top.i /\ f.labels = Top.labels
          /\ f.last_i = Top.last_i /\ f.nested = TRUE
      BY <2>1, <3>1 DEF Fields
    <3> HIDE DEF f
    <3>3. Sound(f)
      BY <3>1, <3>2, AlikeSound
    <3>4. /\ IsStack(s) /\ s # <<>> /\ DOMAIN s = DOMAIN calls /\ s[1] = f
          /\ \A k \in DOMAIN calls : k # 1 => s[k] = calls[k]
      BY <1>1, Replaced
    <3>5. \A k \in DOMAIN calls : k \in Nat \ {0} /\ k + 1 # 1
      BY <1>1 DEF IsStack
    <3> HIDE DEF s
    <3>6. \A k \in DOMAIN s : s[k].kind = "run" => Sound(s[k])
      BY <3>1, <3>3, <3>4 DEF Jumps
    <3>7. \A k \in DOMAIN s : k + 1 \in DOMAIN s /\ s[k].kind = "run" /\ s[k + 1].kind = "run"
            => s[k + 1].nested
      BY <1>1, <2>1, <3>1, <3>4, <3>5 DEF Jumps
    <3>8. Jumps(s, proc, proc_backup)
      BY <3>1, <3>2, <3>4, <3>6, <3>7 DEF Jumps
    <3> QED
      BY <2>1, <2>3, <3>1, <3>2, <3>4, <3>8, JumpsPushed
  <2> QED
    BY <2>1, <2>4 DEF JInv
<1>3. CASE OpenPrompt
  <2>1. calls' = <<Prompt>> \o calls /\ UNCHANGED <<source, lost>>
    BY <1>3 DEF OpenPrompt
  <2>2. Prompt.kind # "run"
    BY DEF Prompt
  <2>3. ~lost => Jumps(calls', proc', proc_backup')
    BY <1>1, <2>1, <2>2, JumpsPushed DEF JInv
  <2> QED
    BY <2>1, <2>3 DEF JInv
<1>4. ASSUME NEW line \in Typed, Type(line) PROVE JInv'
  <2> DEFINE script == <<line>>
  <2>1. /\ calls' = <<Run(script)>> \o calls /\ proc' = script
        /\ UNCHANGED <<source, lost, proc_backup>> /\ calls[1].kind = "prompt"
    BY <1>1, <1>4 DEF Type, AtPrompt
  <2>2. IsScript(script)
    BY ShellAssumption DEF IsScript
  <2> HIDE DEF script
  <2>3. Sound(Run(script)) /\ Run(script).script = script /\ Run(script).kind = "run"
    BY <2>2, BegunSound
  <2>4. ~lost => Jumps(calls', proc', proc_backup')
    BY <1>1, <2>1, <2>3, JumpsPushed DEF JInv
  <2> QED
    BY <2>1, <2>4 DEF JInv
<1> QED
  BY <1>2, <1>3, <1>4

(* A run within is at its end.                                             *)
LEMMA OuterJumps ==
  ASSUME IInv, JInv, ScriptEnds \/ TypedEnds
  PROVE  JInv'
<1>1. /\ Len(calls) > 1 /\ Top.kind = "run" /\ Frames(calls) /\ IsStack(calls)
  BY InvariantParts DEF IInv, Frames, ScriptEnds, TypedEnds, RunEnded, At
<1>2. Top = calls[1]
  BY <1>1 DEF Top, IsStack
<1>3. /\ Frames(Tail(calls)) /\ Head(Tail(calls)) = calls[2]
      /\ calls[2].kind = "run" => RunFrame(calls[2])
  BY <1>1, FramesPopped
<1>4. CASE ScriptEnds
  <2>1. /\ proc' = proc_backup /\ lost' = (lost \/ Top.nested) /\ calls[2].kind = "run"
        /\ UNCHANGED <<source, proc_backup>> /\ Finish(Tail(calls), 0, errors)
    BY <1>4 DEF ScriptEnds, Restored
  <2>2. ASSUME ~lost' PROVE Jumps(calls', proc', proc_backup')
    <3>1. ~lost /\ ~Top.nested
      BY <2>1, <2>2
    <3>2. Jumps(calls, proc, proc_backup)
      BY <3>1 DEF JInv
    <3>3. Jumps(Tail(calls), proc', proc_backup')
      BY <1>1, <1>2, <2>1, <3>1, <3>2, JumpsPopped
    <3>4. IsStack(Tail(calls)) /\ Tail(calls) # <<>>
      BY <1>3 DEF Frames
    <3>5. Tail(calls)[1] = calls[2]
      BY <1>3, <3>4 DEF IsStack
    <3> QED
      BY <1>3, <2>1, <3>3, <3>4, <3>5, FinishJumps
  <2> QED
    BY <2>1, <2>2 DEF JInv
<1>5. CASE TypedEnds
  <2>1. /\ calls' = Tail(calls) /\ calls[2].kind = "prompt"
        /\ UNCHANGED <<source, proc_backup, lost>>
    BY <1>5 DEF TypedEnds
  <2>2. ~lost => Jumps(calls', proc', proc_backup')
    BY <1>1, <1>2, <2>1, JumpsPopped DEF JInv
  <2> QED
    BY <2>1, <2>2 DEF JInv
<1> QED
  BY <1>4, <1>5

LEMMA StepJumps == IInv /\ JInv /\ [Next]_vars => JInv'
<1> SUFFICES ASSUME IInv, JInv, [Next]_vars PROVE JInv'
  OBVIOUS
<1>1. CASE UnexpectedEndif \/ MainEnds \/ EndOfInput \/ Interrupt \/ Ended \/ UNCHANGED vars
  <2>1. UNCHANGED <<calls, source, proc, proc_backup, lost>>
    BY <1>1 DEF UnexpectedEndif, MainEnds, EndOfInput, Interrupt, Ended, Abort, lists, vars
  <2> QED
    BY <2>1, StillJumps
<1> QED
  BY <1>1, ControlJumps, EndJumps, InnerJumps, OuterJumps DEF Next, Step

(* A run works on its own list and jumps only to label lines of it and     *)
(* behind its gotos, at any depth of scripts and prompts, as long as no    *)
(* script that ran a script has ended.                                     *)
THEOREM JumpsKept == Spec => []JumpsStayInScript
<1>1. Init => JInv
  <2> SUFFICES ASSUME Init PROVE JInv
    OBVIOUS
  <2>1. PICK line \in Starts : proc = <<line>>
    BY DEF Init
  <2>2. source \in Sources /\ calls = <<Run(proc)>>
    BY DEF Init
  <2>3. IsScript(proc)
    BY <2>1, ShellAssumption DEF IsScript
  <2>4. Sound(Run(proc)) /\ Run(proc).script = proc
    BY <2>3, BegunSound
  <2> DEFINE f == Run(proc)
  <2> HIDE DEF f
  <2>5. DOMAIN calls = {1} /\ calls[1] = f
    BY <2>2 DEF f
  <2>6. Jumps(calls, proc, proc_backup)
    BY <2>4, <2>5 DEF Jumps, f
  <2> QED
    BY <2>2, <2>6 DEF JInv
<1>2. IInv /\ JInv => JumpsStayInScript
  <2> SUFFICES ASSUME IInv, JInv, ~lost, Top.kind = "run"
               PROVE  /\ proc = Top.script
                      /\ \A l \in DOMAIN Top.labels : proc[Top.labels[l]] = <<"label", l>>
                      /\ Top.last_i > 0 => proc[Top.last_i][1] = "goto"
    BY DEF JumpsStayInScript
  <2> QED
    BY TopSound DEF Sound
<1> QED
  BY <1>1, <1>2, StepJumps, Invariance, PTL DEF Spec
=============================================================================
