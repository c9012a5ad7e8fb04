------------------------ MODULE ExceptionUnwindProofs ------------------------
(***************************************************************************)
(* Theorems about ExceptionUnwind, for every set of classes, all lists of  *)
(* clauses and every depth of calls and @try statements.                   *)
(***************************************************************************)
EXTENDS ExceptionUnwind, SequenceTheorems, TLAPS

\* A stack whose top is changed.
LEMMA SetShape ==
    ASSUME NEW S, NEW s \in Seq(S), s # <<>>, NEW e \in S
    PROVE  LET r == [s EXCEPT ![Len(s)] = e]
           IN  /\ r \in Seq(S) /\ Len(r) = Len(s) /\ DOMAIN r = 1 .. Len(s)
               /\ \A i \in 1 .. Len(s) - 1 : r[i] = s[i]
               /\ r[Len(s)] = e
OBVIOUS

\* The lower part of a sequence: a stack that is popped.
LEMMA CutShape ==
    ASSUME NEW S, NEW s \in Seq(S), NEW n \in 0 .. Len(s)
    PROVE  LET r == SubSeq(s, 1, n)
           IN  /\ r \in Seq(S) /\ Len(r) = n /\ DOMAIN r = 1 .. n
               /\ \A i \in 1 .. n : r[i] = s[i]
OBVIOUS

\* What is above position n goes, and e takes its place.
LEMMA LandShape ==
    ASSUME NEW S, NEW s \in Seq(S), NEW n \in DOMAIN s, NEW e \in S
    PROVE  LET r == Append(SubSeq(s, 1, n - 1), e)
           IN  /\ r \in Seq(S) /\ Len(r) = n /\ DOMAIN r = 1 .. n
               /\ \A i \in 1 .. n - 1 : r[i] = s[i]
               /\ r[n] = e
<1>1. n \in 1 .. Len(s) /\ n - 1 \in 0 .. Len(s)
  OBVIOUS
<1>2. /\ SubSeq(s, 1, n - 1) \in Seq(S) /\ Len(SubSeq(s, 1, n - 1)) = n - 1
      /\ \A i \in 1 .. n - 1 : SubSeq(s, 1, n - 1)[i] = s[i]
  BY <1>1, CutShape
<1> QED
  BY <1>1, <1>2, AppendProperties

-----------------------------------------------------------------------------
(* Frames, and what a step makes of the stack.                               *)

LEMMA Stack ==
    ASSUME TypeOK
    PROVE  /\ stack \in Seq(Frame) /\ Depth \in Nat /\ DOMAIN stack = 1 .. Depth
           /\ Len(stack) = Depth
           /\ stack # <<>> => Depth \in DOMAIN stack /\ Depth - 1 \in Nat
           /\ \A i \in DOMAIN stack : i \in Nat \ {0} /\ stack[i] \in Frame
<1>1. stack \in Seq(Frame)
  BY DEF TypeOK
<1> QED
  BY ONLY <1>1 DEF Depth

LEMMA Fields ==
    ASSUME NEW f \in Frame
    PROVE  /\ f.at \in Place /\ f.saved \in Nat \cup {NoBuf, Dangling} /\ f.state \in 0 .. 2
           /\ f.catches \in Catches \cup {<<>>} /\ f.arm \in Nat \ {0}
           /\ f.finally \in BOOLEAN /\ f.local \in {"none", "set", "lost"}
           /\ f.tracked \in BOOLEAN
           /\ f.byArc \in 0 .. MaxReleases /\ f.byShadow \in 0 .. 1
           /\ f.tracked => f.local # "none" /\ f.byArc = 0
           /\ f.byArc > 0 => f.local # "none"
BY DEF Frame

-----------------------------------------------------------------------------
(* Types.                                                                    *)

LEMMA NewFrameType ==
    ASSUME TypeOK, NEW at \in Place, NEW catches \in Catches \cup {<<>>}, NEW finally \in BOOLEAN
    PROVE  /\ NewFrame(at, catches, finally) \in Frame
           /\ NewFrame(at, catches, finally).at = at
           /\ NewFrame(at, catches, finally).state = 0
           /\ NewFrame(at, catches, finally).saved = buf
           /\ NewFrame(at, catches, finally).catches = catches
           /\ NewFrame(at, catches, finally).finally = finally
BY BoundsAreNat DEF TypeOK, NewFrame, Frame

\* The frames s are those of the stack, except for ARC's releases.
SameFrames(s) ==
    /\ s \in Seq(Frame) /\ DOMAIN s = DOMAIN stack
    /\ \A i \in DOMAIN stack :
          /\ s[i].at = stack[i].at /\ s[i].saved = stack[i].saved /\ s[i].state = stack[i].state
          /\ s[i].catches = stack[i].catches /\ s[i].finally = stack[i].finally
          /\ s[i].local = stack[i].local /\ s[i].byShadow = stack[i].byShadow

LEMMA StackIsSame == TypeOK => SameFrames(stack)
BY Stack DEF SameFrames

Released(f, times, owned) == [f EXCEPT !.byArc = @ + times, !.tracked = @ /\ ~owned]

\* What ARC releases before a throw it does not track afterwards.
LEMMA ReleasedFrame ==
    ASSUME NEW f \in Frame, NEW times \in {0, 1}, NEW owned \in BOOLEAN,
           times = 1 => owned /\ f.byArc < MaxReleases /\ f.local # "none"
    PROVE  LET g == Released(f, times, owned)
           IN  /\ g \in Frame /\ g.at = f.at /\ g.saved = f.saved /\ g.state = f.state
               /\ g.catches = f.catches /\ g.finally = f.finally
               /\ g.local = f.local /\ g.byShadow = f.byShadow
<1> DEFINE x == f.byArc + times
           t == f.tracked /\ ~owned
           g == [f EXCEPT !.byArc = x, !.tracked = t]
<1>1. x \in 0 .. MaxReleases /\ t \in BOOLEAN
  BY Fields, BoundsAreNat
<1>2. (t => f.local # "none" /\ x = 0) /\ (x > 0 => f.local # "none")
  BY Fields
<1> HIDE DEF x, t
<1>3. /\ g \in Frame /\ g.at = f.at /\ g.saved = f.saved /\ g.state = f.state
      /\ g.catches = f.catches /\ g.finally = f.finally
      /\ g.local = f.local /\ g.byShadow = f.byShadow
  BY <1>1, <1>2 DEF Frame
<1> QED
  BY <1>3 DEF x, t, Released

\* ARC's releases before a throw change nothing else.
LEMMA ReleasedFrames ==
    ASSUME TypeOK, NEW released \in SUBSET Releasable
    PROVE  SameFrames(ReleasedByThrow(released))
<1> DEFINE r == ReleasedByThrow(released)
<1>1. DOMAIN r = DOMAIN stack
  BY DEF ReleasedByThrow
<1>2. ASSUME NEW i \in DOMAIN stack
      PROVE  /\ r[i] \in Frame
             /\ r[i].at = stack[i].at /\ r[i].saved = stack[i].saved /\ r[i].state = stack[i].state
             /\ r[i].catches = stack[i].catches /\ r[i].finally = stack[i].finally
             /\ r[i].local = stack[i].local /\ r[i].byShadow = stack[i].byShadow
  <2> DEFINE times == IF i \in released THEN 1 ELSE 0
             owned == i \in Owning
  <2>1. stack[i] \in Frame
    BY Stack
  <2>2. times \in {0, 1} /\ owned \in BOOLEAN
    OBVIOUS
  <2>3. times = 1 => owned /\ stack[i].byArc < MaxReleases /\ stack[i].local # "none"
    BY DEF Releasable, Owning
  <2>4. r[i] = [stack[i] EXCEPT !.byArc = IF i \in released THEN @ + 1 ELSE @,
                                !.tracked = @ /\ ~owned]
    BY DEF ReleasedByThrow
  <2>5. (IF i \in released THEN stack[i].byArc + 1 ELSE stack[i].byArc) = stack[i].byArc + times
    BY <2>1, Fields
  <2>6. r[i] = Released(stack[i], times, owned)
    BY <2>4, <2>5 DEF Released
  <2> HIDE DEF times, owned, r
  <2> QED
    BY <2>1, <2>2, <2>3, <2>6, ReleasedFrame
<1>3. r = [i \in DOMAIN stack |-> r[i]]
  BY DEF ReleasedByThrow
<1> HIDE DEF r
<1>4. r \in Seq(Frame)
  <2>1. Len(stack) \in Nat /\ DOMAIN stack = 1 .. Len(stack)
    BY Stack DEF Depth
  <2>2. r \in [1 .. Len(stack) -> Frame]
    BY <1>2, <1>3, <2>1
  <2> QED
    BY <2>1, <2>2
<1> QED
  BY <1>1, <1>2, <1>4 DEF r, SameFrames

\* What a longjmp does that finds its frame.
Lands(s) ==
    /\ buf \in DOMAIN stack /\ UNCHANGED <<buf, dead>>
    /\ stack' \in Seq(Frame) /\ Len(stack') = buf /\ DOMAIN stack' = 1 .. buf
    /\ \A i \in 1 .. buf - 1 : stack'[i] = s[i]
    /\ stack'[buf].at = "test" /\ stack'[buf].state = 1 /\ stack'[buf].arm = 1
    /\ stack'[buf].saved = s[buf].saved /\ stack'[buf].catches = s[buf].catches
    /\ stack'[buf].finally = s[buf].finally

\* b agrees with a in what the properties look at.
Agree(a, b) ==
    a.saved = b.saved /\ a.catches = b.catches /\ a.finally = b.finally

LEMMA LandedFrame ==
    ASSUME NEW f \in Frame, NEW shadow \in {"none", "set", "lost"},
           shadow = "none" <=> f.local = "none"
    PROVE  LET g == Landed(f, shadow)
           IN  /\ g \in Frame /\ g.at = "test" /\ g.state = 1 /\ g.arm = 1 /\ g.saved = f.saved
               /\ g.catches = f.catches /\ g.finally = f.finally
<1>1. "test" \in Place /\ 1 \in 0 .. 2 /\ 1 \in Nat \ {0}
  BY DEF Place
<1> QED
  BY <1>1 DEF Frame, Landed

LEMMA LongjmpLands ==
    ASSUME TypeOK, NEW s \in Seq(Frame), DOMAIN s = DOMAIN stack, Longjmp(s)
    PROVE  \/ buf \in DOMAIN stack /\ Lands(s)
           \/ buf \notin DOMAIN stack /\ dead' = TRUE /\ UNCHANGED <<stack, buf>>
<1>1. CASE buf \notin DOMAIN stack
  BY <1>1 DEF Longjmp
<1>2. CASE buf \in DOMAIN stack
  <2>1. PICK shadow \in {s[buf].local} \cup (IF s[buf].local = "none" THEN {} ELSE {"lost"}) :
           stack' = Append(SubSeq(s, 1, buf - 1), Landed(s[buf], shadow))
    BY <1>2 DEF Longjmp
  <2>2. UNCHANGED <<buf, dead>>
    BY <1>2 DEF Longjmp
  <2>3. s[buf] \in Frame
    BY <1>2
  <2>4. shadow \in {"none", "set", "lost"} /\ (shadow = "none" <=> s[buf].local = "none")
    BY <2>1, <2>3, Fields
  <2> DEFINE f == Landed(s[buf], shadow)
  <2>5. /\ f \in Frame /\ f.at = "test" /\ f.state = 1 /\ f.arm = 1 /\ f.saved = s[buf].saved
        /\ f.catches = s[buf].catches /\ f.finally = s[buf].finally
    BY <2>3, <2>4, LandedFrame
  <2>6. stack' = Append(SubSeq(s, 1, buf - 1), f)
    BY <2>1
  <2> HIDE DEF f
  <2>7. /\ stack' \in Seq(Frame) /\ Len(stack') = buf /\ DOMAIN stack' = 1 .. buf
        /\ \A i \in 1 .. buf - 1 : stack'[i] = s[i]
        /\ stack'[buf] = f
    BY <1>2, <2>5, <2>6, LandShape
  <2> QED
    BY <1>2, <2>2, <2>5, <2>7 DEF Lands
<1> QED
  BY <1>1, <1>2

-----------------------------------------------------------------------------
(* What each step does to the frame on top.                                  *)

TopBecomes(f) ==
    /\ stack # <<>> /\ f \in Frame
    /\ stack' \in Seq(Frame) /\ Len(stack') = Depth /\ DOMAIN stack' = 1 .. Depth
    /\ \A i \in 1 .. Depth - 1 : stack'[i] = stack[i]
    /\ stack'[Depth] = f

LEMMA SetTopShape ==
    ASSUME TypeOK, stack # <<>>, NEW f \in Frame, SetTop(f)
    PROVE  TopBecomes(f)
<1>1. stack \in Seq(Frame) /\ stack' = [stack EXCEPT ![Len(stack)] = f]
  BY Stack DEF SetTop, Depth
<1>2. /\ stack' \in Seq(Frame) /\ Len(stack') = Len(stack) /\ DOMAIN stack' = 1 .. Len(stack)
      /\ \A i \in 1 .. Len(stack) - 1 : stack'[i] = stack[i]
      /\ stack'[Len(stack)] = f
  BY <1>1, SetShape
<1> QED
  BY <1>2 DEF TopBecomes, Depth

\* A step of the block on top keeps what the statement saved and its clauses.
TopTurns(at, state) ==
    /\ TopBecomes(stack'[Depth]) /\ Agree(stack'[Depth], Top)
    /\ stack'[Depth].at = at /\ stack'[Depth].state = state

LEMMA TopFrame ==
    ASSUME TypeOK, stack # <<>>
    PROVE  /\ Top \in Frame /\ Depth \in DOMAIN stack /\ Depth \in Nat \ {0}
           /\ Top.at \in Place /\ Top.state \in 0 .. 2 /\ Top.arm \in Nat \ {0}
           /\ Top.local \in {"none", "set", "lost"}
           /\ Top.arm + 1 \in Nat \ {0}
<1>1. Depth \in DOMAIN stack /\ Depth \in Nat \ {0} /\ stack[Depth] \in Frame
  BY Stack
<1>2. Top \in Frame /\ Depth \in DOMAIN stack /\ Depth \in Nat \ {0}
  BY <1>1 DEF Top
<1> QED
  BY <1>2, Fields

LEMMA DeclareLocalStep ==
    ASSUME TypeOK, DeclareLocal
    PROVE  TopTurns("body", Top.state) /\ stack'[Depth].arm = Top.arm /\ UNCHANGED <<buf, value, dead>>
<1>1. stack # <<>> /\ Top.at = "body" /\ UNCHANGED <<buf, value, dead>>
  BY DEF DeclareLocal, TopIs
<1>0. PICK shadow \in {"set", "lost"} : SetTop([Top EXCEPT !.local = shadow, !.tracked = TRUE])
  BY DEF DeclareLocal
<1> DEFINE f == [Top EXCEPT !.local = shadow, !.tracked = TRUE]
<1>2. f \in Frame /\ Agree(f, Top) /\ f.at = Top.at /\ f.state = Top.state /\ f.arm = Top.arm
  <2>1. Top \in Frame /\ shadow \in {"none", "set", "lost"} /\ TRUE \in BOOLEAN
    BY <1>1, TopFrame
  <2>2. Top.byArc = 0
    BY <2>1, Fields DEF DeclareLocal
  <2> QED
    BY <2>1, <2>2 DEF Frame, Agree
<1>3. SetTop(f)
  BY <1>0
<1> HIDE DEF f
<1>4. TopBecomes(f)
  BY <1>1, <1>2, <1>3, SetTopShape
<1> QED
  BY <1>1, <1>2, <1>4 DEF TopTurns, TopBecomes

LEMMA BodyEndStep ==
    ASSUME TypeOK, BodyEnd
    PROVE  /\ Top.at = "body" /\ TopTurns("test", Top.state) /\ stack'[Depth].arm = Top.arm
           /\ UNCHANGED <<buf, value, dead>>
<1>1. stack # <<>> /\ Top.at = "body" /\ UNCHANGED <<buf, value, dead>>
  BY DEF BodyEnd, TopIs
<1>0. PICK times \in (IF Top.tracked THEN {0, 1} ELSE {0}) :
           SetTop([Top EXCEPT !.at = "test", !.tracked = FALSE, !.byArc = @ + times])
  BY DEF BodyEnd
<1> DEFINE h == Top.byArc + times
           f == [Top EXCEPT !.at = "test", !.tracked = FALSE, !.byArc = h]
<1>2. f \in Frame /\ Agree(f, Top) /\ f.at = "test" /\ f.state = Top.state /\ f.arm = Top.arm
  <2>0. Top \in Frame /\ times \in {0, 1} /\ (times = 1 => Top.tracked)
    BY <1>0, <1>1, TopFrame
  <2>1. Top \in Frame /\ h \in 0 .. MaxReleases
    BY <2>0, Fields, BoundsAreNat
  <2>2. h > 0 => Top.local # "none"
    BY <2>0, Fields
  <2>3. "test" \in Place /\ FALSE \in BOOLEAN
    BY DEF Place
  <2> HIDE DEF h
  <2> QED
    BY <2>1, <2>2, <2>3 DEF Frame, Agree
<1>3. SetTop(f)
  BY <1>0
<1> HIDE DEF f
<1>4. TopBecomes(f)
  BY <1>1, <1>2, <1>3, SetTopShape
<1> QED
  BY <1>1, <1>2, <1>4 DEF TopTurns, TopBecomes

LEMMA HandlerEndStep ==
    ASSUME TypeOK, HandlerEnd
    PROVE  Top.at = "handler" /\ TopTurns("test", Top.state) /\ UNCHANGED <<buf, value, dead>>
<1>1. stack # <<>> /\ Top.at = "handler" /\ UNCHANGED <<buf, value, dead>>
  BY DEF HandlerEnd, TopIs
<1> DEFINE f == [Top EXCEPT !.at = "test", !.arm = @ + 1]
<1>2. f \in Frame /\ Agree(f, Top) /\ f.at = "test" /\ f.state = Top.state
  <2>1. Top \in Frame /\ Top.arm + 1 \in Nat \ {0}
    BY <1>1, TopFrame
  <2>2. "test" \in Place /\ 0 \in 0 .. 2 /\ 0 \in 0 .. 1 /\ "set" \in {"none", "set", "lost"}
    BY DEF Place
  <2> QED
    BY <2>1, <2>2 DEF Frame, Agree
<1>3. SetTop(f)
  BY DEF HandlerEnd
<1> HIDE DEF f
<1>4. TopBecomes(f)
  BY <1>1, <1>2, <1>3, SetTopShape
<1> QED
  BY <1>1, <1>2, <1>4 DEF TopTurns, TopBecomes

LEMMA FinallyEndStep ==
    ASSUME TypeOK, FinallyEnd
    PROVE  Top.at = "finally" /\ TopTurns("drop", Top.state) /\ UNCHANGED <<buf, value, dead>>
<1>1. stack # <<>> /\ Top.at = "finally" /\ UNCHANGED <<buf, value, dead>>
  BY DEF FinallyEnd, TopIs
<1> DEFINE f == [Top EXCEPT !.at = "drop"]
<1>2. f \in Frame /\ Agree(f, Top) /\ f.at = "drop" /\ f.state = Top.state
  <2>1. Top \in Frame
    BY <1>1, TopFrame
  <2>2. "drop" \in Place /\ 0 \in 0 .. 2 /\ 1 \in Nat \ {0} /\ 0 \in 0 .. 1 /\ "set" \in {"none", "set", "lost"}
    BY DEF Place
  <2> QED
    BY <2>1, <2>2 DEF Frame, Agree
<1>3. SetTop(f)
  BY DEF FinallyEnd
<1> HIDE DEF f
<1>4. TopBecomes(f)
  BY <1>1, <1>2, <1>3, SetTopShape
<1> QED
  BY <1>1, <1>2, <1>4 DEF TopTurns, TopBecomes

LEMMA RestoreStep ==
    ASSUME TypeOK, Restore
    PROVE  /\ Top.at = "test" /\ Top.arm \notin DOMAIN Top.catches
           /\ TopTurns(IF Top.finally THEN "finally" ELSE "drop", Top.state)
           /\ buf' = Top.saved /\ UNCHANGED <<value, dead>>
<1>1. /\ stack # <<>> /\ Top.at = "test" /\ Top.arm \notin DOMAIN Top.catches
      /\ buf' = Top.saved /\ UNCHANGED <<value, dead>>
  BY DEF Restore, TopIs
<1> DEFINE a == IF Top.finally THEN "finally" ELSE "drop"
           f == [Top EXCEPT !.at = a]
<1>2. f \in Frame /\ Agree(f, Top) /\ f.at = a /\ f.state = Top.state
  <2>1. Top \in Frame
    BY <1>1, TopFrame
  <2>2. a \in Place /\ 0 \in 0 .. 2 /\ 1 \in Nat \ {0} /\ 0 \in 0 .. 1 /\ "set" \in {"none", "set", "lost"}
    BY DEF Place
  <2> HIDE DEF a
  <2> QED
    BY <2>1, <2>2 DEF Frame, Agree
<1>3. SetTop(f)
  BY DEF Restore
<1> HIDE DEF f
<1>4. TopBecomes(f)
  BY <1>1, <1>2, <1>3, SetTopShape
<1> QED
  BY <1>1, <1>2, <1>4 DEF TopTurns, TopBecomes

LEMMA ReleaseShadowStep ==
    ASSUME TypeOK, ReleaseShadow
    PROVE  /\ Top.at = "drop" /\ TopTurns("end", Top.state) /\ UNCHANGED <<buf, value, dead>>
           /\ stack'[Depth].local = Top.local
           /\ stack'[Depth].local = "set" => stack'[Depth].byShadow = 1
<1>1. stack # <<>> /\ Top.at = "drop" /\ UNCHANGED <<buf, value, dead>>
  BY DEF ReleaseShadow, TopIs
<1> DEFINE h == IF Top.local = "set" THEN 1 ELSE 0
           f == [Top EXCEPT !.at = "end", !.byShadow = h]
<1>2. /\ f \in Frame /\ Agree(f, Top) /\ f.at = "end" /\ f.state = Top.state
      /\ f.byShadow = h /\ f.local = Top.local
  <2>1. Top \in Frame /\ h \in 0 .. 1
    BY <1>1, TopFrame
  <2>2. "end" \in Place /\ 0 \in 0 .. 2 /\ 1 \in Nat \ {0} /\ "set" \in {"none", "set", "lost"}
    BY DEF Place
  <2> HIDE DEF h
  <2> QED
    BY <2>1, <2>2 DEF Frame, Agree
<1>3. SetTop(f)
  BY DEF ReleaseShadow
<1>4. f.local = "set" => f.byShadow = 1
  BY <1>2
<1> HIDE DEF f, h
<1>5. TopBecomes(f)
  BY <1>1, <1>2, <1>3, SetTopShape
<1> QED
  BY <1>1, <1>2, <1>4, <1>5 DEF TopTurns, TopBecomes

\* An exception meets a clause: it is caught, or is not, or its class is read.
LEMMA CatchClauseStep ==
    ASSUME TypeOK, CatchClause
    PROVE  /\ TestsClause /\ UNCHANGED <<buf, value>>
           /\ \/ /\ Top.state = 1 /\ Clause # AnyType /\ value = Nil
                 /\ dead' = TRUE /\ UNCHANGED stack
              \/ /\ Top.state = 1 /\ Clause \in {AnyType, value}
                 /\ ~(Clause # AnyType /\ value = Nil)
                 /\ TopTurns("handler", 2) /\ UNCHANGED dead
              \/ /\ ~(Top.state = 1 /\ Clause \in {AnyType, value})
                 /\ ~(Top.state = 1 /\ Clause # AnyType /\ value = Nil)
                 /\ TopTurns("test", Top.state) /\ stack'[Depth].arm = Top.arm + 1 /\ UNCHANGED dead
<1>1. stack # <<>> /\ Top.at = "test" /\ TestsClause /\ UNCHANGED <<buf, value>>
  BY DEF CatchClause, TestsClause, TopIs
<1>2. CASE Top.state = 1 /\ Clause # AnyType /\ value = Nil
  BY <1>1, <1>2 DEF CatchClause
<1>3. CASE /\ ~(Top.state = 1 /\ Clause # AnyType /\ value = Nil)
           /\ Top.state = 1 /\ Clause \in {AnyType, value}
  <2> DEFINE f == [Top EXCEPT !.state = 2, !.at = "handler"]
  <2>1. f \in Frame /\ Agree(f, Top) /\ f.at = "handler" /\ f.state = 2
    <3>1. Top \in Frame
      BY <1>1, TopFrame
    <3>2. "handler" \in Place /\ 2 \in 0 .. 2 /\ 1 \in Nat \ {0} /\ 0 \in 0 .. 1 /\ "set" \in {"none", "set", "lost"}
      BY DEF Place
    <3> QED
      BY <3>1, <3>2 DEF Frame, Agree
  <2>2. SetTop(f) /\ UNCHANGED dead
    BY <1>3 DEF CatchClause
  <2> HIDE DEF f
  <2>3. TopBecomes(f)
    BY <1>1, <2>1, <2>2, SetTopShape
  <2> QED
    BY <1>1, <1>3, <2>1, <2>2, <2>3 DEF TopTurns, TopBecomes
<1>4. CASE /\ ~(Top.state = 1 /\ Clause # AnyType /\ value = Nil)
           /\ ~(Top.state = 1 /\ Clause \in {AnyType, value})
  <2> DEFINE f == [Top EXCEPT !.arm = @ + 1]
  <2>1. f \in Frame /\ Agree(f, Top) /\ f.at = Top.at /\ f.state = Top.state /\ f.arm = Top.arm + 1
    <3>1. Top \in Frame /\ Top.arm + 1 \in Nat \ {0}
      BY <1>1, TopFrame
    <3>2. "test" \in Place /\ 0 \in 0 .. 2 /\ 0 \in 0 .. 1 /\ "set" \in {"none", "set", "lost"}
      BY DEF Place
    <3> QED
      BY <3>1, <3>2 DEF Frame, Agree
  <2>2. SetTop(f) /\ UNCHANGED dead
    BY <1>4 DEF CatchClause
  <2> HIDE DEF f
  <2>3. TopBecomes(f)
    BY <1>1, <2>1, <2>2, SetTopShape
  <2> QED
    BY <1>1, <1>4, <2>1, <2>2, <2>3 DEF TopTurns, TopBecomes
<1> QED
  BY <1>2, <1>3, <1>4

\* A call or a @try statement is entered.
Pushed(at, catches, finally) ==
    /\ stack' \in Seq(Frame) /\ Len(stack') = Depth + 1 /\ DOMAIN stack' = 1 .. Depth + 1
    /\ \A i \in 1 .. Depth : stack'[i] = stack[i]
    /\ stack'[Depth + 1] \in Frame /\ stack'[Depth + 1] = NewFrame(at, catches, finally)
    /\ stack'[Depth + 1].at = at /\ stack'[Depth + 1].state = 0
    /\ stack'[Depth + 1].saved = buf /\ stack'[Depth + 1].catches = catches
    /\ stack'[Depth + 1].finally = finally

LEMMA PushedShape ==
    ASSUME TypeOK, NEW at \in Place, NEW catches \in Catches \cup {<<>>}, NEW finally \in BOOLEAN,
           stack' = Append(stack, NewFrame(at, catches, finally))
    PROVE  Pushed(at, catches, finally)
<1> DEFINE f == NewFrame(at, catches, finally)
<1>1. /\ f \in Frame /\ f.at = at /\ f.state = 0 /\ f.saved = buf /\ f.catches = catches
      /\ f.finally = finally
  BY NewFrameType
<1>2. stack \in Seq(Frame) /\ stack' = Append(stack, f)
  BY Stack
<1> HIDE DEF f
<1>3. /\ stack' \in Seq(Frame) /\ Len(stack') = Len(stack) + 1 /\ DOMAIN stack' = 1 .. Len(stack) + 1
      /\ \A i \in 1 .. Len(stack) : stack'[i] = stack[i]
      /\ stack'[Len(stack) + 1] = f
  BY <1>1, <1>2, AppendProperties
<1>4. f = NewFrame(at, catches, finally)
  BY DEF f
<1> QED
  BY <1>1, <1>3, <1>4 DEF Pushed, Depth

LEMMA CallStep ==
    ASSUME TypeOK, Call
    PROVE  Pushed("call", <<>>, FALSE) /\ ProgramRuns /\ UNCHANGED <<buf, value, dead>>
BY PushedShape DEF Call, Place

LEMMA EnterTryStep ==
    ASSUME TypeOK, NEW catches \in Catches, NEW finally \in BOOLEAN, EnterTry(catches, finally)
    PROVE  /\ Pushed("body", catches, finally) /\ ProgramRuns
           /\ buf' = Depth + 1 /\ UNCHANGED <<value, dead>>
BY PushedShape DEF EnterTry, Place

\* The frames above position n are gone.
Cut(n) ==
    /\ n \in 0 .. Depth - 1
    /\ stack' \in Seq(Frame) /\ Len(stack') = n /\ DOMAIN stack' = 1 .. n
    /\ \A i \in 1 .. n : stack'[i] = stack[i]

LEMMA CutFrames ==
    ASSUME TypeOK, NEW i \in DOMAIN stack, stack' = SubSeq(stack, 1, i - 1)
    PROVE  Cut(i - 1)
<1>1. stack \in Seq(Frame) /\ i - 1 \in 0 .. Depth - 1 /\ Depth = Len(stack) /\ i - 1 \in 0 .. Len(stack)
  BY Stack DEF Depth
<1>2. /\ stack' \in Seq(Frame) /\ Len(stack') = i - 1 /\ DOMAIN stack' = 1 .. i - 1
      /\ \A j \in 1 .. i - 1 : stack'[j] = stack[j]
  BY <1>1, CutShape
<1> QED
  BY <1>1, <1>2 DEF Cut

LEMMA ReturnStep ==
    ASSUME TypeOK, Return
    PROVE  /\ UNCHANGED <<value, dead>> /\ ProgramRuns
           /\ \E i \in DOMAIN stack :
                 /\ stack[i].at = "call" /\ (i = Depth \/ ReturnsInTry) /\ Cut(i - 1)
                 /\ stack' = SubSeq(stack, 1, i - 1)
                 /\ buf' = IF buf \in i .. Depth THEN Dangling ELSE buf
BY CutFrames DEF Return

\* The program's @throw statements.
Throws ==
    \E released \in SUBSET Releasable :
       (\E e \in Class \cup {Nil} : Throw(e, released)) \/ Rethrow(released)

LEMMA ThrowStep ==
    ASSUME TypeOK, Throws
    PROVE  /\ ProgramRuns /\ value' \in Class \cup {Nil}
           /\ \E s : /\ SameFrames(s)
                    /\ \/ buf \in DOMAIN stack /\ Lands(s)
                       \/ buf \notin DOMAIN stack /\ dead' = TRUE /\ UNCHANGED <<stack, buf>>
<1>0. PICK released \in SUBSET Releasable :
           /\ ProgramRuns /\ value' \in Class \cup {Nil}
           /\ Longjmp(ReleasedByThrow(released))
  BY DEF Throws, Throw, Rethrow, TypeOK
<1> DEFINE s == ReleasedByThrow(released)
<1>1. SameFrames(s) /\ Longjmp(s)
  BY <1>0, ReleasedFrames
<1> HIDE DEF s
<1>2. \/ buf \in DOMAIN stack /\ Lands(s)
      \/ buf \notin DOMAIN stack /\ dead' = TRUE /\ UNCHANGED <<stack, buf>>
  BY <1>1, LongjmpLands DEF SameFrames
<1> QED
  BY <1>0, <1>1, <1>2

LEMMA LeaveTryStep ==
    ASSUME TypeOK, LeaveTry
    PROVE  /\ stack # <<>> /\ Top.at = "end" /\ ~dead /\ UNCHANGED value
           /\ \/ Top.state = 1 /\ buf \in DOMAIN stack /\ Lands(stack)
              \/ /\ Top.state = 1 /\ buf \notin DOMAIN stack
                 /\ dead' = TRUE /\ UNCHANGED <<stack, buf>>
              \/ /\ Top.state # 1 /\ Cut(Depth - 1) /\ UNCHANGED <<buf, dead>>
                 /\ stack' = SubSeq(stack, 1, Depth - 1)
<1>1. stack # <<>> /\ Top.at = "end" /\ ~dead /\ UNCHANGED value
  BY DEF LeaveTry, TopIs
<1>2. CASE Top.state = 1
  BY <1>1, <1>2, Stack, LongjmpLands DEF LeaveTry
<1>3. CASE Top.state # 1
  <2>1. stack' = SubSeq(stack, 1, Depth - 1) /\ UNCHANGED <<buf, dead>> /\ Depth \in DOMAIN stack
    BY <1>1, <1>3, Stack DEF LeaveTry
  <2> QED
    BY <1>1, <1>3, <2>1, CutFrames
<1> QED
  BY <1>2, <1>3

LEMMA EmptyStack == <<>> \in Seq(Frame) /\ Len(<<>>) = 0 /\ DOMAIN <<>> = {}
OBVIOUS

LEMMA TypeInit == Init => TypeOK
BY EmptyStack DEF Init, TypeOK

LEMMA TypeStep == TypeOK /\ [Next]_vars => TypeOK'
<1> SUFFICES ASSUME TypeOK, [Next]_vars PROVE TypeOK'
  OBVIOUS
<1>t. buf \in Nat \cup {NoBuf, Dangling} /\ value \in Class \cup {Nil} /\ dead \in BOOLEAN
  BY DEF TypeOK
<1>1. CASE Call
  BY <1>1, <1>t, CallStep DEF Pushed, TypeOK
<1>2. CASE Return
  <2>1. PICK i \in DOMAIN stack :
           Cut(i - 1) /\ buf' = IF buf \in i .. Depth THEN Dangling ELSE buf
    BY <1>2, ReturnStep
  <2>2. UNCHANGED <<value, dead>>
    BY <1>2, ReturnStep
  <2> QED
    BY <1>t, <2>1, <2>2 DEF Cut, TypeOK
<1>3. CASE DeclareLocal
  BY <1>3, <1>t, DeclareLocalStep DEF TopTurns, TopBecomes, TypeOK
<1>4. ASSUME NEW catches \in Catches, NEW finally \in BOOLEAN, EnterTry(catches, finally)
      PROVE  TypeOK'
  BY <1>4, <1>t, EnterTryStep, Stack DEF Pushed, TypeOK
<1>5. CASE Throws
  BY <1>5, <1>t, ThrowStep DEF Lands, TypeOK
<1>6. CASE BodyEnd
  BY <1>6, <1>t, BodyEndStep DEF TopTurns, TopBecomes, TypeOK
<1>7. CASE HandlerEnd
  BY <1>7, <1>t, HandlerEndStep DEF TopTurns, TopBecomes, TypeOK
<1>8. CASE FinallyEnd
  BY <1>8, <1>t, FinallyEndStep DEF TopTurns, TopBecomes, TypeOK
<1>9. CASE CatchClause
  BY <1>9, <1>t, CatchClauseStep DEF TopTurns, TopBecomes, TypeOK
<1>10. CASE Restore
  <2>1. stack # <<>>
    BY <1>10, RestoreStep DEF TopTurns, TopBecomes
  <2>2. Top.saved \in Nat \cup {NoBuf, Dangling}
    BY <2>1, TopFrame, Fields
  <2> QED
    BY <1>10, <1>t, <2>2, RestoreStep DEF TopTurns, TopBecomes, TypeOK
<1>11. CASE ReleaseShadow
  BY <1>11, <1>t, ReleaseShadowStep DEF TopTurns, TopBecomes, TypeOK
<1>12. CASE LeaveTry
  BY <1>12, <1>t, LeaveTryStep DEF Lands, Cut, TypeOK
<1>13. CASE UNCHANGED vars
  BY <1>13 DEF vars, TypeOK
<1> QED
  BY <1>1, <1>2, <1>3, <1>4, <1>5, <1>6, <1>7, <1>8, <1>9, <1>10, <1>11, <1>12, <1>13
     DEF Next, Program, Emitted, Throws

\* Type correctness: frames, the jump buffer and the exception keep their types
\* whatever the program calls, throws, catches and leaves.
THEOREM TypeCorrect == Spec => []TypeOK
BY TypeInit, TypeStep, PTL DEF Spec

-----------------------------------------------------------------------------
(* The one jump buffer.                                                      *)

GuardedIn(frames, i) == frames[i].at \in {"body", "test", "handler"}

\* IsInnermost, of any frames.  Where returns leave @try statements, a buffer may
\* also dangle, or have been empty when it was saved.
Innermost(frames, b, n) ==
    \/ b \in 1 .. n - 1 /\ GuardedIn(frames, b) /\ \A i \in b + 1 .. n - 1 : ~GuardedIn(frames, i)
    \/ b = NoBuf /\ \A i \in 1 .. n - 1 : ~GuardedIn(frames, i)
    \/ ReturnsInTry /\ b \in {NoBuf, Dangling}

AllInnermost(frames, b) ==
    /\ Innermost(frames, b, Len(frames) + 1)
    /\ \A i \in DOMAIN frames : GuardedIn(frames, i) => Innermost(frames, frames[i].saved, i)

BufKnown == AllInnermost(stack, buf)

LEMMA BufKnownIs ==
    ASSUME ~ReturnsInTry
    PROVE  BufKnown => BufIsInnermost
<1>1. ASSUME NEW b, NEW n, Innermost(stack, b, n)
      PROVE  IsInnermost(b, n)
  <2>1. \A i : GuardedIn(stack, i) <=> Guarded(i)
    BY DEF GuardedIn, Guarded
  <2> QED
    BY <1>1, <2>1 DEF Innermost, IsInnermost
<1>2. \A i \in DOMAIN stack : GuardedIn(stack, i) <=> Guarded(i)
  BY DEF GuardedIn, Guarded
<1> QED
  BY <1>1, <1>2 DEF BufIsInnermost, BufKnown, AllInnermost, Depth

\* Only which frames are guarded matters.
LEMMA InnermostKept ==
    ASSUME NEW s, NEW t, NEW b, NEW n \in Nat, Innermost(s, b, n),
           \A i \in 1 .. n - 1 : GuardedIn(s, i) <=> GuardedIn(t, i)
    PROVE  Innermost(t, b, n)
<1>1. CASE b \in 1 .. n - 1 /\ GuardedIn(s, b) /\ \A i \in b + 1 .. n - 1 : ~GuardedIn(s, i)
  <2>1. \A i \in b + 1 .. n - 1 : i \in 1 .. n - 1
    BY <1>1
  <2> QED
    BY <1>1, <2>1 DEF Innermost
<1>2. CASE b = NoBuf /\ \A i \in 1 .. n - 1 : ~GuardedIn(s, i)
  BY <1>2 DEF Innermost
<1>3. CASE ReturnsInTry /\ b \in {NoBuf, Dangling}
  BY <1>3 DEF Innermost
<1> QED
  BY <1>1, <1>2, <1>3 DEF Innermost

\* A frame that is not guarded, on top, changes nothing.
LEMMA InnermostUnder ==
    ASSUME NEW s, NEW b, NEW n \in Nat \ {0}, ~GuardedIn(s, n)
    PROVE  Innermost(s, b, n) <=> Innermost(s, b, n + 1)
<1>1. (\E i \in 1 .. n - 1 : GuardedIn(s, i)) <=> (\E i \in 1 .. (n + 1) - 1 : GuardedIn(s, i))
  <2>1. \A i \in 1 .. (n + 1) - 1 : i = n \/ i \in 1 .. n - 1
    OBVIOUS
  <2>2. \A i \in 1 .. n - 1 : i \in 1 .. (n + 1) - 1
    OBVIOUS
  <2> QED
    BY <2>1, <2>2
<1>2. ASSUME b \in 1 .. n - 1
      PROVE  (\A i \in b + 1 .. n - 1 : ~GuardedIn(s, i)) <=> (\A i \in b + 1 .. (n + 1) - 1 : ~GuardedIn(s, i))
  <2>1. \A i \in b + 1 .. (n + 1) - 1 : i = n \/ i \in b + 1 .. n - 1
    BY <1>2
  <2>2. \A i \in b + 1 .. n - 1 : i \in b + 1 .. (n + 1) - 1
    BY <1>2
  <2> QED
    BY <2>1, <2>2
<1>3. b \in 1 .. (n + 1) - 1 /\ GuardedIn(s, b) => b \in 1 .. n - 1
  <2>1. b \in 1 .. (n + 1) - 1 => b = n \/ b \in 1 .. n - 1
    OBVIOUS
  <2> QED
    BY <2>1
<1>4. b \in 1 .. n - 1 => b \in 1 .. (n + 1) - 1
  OBVIOUS
<1> QED
  BY <1>1, <1>2, <1>3, <1>4 DEF Innermost

\* The frame on top is the guarded one.
LEMMA InnermostTop ==
    ASSUME NEW s, NEW n \in Nat \ {0}, GuardedIn(s, n)
    PROVE  Innermost(s, n, n + 1)
<1>1. n \in 1 .. (n + 1) - 1 /\ n + 1 .. (n + 1) - 1 = {}
  OBVIOUS
<1> QED
  BY <1>1 DEF Innermost

\* The saved copies of the frames that stay.
LEMMA SavedKept ==
    ASSUME NEW s \in Seq(Frame), NEW t \in Seq(Frame), NEW b, AllInnermost(s, b),
           NEW n \in Nat, n <= Len(s), n <= Len(t),
           \A i \in 1 .. n : GuardedIn(s, i) <=> GuardedIn(t, i),
           \A i \in 1 .. n : t[i].saved = s[i].saved
    PROVE  \A i \in 1 .. n : GuardedIn(t, i) => Innermost(t, t[i].saved, i)
<1> SUFFICES ASSUME NEW i \in 1 .. n, GuardedIn(t, i)
             PROVE  Innermost(t, s[i].saved, i)
  OBVIOUS
<1>1. i \in DOMAIN s /\ i \in Nat /\ GuardedIn(s, i)
  OBVIOUS
<1>2. Innermost(s, s[i].saved, i)
  BY <1>1 DEF AllInnermost
<1>3. \A j \in 1 .. i - 1 : GuardedIn(s, j) <=> GuardedIn(t, j)
  <2>1. \A j \in 1 .. i - 1 : j \in 1 .. n
    OBVIOUS
  <2> QED
    BY <2>1
<1> QED
  BY <1>1, <1>2, <1>3, InnermostKept

\* The block on top goes from a guarded place to a guarded one, or from one
\* that is not to one that is not.
LEMMA TurnKeepsBuf ==
    ASSUME TypeOK, BufKnown, NEW at, NEW state, TopTurns(at, state), UNCHANGED buf,
           Top.at \in {"body", "test", "handler"} <=> at \in {"body", "test", "handler"}
    PROVE  BufKnown'
<1> DEFINE s == stack
           t == stack'
<1>1. s \in Seq(Frame) /\ t \in Seq(Frame) /\ Depth \in Nat \ {0} /\ Len(s) = Depth /\ Len(t) = Depth
  BY Stack, TopFrame DEF TopTurns, TopBecomes
<1>2. \A i \in 1 .. Depth - 1 : t[i] = s[i]
  BY DEF TopTurns, TopBecomes
<1>3. t[Depth].at = at /\ t[Depth].saved = s[Depth].saved /\ s[Depth].at = Top.at
  BY DEF TopTurns, Agree, Top
<1>4. \A i \in 1 .. Depth : i = Depth \/ i \in 1 .. Depth - 1
  BY <1>1
<1>5. \A i \in 1 .. Depth : /\ GuardedIn(s, i) <=> GuardedIn(t, i)
                            /\ t[i].saved = s[i].saved
  BY <1>2, <1>3, <1>4 DEF GuardedIn
<1>6. AllInnermost(s, buf)
  BY DEF BufKnown
<1>7. Innermost(t, buf, Depth + 1)
  <2>1. Innermost(s, buf, Depth + 1) /\ Depth + 1 \in Nat
    BY <1>1, <1>6 DEF AllInnermost
  <2>2. \A i \in 1 .. (Depth + 1) - 1 : GuardedIn(s, i) <=> GuardedIn(t, i)
    BY <1>1, <1>5
  <2> QED
    BY <2>1, <2>2, InnermostKept
<1>8. \A i \in 1 .. Depth : GuardedIn(t, i) => Innermost(t, t[i].saved, i)
  BY <1>1, <1>5, <1>6, SavedKept
<1>9. AllInnermost(t, buf)
  BY <1>1, <1>7, <1>8 DEF AllInnermost
<1> QED
  BY <1>9 DEF BufKnown

\* A jump goes to the innermost guarded frame, which it leaves guarded.
LEMMA LandKeepsBuf ==
    ASSUME TypeOK, BufKnown, NEW s, SameFrames(s), Lands(s)
    PROVE  BufKnown'
<1> DEFINE t == stack'
<1>1. stack \in Seq(Frame) /\ t \in Seq(Frame) /\ Len(t) = buf /\ buf \in 1 .. Len(stack)
  BY Stack DEF Lands, Depth
<1>2. buf \in Nat \ {0} /\ buf <= Len(stack)
  BY <1>1, Stack
<1>3. AllInnermost(stack, buf)
  BY DEF BufKnown
<1>4. GuardedIn(stack, buf)
  <2>1. buf \notin {NoBuf, Dangling} /\ Innermost(stack, buf, Len(stack) + 1)
    BY <1>2, <1>3, BufsDiffer DEF AllInnermost
  <2> QED
    BY <2>1 DEF Innermost
<1>5. GuardedIn(t, buf) /\ t[buf].saved = stack[buf].saved
  <2>1. buf \in DOMAIN stack
    BY <1>1
  <2> QED
    BY <2>1 DEF Lands, GuardedIn, SameFrames
<1>6. \A i \in 1 .. buf - 1 : t[i].at = stack[i].at /\ t[i].saved = stack[i].saved
  <2>1. \A i \in 1 .. buf - 1 : i \in DOMAIN stack
    BY <1>1
  <2> QED
    BY <2>1 DEF Lands, SameFrames
<1>7. \A i \in 1 .. buf : i = buf \/ i \in 1 .. buf - 1
  BY <1>2
<1>8. \A i \in 1 .. buf : /\ GuardedIn(stack, i) <=> GuardedIn(t, i)
                          /\ t[i].saved = stack[i].saved
  BY <1>4, <1>5, <1>6, <1>7 DEF GuardedIn
<1>9. Innermost(t, buf, buf + 1)
  BY <1>2, <1>5, InnermostTop
<1>10. \A i \in 1 .. buf : GuardedIn(t, i) => Innermost(t, t[i].saved, i)
  <2>1. buf \in Nat /\ buf <= Len(stack) /\ buf <= Len(t)
    BY <1>1, <1>2
  <2> HIDE DEF t
  <2> QED
    BY <1>1, <1>3, <1>8, <2>1, SavedKept
<1>11. AllInnermost(t, buf)
  BY <1>1, <1>9, <1>10 DEF AllInnermost
<1> QED
  BY <1>11 DEF BufKnown, Lands

\* A frame that is not guarded leaves the top, and the buffer stays.
LEMMA CutKeepsBuf ==
    ASSUME TypeOK, BufKnown, stack # <<>>, ~GuardedIn(stack, Depth), Cut(Depth - 1),
           UNCHANGED buf
    PROVE  BufKnown'
<1> DEFINE t == stack'
<1>1. /\ stack \in Seq(Frame) /\ t \in Seq(Frame) /\ Depth \in Nat \ {0} /\ Len(stack) = Depth
      /\ Len(t) = Depth - 1 /\ Depth - 1 \in Nat
  BY Stack, TopFrame DEF Cut
<1>2. \A i \in 1 .. Depth - 1 : t[i] = stack[i]
  BY DEF Cut
<1>3. AllInnermost(stack, buf)
  BY DEF BufKnown
<1>4. Innermost(t, buf, Depth)
  <2>1. Innermost(stack, buf, Depth)
    BY <1>1, <1>3, InnermostUnder DEF AllInnermost
  <2> QED
    BY <1>1, <1>2, <2>1, InnermostKept DEF GuardedIn
<1>5. \A i \in 1 .. Depth - 1 : GuardedIn(t, i) => Innermost(t, t[i].saved, i)
  <2>1. \A i \in 1 .. Depth - 1 : (GuardedIn(stack, i) <=> GuardedIn(t, i)) /\ t[i].saved = stack[i].saved
    BY <1>2 DEF GuardedIn
  <2>2. Depth - 1 <= Len(stack) /\ Depth - 1 <= Len(t)
    BY <1>1
  <2> QED
    BY <1>1, <1>3, <2>1, <2>2, SavedKept
<1>6. Len(t) + 1 = Depth /\ DOMAIN t = 1 .. Depth - 1
  BY <1>1
<1>7. AllInnermost(t, buf)
  BY <1>4, <1>5, <1>6 DEF AllInnermost
<1> QED
  BY <1>7 DEF BufKnown

BufInv == TypeOK /\ BufKnown

LEMMA BufInit == Init => BufKnown
<1> SUFFICES ASSUME Init PROVE AllInnermost(stack, buf)
  BY DEF BufKnown
<1>1. stack = <<>> /\ buf = NoBuf /\ Len(stack) = 0 /\ DOMAIN stack = {}
  BY EmptyStack DEF Init
<1>2. 1 .. (0 + 1) - 1 = {}
  OBVIOUS
<1>3. Innermost(stack, buf, 0 + 1)
  BY <1>1, <1>2 DEF Innermost
<1> QED
  BY <1>1, <1>3 DEF AllInnermost

\* A frame is pushed: of a call, with the buffer kept, or of a @try statement,
\* with its own buffer installed and the one before it saved.
LEMMA PushKeepsBuf ==
    ASSUME TypeOK, BufKnown, NEW at, NEW catches, NEW finally, Pushed(at, catches, finally),
           \/ at = "call" /\ UNCHANGED buf
           \/ at = "body" /\ buf' = Depth + 1
    PROVE  BufKnown'
<1> DEFINE t == stack'
           n == Depth + 1
<1>1. /\ stack \in Seq(Frame) /\ t \in Seq(Frame) /\ n \in Nat \ {0} /\ Depth \in Nat
      /\ Len(stack) = Depth /\ Len(t) = n /\ DOMAIN t = 1 .. n
  BY Stack DEF Pushed
<1>2. \A i \in 1 .. Depth : t[i] = stack[i]
  BY DEF Pushed
<1>3. t[n].at = at /\ t[n].saved = buf
  BY DEF Pushed
<1>4. AllInnermost(stack, buf)
  BY DEF BufKnown
<1>5. \A i \in 1 .. Depth : (GuardedIn(stack, i) <=> GuardedIn(t, i)) /\ t[i].saved = stack[i].saved
  BY <1>2 DEF GuardedIn
<1>6. Innermost(t, buf, n)
  <2>1. Innermost(stack, buf, n)
    BY <1>1, <1>4 DEF AllInnermost
  <2>2. n - 1 = Depth
    BY <1>1
  <2> HIDE DEF n
  <2> QED
    BY <1>1, <1>5, <2>1, <2>2, InnermostKept
<1>7. \A i \in 1 .. Depth : GuardedIn(t, i) => Innermost(t, t[i].saved, i)
  <2>1. Depth <= Len(stack) /\ Depth <= Len(t)
    BY <1>1
  <2> HIDE DEF t, n
  <2> QED
    BY <1>1, <1>4, <1>5, <2>1, SavedKept
<1>8. \A i \in DOMAIN t : GuardedIn(t, i) => Innermost(t, t[i].saved, i)
  <2>1. \A i \in DOMAIN t : i = n \/ i \in 1 .. Depth
    BY <1>1
  <2> QED
    BY <1>3, <1>6, <1>7, <2>1
<1>9. Innermost(t, buf', n + 1)
  <2>1. CASE at = "call" /\ UNCHANGED buf
    <3>1. ~GuardedIn(t, n)
      BY <1>3, <2>1 DEF GuardedIn
    <3> HIDE DEF t, n
    <3> QED
      BY <1>1, <1>6, <2>1, <3>1, InnermostUnder
  <2>2. CASE at = "body" /\ buf' = n
    <3>1. GuardedIn(t, n)
      BY <1>3, <2>2 DEF GuardedIn
    <3> HIDE DEF t, n
    <3> QED
      BY <1>1, <2>2, <3>1, InnermostTop
  <2> QED
    BY <2>1, <2>2
<1>10. AllInnermost(t, buf')
  BY <1>1, <1>8, <1>9 DEF AllInnermost
<1> QED
  BY <1>10 DEF BufKnown

\* The copy that the statement on top saved comes back when it is no longer
\* guarded.
LEMMA RestoreKeepsBuf ==
    ASSUME TypeOK, BufKnown, NEW at \in {"finally", "drop"}, NEW state,
           TopTurns(at, state), Top.at = "test", buf' = Top.saved
    PROVE  BufKnown'
<1> DEFINE s == stack
           t == stack'
<1>1. s \in Seq(Frame) /\ t \in Seq(Frame) /\ Depth \in Nat \ {0} /\ Len(s) = Depth /\ Len(t) = Depth
  BY Stack, TopFrame DEF TopTurns, TopBecomes
<1>2. \A i \in 1 .. Depth - 1 : t[i] = s[i]
  BY DEF TopTurns, TopBecomes
<1>3. t[Depth].at = at /\ s[Depth].at = "test" /\ s[Depth].saved = Top.saved
  BY DEF TopTurns, Top
<1>4. AllInnermost(s, buf)
  BY DEF BufKnown
<1>5. \A i \in 1 .. Depth - 1 : (GuardedIn(s, i) <=> GuardedIn(t, i)) /\ t[i].saved = s[i].saved
  BY <1>2 DEF GuardedIn
<1>6. Innermost(s, Top.saved, Depth)
  <2>1. Depth \in DOMAIN s /\ GuardedIn(s, Depth)
    BY <1>1, <1>3 DEF GuardedIn
  <2> QED
    BY <1>3, <1>4, <2>1 DEF AllInnermost
<1>7. Innermost(t, Top.saved, Depth)
  BY <1>1, <1>5, <1>6, InnermostKept
<1>8. ~GuardedIn(t, Depth)
  BY <1>3 DEF GuardedIn
<1>9. Innermost(t, buf', Depth + 1)
  BY <1>1, <1>7, <1>8, InnermostUnder
<1>10. \A i \in 1 .. Depth - 1 : GuardedIn(t, i) => Innermost(t, t[i].saved, i)
  <2>1. Depth - 1 \in Nat /\ Depth - 1 <= Len(s) /\ Depth - 1 <= Len(t)
    BY <1>1
  <2> HIDE DEF s, t
  <2> QED
    BY <1>1, <1>4, <1>5, <2>1, SavedKept
<1>11. \A i \in DOMAIN t : i = Depth \/ i \in 1 .. Depth - 1
  BY <1>1
<1>12. AllInnermost(t, buf')
  BY <1>1, <1>8, <1>9, <1>10, <1>11 DEF AllInnermost
<1> QED
  BY <1>12 DEF BufKnown

\* A return leaves the buffer of a frame below it, or one that dangles.
LEMMA ReturnKeepsBuf ==
    ASSUME TypeOK, BufKnown, NEW i \in DOMAIN stack, stack[i].at = "call",
           i = Depth \/ ReturnsInTry, Cut(i - 1),
           buf' = IF buf \in i .. Depth THEN Dangling ELSE buf
    PROVE  BufKnown'
<1> DEFINE t == stack'
           n == i - 1
<1>1. /\ stack \in Seq(Frame) /\ t \in Seq(Frame) /\ Depth \in Nat /\ Len(stack) = Depth
      /\ i \in 1 .. Depth /\ n \in Nat /\ n + 1 = i /\ n <= Len(stack)
      /\ Len(t) = n /\ DOMAIN t = 1 .. n
  BY Stack DEF Cut
<1>2. \A j \in 1 .. n : t[j] = stack[j]
  BY DEF Cut
<1>3. AllInnermost(stack, buf)
  BY DEF BufKnown
<1>4. \A j \in 1 .. n : (GuardedIn(stack, j) <=> GuardedIn(t, j)) /\ t[j].saved = stack[j].saved
  BY <1>2 DEF GuardedIn
<1>5. \A j \in 1 .. n : GuardedIn(t, j) => Innermost(t, t[j].saved, j)
  <2>1. n <= Len(t)
    BY <1>1
  <2> HIDE DEF t, n
  <2> QED
    BY <1>1, <1>3, <1>4, <2>1, SavedKept
<1>6. Innermost(t, buf', n + 1)
  <2>1. Innermost(stack, buf, Depth + 1)
    BY <1>1, <1>3 DEF AllInnermost
  <2>2. CASE buf \in i .. Depth
    <3>1. buf \notin {NoBuf, Dangling}
      BY <1>1, <2>2, BufsDiffer
    <3>2. GuardedIn(stack, buf)
      BY <2>1, <3>1 DEF Innermost
    <3>3. ReturnsInTry
      <4>1. buf # i
        BY <3>2 DEF GuardedIn
      <4>2. i # Depth
        BY <1>1, <2>2, <4>1
      <4> QED
        BY <4>2
    <3> QED
      BY <2>2, <3>3 DEF Innermost
  <2>3. CASE buf \notin i .. Depth
    <3>1. buf' = buf
      BY <2>3
    <3>2. CASE buf \in {NoBuf, Dangling} /\ ReturnsInTry
      BY <3>1, <3>2 DEF Innermost
    <3>3. CASE buf = NoBuf /\ \A j \in 1 .. (Depth + 1) - 1 : ~GuardedIn(stack, j)
      <4>1. \A j \in 1 .. n : j \in 1 .. (Depth + 1) - 1
        BY <1>1
      <4>2. (n + 1) - 1 = n
        BY <1>1
      <4> HIDE DEF n, t
      <4> QED
        BY <1>4, <3>1, <3>3, <4>1, <4>2 DEF Innermost
    <3>4. CASE /\ buf \in 1 .. (Depth + 1) - 1 /\ GuardedIn(stack, buf)
               /\ \A j \in buf + 1 .. (Depth + 1) - 1 : ~GuardedIn(stack, j)
      <4>1. buf \in 1 .. n
        BY <1>1, <2>3, <3>4
      <4>2. \A j \in buf + 1 .. n : j \in buf + 1 .. (Depth + 1) - 1 /\ j \in 1 .. n
        BY <1>1, <4>1
      <4>3. (n + 1) - 1 = n
        BY <1>1
      <4> HIDE DEF n, t
      <4> QED
        BY <1>4, <3>1, <3>4, <4>1, <4>2, <4>3 DEF Innermost
    <3> QED
      BY <2>1, <3>2, <3>3, <3>4 DEF Innermost
  <2> QED
    BY <2>2, <2>3
<1>7. AllInnermost(t, buf')
  BY <1>1, <1>5, <1>6 DEF AllInnermost
<1> QED
  BY <1>7 DEF BufKnown

LEMMA BufStep ==
    ASSUME BufInv, [Next]_vars
    PROVE  BufKnown'
<1>t. TypeOK /\ BufKnown
  BY DEF BufInv
<1>u. ASSUME UNCHANGED <<stack, buf>>
      PROVE  BufKnown'
  BY <1>t, <1>u DEF BufKnown
<1>1. CASE Call
  BY <1>1, <1>t, CallStep, PushKeepsBuf
<1>2. CASE Return
  BY <1>2, <1>t, ReturnStep, ReturnKeepsBuf
<1>3. CASE DeclareLocal
  <2>1. Top.at = "body"
    BY <1>3 DEF DeclareLocal, TopIs
  <2> QED
    BY <1>3, <1>t, <2>1, DeclareLocalStep, TurnKeepsBuf
<1>4. ASSUME NEW catches \in Catches, NEW finally \in BOOLEAN, EnterTry(catches, finally)
      PROVE  BufKnown'
  BY <1>4, <1>t, EnterTryStep, PushKeepsBuf
<1>5. CASE Throws
  BY <1>5, <1>t, <1>u, ThrowStep, LandKeepsBuf
<1>6. CASE BodyEnd
  BY <1>6, <1>t, BodyEndStep, TurnKeepsBuf
<1>7. CASE HandlerEnd
  BY <1>7, <1>t, HandlerEndStep, TurnKeepsBuf
<1>8. CASE FinallyEnd
  BY <1>8, <1>t, FinallyEndStep, TurnKeepsBuf
<1>9. CASE CatchClause
  <2>1. Top.at = "test"
    BY <1>9 DEF CatchClause, TestsClause, TopIs
  <2> QED
    BY <1>9, <1>t, <1>u, <2>1, CatchClauseStep, TurnKeepsBuf
<1>10. CASE Restore
  BY <1>10, <1>t, RestoreStep, RestoreKeepsBuf
<1>11. CASE ReleaseShadow
  BY <1>11, <1>t, ReleaseShadowStep, TurnKeepsBuf
<1>12. CASE LeaveTry
  <2>1. stack # <<>> /\ ~GuardedIn(stack, Depth) /\ stack \in Seq(Frame)
    BY <1>12, <1>t, LeaveTryStep, Stack DEF GuardedIn, Top
  <2> QED
    BY <1>12, <1>t, <1>u, <2>1, StackIsSame, LeaveTryStep, LandKeepsBuf, CutKeepsBuf
<1>13. CASE UNCHANGED vars
  BY <1>13, <1>u DEF vars
<1> QED
  BY <1>1, <1>2, <1>3, <1>4, <1>5, <1>6, <1>7, <1>8, <1>9, <1>10, <1>11, <1>12, <1>13
     DEF Next, Program, Emitted, Throws

LEMMA BufHolds == Spec => []BufInv
<1>1. Init => BufInv
  BY TypeInit, BufInit DEF BufInv
<1>2. BufInv /\ [Next]_vars => BufInv'
  BY TypeStep, BufStep DEF BufInv
<1> QED
  BY <1>1, <1>2, PTL DEF Spec

\* The jump buffer is that of the innermost @try statement whose body, clauses
\* or handler run, and each statement saved that of the next one outwards, at
\* every depth of calls and statements: no longjmp enters a frame that is gone.
\* A return that leaves a @try statement does not restore the buffer, so it is
\* about programs that have none.
THEOREM BufferSafety ==
    ASSUME ~ReturnsInTry
    PROVE  Spec => []BufIsInnermost
<1>1. BufInv => BufIsInnermost
  BY BufKnownIs DEF BufInv
<1> QED
  BY <1>1, BufHolds, PTL

-----------------------------------------------------------------------------
(* Where frames are, and in which state.                                     *)

Open == {"call", "body", "handler", "finally"}

\* The state number says what the place says; and the clauses before the one
\* that an exception in flight meets have not accepted it.
FrameOk(f, e) ==
    /\ f.at \in {"call", "body"} => f.state = 0
    /\ f.at = "handler" => f.state = 2
    /\ f.at = "test" /\ f.state = 1 =>
          \A j \in DOMAIN f.catches : j < f.arm => f.catches[j] \notin {AnyType, e} /\ e # Nil

PlacesIn(frames, e) ==
    \A i \in DOMAIN frames :
        /\ i < Len(frames) => frames[i].at \in Open
        /\ FrameOk(frames[i], e)

Places == PlacesIn(stack, value)

PlaceInv == TypeOK /\ Places

\* An open frame is as good with any exception.
LEMMA OpenFrame ==
    ASSUME NEW f, NEW e, NEW x, FrameOk(f, e), f.at \in Open
    PROVE  FrameOk(f, x)
BY DEF FrameOk, Open

LEMMA PushKeepsPlaces ==
    ASSUME TypeOK, Places, ProgramRuns, UNCHANGED value,
           NEW at \in {"call", "body"}, NEW catches, NEW finally, Pushed(at, catches, finally)
    PROVE  Places'
<1>1. Depth \in Nat /\ Len(stack) = Depth /\ DOMAIN stack = 1 .. Depth
  BY Stack DEF Depth
<1>2. \A i \in DOMAIN stack : stack[i].at \in Open /\ FrameOk(stack[i], value)
  <2>1. ASSUME NEW i \in DOMAIN stack
        PROVE  stack[i].at \in Open
    <3>1. CASE i = Depth
      <4>1. stack # <<>>
        BY EmptyStack
      <4> QED
        BY <3>1, <4>1 DEF ProgramRuns, Top, Open
    <3>2. CASE i # Depth
      <4>1. i < Len(stack)
        BY <1>1, <3>2
      <4> QED
        BY <4>1 DEF Places, PlacesIn
    <3> QED
      BY <3>1, <3>2
  <2> QED
    BY <2>1 DEF Places, PlacesIn
<1>3. \A i \in 1 .. Depth : stack'[i].at \in Open /\ FrameOk(stack'[i], value)
  BY <1>1, <1>2 DEF Pushed
<1>4. FrameOk(stack'[Depth + 1], value)
  BY DEF Pushed, FrameOk
<1>5. Len(stack') = Depth + 1 /\ DOMAIN stack' = 1 .. Depth + 1
  BY DEF Pushed
<1>6. \A i \in 1 .. Depth + 1 : i \in 1 .. Depth \/ i = Depth + 1
  BY <1>1
<1>7. ~(Depth + 1 < Depth + 1)
  BY <1>1
<1> QED
  BY <1>3, <1>4, <1>5, <1>6, <1>7 DEF Places, PlacesIn

LEMMA CutKeepsPlaces ==
    ASSUME TypeOK, Places, UNCHANGED value, NEW n, Cut(n)
    PROVE  Places'
<1>1. Depth \in Nat /\ Len(stack) = Depth /\ DOMAIN stack = 1 .. Depth /\ n \in 0 .. Depth - 1
  BY Stack DEF Depth, Cut
<1>2. \A i \in 1 .. n : i \in DOMAIN stack /\ i < Len(stack)
  BY <1>1
<1>3. \A i \in 1 .. n : stack'[i].at \in Open /\ FrameOk(stack'[i], value)
  BY <1>2 DEF Cut, Places, PlacesIn
<1> QED
  BY <1>3 DEF Cut, Places, PlacesIn

LEMMA TurnKeepsPlaces ==
    ASSUME TypeOK, Places, UNCHANGED value, NEW at, NEW state, TopTurns(at, state),
           FrameOk(stack'[Depth], value)
    PROVE  Places'
<1>1. /\ Depth \in Nat /\ Len(stack) = Depth /\ DOMAIN stack = 1 .. Depth
      /\ Len(stack') = Depth /\ DOMAIN stack' = 1 .. Depth
  BY Stack DEF Depth, TopTurns, TopBecomes
<1>2. \A i \in 1 .. Depth - 1 : i \in DOMAIN stack /\ i < Len(stack)
  BY <1>1
<1>3. \A i \in 1 .. Depth - 1 : stack'[i].at \in Open /\ FrameOk(stack'[i], value)
  BY <1>2 DEF TopTurns, TopBecomes, Places, PlacesIn
<1>4. \A i \in 1 .. Depth : i \in 1 .. Depth - 1 \/ (i = Depth /\ ~(i < Depth))
  BY <1>1
<1> QED
  BY <1>1, <1>3, <1>4 DEF Places, PlacesIn

\* A jump, whatever was thrown, lands in a frame that tests its first clause.
LEMMA LandKeepsPlaces ==
    ASSUME TypeOK, Places, NEW s, SameFrames(s), Lands(s)
    PROVE  Places'
<1>1. /\ Depth \in Nat /\ Len(stack) = Depth /\ DOMAIN stack = 1 .. Depth /\ buf \in 1 .. Depth
      /\ Len(stack') = buf /\ DOMAIN stack' = 1 .. buf /\ stack' \in Seq(Frame)
  BY Stack DEF Depth, Lands
<1>2. \A i \in 1 .. buf - 1 : i \in DOMAIN stack /\ i < Len(stack)
  BY <1>1
<1>3. ASSUME NEW i \in 1 .. buf - 1
      PROVE  stack'[i].at \in Open /\ FrameOk(stack'[i], value')
  <2>1. stack[i].at \in Open /\ FrameOk(stack[i], value)
    BY <1>2 DEF Places, PlacesIn
  <2>2. stack'[i].at = stack[i].at /\ stack'[i].state = stack[i].state
    BY <1>2 DEF Lands, SameFrames
  <2> QED
    BY <2>1, <2>2 DEF FrameOk, Open
<1>4. FrameOk(stack'[buf], value')
  <2>1. stack'[buf].at = "test" /\ stack'[buf].arm = 1 /\ stack'[buf] \in Frame
    BY <1>1 DEF Lands
  <2>2. stack'[buf].catches \in Seq(Class \cup {AnyType})
    <3>1. stack'[buf].catches \in Catches \cup {<<>>}
      BY <2>1, Fields
    <3>2. <<>> \in Seq(Class \cup {AnyType})
      OBVIOUS
    <3> QED
      BY <3>1, <3>2, CatchesAreClauses
  <2> DEFINE c == stack'[buf].catches
  <2>3. \A j \in DOMAIN c : ~(j < 1)
    BY <2>2
  <2> QED
    BY <2>1, <2>3 DEF FrameOk
<1>5. \A i \in 1 .. buf : i \in 1 .. buf - 1 \/ (i = buf /\ ~(i < buf))
  BY <1>1
<1> QED
  BY <1>1, <1>3, <1>4, <1>5 DEF Places, PlacesIn

LEMMA PlacesInit == Init => Places
BY EmptyStack DEF Init, Places, PlacesIn

LEMMA TopOk ==
    ASSUME TypeOK, Places, stack # <<>>
    PROVE  FrameOk(Top, value)
BY TopFrame DEF Places, PlacesIn, Top

LEMMA PlacesStep == PlaceInv /\ [Next]_vars => Places'
<1> SUFFICES ASSUME TypeOK, Places, [Next]_vars PROVE Places'
  BY DEF PlaceInv
<1>1. CASE Call
  BY <1>1, CallStep, PushKeepsPlaces
<1>2. CASE Return
  BY <1>2, ReturnStep, CutKeepsPlaces
<1>3. CASE DeclareLocal
  <2>1. TopTurns("body", Top.state) /\ UNCHANGED value /\ Top.at = "body" /\ stack # <<>>
    BY <1>3, DeclareLocalStep DEF DeclareLocal, TopIs
  <2>2. FrameOk(stack'[Depth], value)
    BY <2>1, TopOk DEF TopTurns, FrameOk
  <2> QED
    BY <2>1, <2>2, TurnKeepsPlaces
<1>4. ASSUME NEW catches \in Catches, NEW finally \in BOOLEAN, EnterTry(catches, finally)
      PROVE  Places'
  BY <1>4, EnterTryStep, PushKeepsPlaces
<1>5. CASE Throws
  <2>1. ASSUME NEW s, SameFrames(s), Lands(s)
        PROVE  Places'
    BY <2>1, LandKeepsPlaces
  <2>2. CASE dead' = TRUE /\ UNCHANGED <<stack, buf>>
    <3>1. \A i \in DOMAIN stack : stack[i].at \in Open
      <4>1. ASSUME NEW i \in DOMAIN stack
            PROVE  i < Len(stack) \/ (i = Depth /\ stack # <<>>)
        BY Stack, EmptyStack
      <4>2. stack # <<>> => stack[Depth].at \in Open
        BY <1>5, ThrowStep DEF ProgramRuns, Open, Top
      <4> QED
        BY <4>1, <4>2 DEF Places, PlacesIn
    <3> QED
      BY <2>2, <3>1, OpenFrame DEF Places, PlacesIn
  <2> QED
    BY <1>5, <2>1, <2>2, ThrowStep
<1>6. CASE BodyEnd
  <2>1. /\ TopTurns("test", Top.state) /\ UNCHANGED value /\ Top.at = "body" /\ stack # <<>>
    BY <1>6, BodyEndStep DEF BodyEnd, TopIs
  <2>2. FrameOk(stack'[Depth], value)
    BY <2>1, TopOk DEF TopTurns, FrameOk
  <2> QED
    BY <2>1, <2>2, TurnKeepsPlaces
<1>7. CASE HandlerEnd
  <2>1. /\ TopTurns("test", Top.state) /\ UNCHANGED value /\ Top.at = "handler" /\ stack # <<>>
    BY <1>7, HandlerEndStep DEF HandlerEnd, TopIs
  <2>2. FrameOk(stack'[Depth], value)
    BY <2>1, TopOk DEF TopTurns, FrameOk
  <2> QED
    BY <2>1, <2>2, TurnKeepsPlaces
<1>8. CASE FinallyEnd
  <2>1. TopTurns("drop", Top.state) /\ UNCHANGED value
    BY <1>8, FinallyEndStep
  <2>2. FrameOk(stack'[Depth], value)
    BY <2>1 DEF TopTurns, FrameOk
  <2> QED
    BY <2>1, <2>2, TurnKeepsPlaces
<1>9. CASE CatchClause
  <2>0. TestsClause /\ UNCHANGED value /\ stack # <<>> /\ Top.at = "test"
    BY <1>9, CatchClauseStep DEF TestsClause, TopIs
  <2>1. CASE UNCHANGED stack
    BY <2>0, <2>1 DEF Places
  <2>2. CASE TopTurns("handler", 2)
    <3>1. FrameOk(stack'[Depth], value)
      BY <2>2 DEF TopTurns, FrameOk
    <3> QED
      BY <2>0, <2>2, <3>1, TurnKeepsPlaces
  <2>3. CASE /\ ~(Top.state = 1 /\ Clause \in {AnyType, value})
             /\ ~(Top.state = 1 /\ Clause # AnyType /\ value = Nil)
             /\ TopTurns("test", Top.state) /\ stack'[Depth].arm = Top.arm + 1
    <3> DEFINE f == stack'[Depth]
    <3>1. f.at = "test" /\ f.state = Top.state /\ f.catches = Top.catches /\ f.arm = Top.arm + 1
      BY <2>3 DEF TopTurns, Agree
    <3>2. Top.catches \in Seq(Class \cup {AnyType}) /\ Top.arm \in Nat \ {0}
      <4>1. Top.catches \in Catches \cup {<<>>} /\ Top.arm \in Nat \ {0}
        BY <2>0, TopFrame, Fields
      <4>2. <<>> \in Seq(Class \cup {AnyType})
        OBVIOUS
      <4> QED
        BY <4>1, <4>2, CatchesAreClauses
    <3>3. Top.state = 1 => Clause # AnyType /\ Clause # value /\ value # Nil
      BY <2>3
    <3>4. Top.catches[Top.arm] = Clause
      BY DEF Clause
    <3>5. \A j \in DOMAIN Top.catches : j < Top.arm + 1 => j < Top.arm \/ j = Top.arm
      BY <3>2
    <3>6. FrameOk(Top, value)
      BY <2>0, TopOk
    <3> HIDE DEF f
    <3>7. FrameOk(f, value)
      BY <2>0, <3>1, <3>3, <3>4, <3>5, <3>6 DEF FrameOk
    <3> QED
      BY <2>0, <2>3, <3>7, TurnKeepsPlaces DEF f
  <2> QED
    BY <1>9, <2>1, <2>2, <2>3, CatchClauseStep
<1>10. CASE Restore
  <2>1. /\ TopTurns(IF Top.finally THEN "finally" ELSE "drop", Top.state) /\ UNCHANGED value
    BY <1>10, RestoreStep
  <2>2. FrameOk(stack'[Depth], value)
    BY <2>1 DEF TopTurns, FrameOk
  <2> QED
    BY <2>1, <2>2, TurnKeepsPlaces
<1>11. CASE ReleaseShadow
  <2>1. TopTurns("end", Top.state) /\ UNCHANGED value
    BY <1>11, ReleaseShadowStep
  <2>2. FrameOk(stack'[Depth], value)
    BY <2>1 DEF TopTurns, FrameOk
  <2> QED
    BY <2>1, <2>2, TurnKeepsPlaces
<1>12. CASE LeaveTry
  <2>1. CASE Lands(stack)
    BY <2>1, StackIsSame, LandKeepsPlaces
  <2>2. CASE UNCHANGED <<stack, value>>
    BY <2>2 DEF Places
  <2>3. CASE Cut(Depth - 1) /\ UNCHANGED value
    BY <2>3, CutKeepsPlaces
  <2> QED
    BY <1>12, <2>1, <2>2, <2>3, LeaveTryStep
<1>13. CASE UNCHANGED vars
  BY <1>13 DEF vars, Places
<1> QED
  BY <1>1, <1>2, <1>3, <1>4, <1>5, <1>6, <1>7, <1>8, <1>9, <1>10, <1>11, <1>12, <1>13
     DEF Next, Program, Emitted, Throws

LEMMA PlacesHold == Spec => []PlaceInv
<1>1. Init => PlaceInv
  BY TypeInit, PlacesInit DEF PlaceInv
<1>2. PlaceInv /\ [Next]_vars => PlaceInv'
  BY TypeStep, PlacesStep DEF PlaceInv
<1> QED
  BY <1>1, <1>2, PTL DEF Spec

-----------------------------------------------------------------------------
(* The @finally block.                                                       *)

UnwindInv == PlaceInv /\ BufKnown

LEMMA UnwindInvHolds == Spec => []UnwindInv
<1>1. PlaceInv /\ BufInv => UnwindInv
  BY DEF UnwindInv, BufInv
<1> QED
  BY <1>1, PlacesHold, BufHolds, PTL

\* The step of FinallyOutlivesThrows.
FinallyRuns ==
    \A i \in DOMAIN stack :
       /\ i \notin DOMAIN stack' => Return \/ stack[i].at \in {"call", "finally", "end"}
       /\ i \in DOMAIN stack' /\ stack[i].at \in {"finally", "drop", "end"}
             => stack'[i].at \in {"finally", "drop", "end"}

\* The frames that a jump drops are calls and statements in @finally.
LEMMA LandFinally ==
    ASSUME TypeOK, Places, BufKnown, NEW s, SameFrames(s), Lands(s),
           stack # <<>> => Top.at \in Open \cup {"end"}
    PROVE  FinallyRuns
<1>1. /\ Depth \in Nat /\ Len(stack) = Depth /\ DOMAIN stack = 1 .. Depth /\ buf \in 1 .. Depth
      /\ DOMAIN stack' = 1 .. buf
  BY Stack DEF Depth, Lands
<1>2. Innermost(stack, buf, Depth + 1)
  BY <1>1 DEF BufKnown, AllInnermost
<1>3. buf \notin {NoBuf, Dangling}
  BY <1>1, BufsDiffer
<1>4. GuardedIn(stack, buf) /\ \A i \in buf + 1 .. (Depth + 1) - 1 : ~GuardedIn(stack, i)
  BY <1>2, <1>3 DEF Innermost
<1>5. ASSUME NEW i \in DOMAIN stack, i \notin DOMAIN stack'
      PROVE  stack[i].at \in {"call", "finally", "end"}
  <2>1. i \in buf + 1 .. (Depth + 1) - 1
    BY <1>1, <1>5
  <2>2. ~GuardedIn(stack, i)
    BY <1>4, <2>1
  <2>3. stack[i].at \in Open \cup {"end"}
    <3>1. CASE i < Depth
      BY <1>1, <3>1 DEF Places, PlacesIn
    <3>2. CASE i = Depth
      BY <3>2, EmptyStack DEF Top
    <3> QED
      BY <1>1, <3>1, <3>2
  <2> QED
    BY <2>2, <2>3 DEF GuardedIn, Open
<1>6. ASSUME NEW i \in DOMAIN stack, i \in DOMAIN stack', stack[i].at \in {"finally", "drop", "end"}
      PROVE  stack'[i].at \in {"finally", "drop", "end"}
  <2>1. i # buf
    BY <1>4, <1>6 DEF GuardedIn
  <2>2. i \in 1 .. buf - 1
    BY <1>1, <1>6, <2>1
  <2> QED
    BY <1>6, <2>2 DEF Lands, SameFrames
<1> QED
  BY <1>5, <1>6 DEF FinallyRuns

LEMMA TurnFinally ==
    ASSUME TypeOK, NEW at, NEW state, TopTurns(at, state),
           Top.at \in {"finally", "drop", "end"} => at \in {"finally", "drop", "end"}
    PROVE  FinallyRuns
<1>1. /\ Depth \in Nat /\ DOMAIN stack = 1 .. Depth /\ DOMAIN stack' = 1 .. Depth
  BY Stack DEF TopTurns, TopBecomes
<1>2. \A i \in 1 .. Depth : i = Depth \/ i \in 1 .. Depth - 1
  BY <1>1
<1>3. \A i \in 1 .. Depth - 1 : stack'[i] = stack[i]
  BY DEF TopTurns, TopBecomes
<1>4. stack'[Depth].at = at /\ stack[Depth].at = Top.at
  BY DEF TopTurns, Top
<1> QED
  BY <1>1, <1>2, <1>3, <1>4 DEF FinallyRuns

LEMMA CutFinally ==
    ASSUME TypeOK, stack # <<>>, stack[Depth].at \in {"call", "finally", "end"}, Cut(Depth - 1)
    PROVE  FinallyRuns
<1>1. /\ Depth \in Nat /\ DOMAIN stack = 1 .. Depth /\ DOMAIN stack' = 1 .. Depth - 1
  BY Stack DEF Cut
<1>2. \A i \in 1 .. Depth : i = Depth \/ i \in 1 .. Depth - 1
  BY <1>1
<1>3. \A i \in 1 .. Depth - 1 : stack'[i] = stack[i]
  BY DEF Cut
<1> QED
  BY <1>1, <1>2, <1>3 DEF FinallyRuns

LEMMA ReturnFinally ==
    ASSUME TypeOK, Return
    PROVE  FinallyRuns
<1>1. PICK n : Cut(n)
  BY ReturnStep
<1> QED
  BY <1>1 DEF Cut, FinallyRuns

LEMMA PushFinally ==
    ASSUME TypeOK, NEW at, NEW catches, NEW finally, Pushed(at, catches, finally)
    PROVE  FinallyRuns
<1>1. /\ Depth \in Nat /\ DOMAIN stack = 1 .. Depth /\ DOMAIN stack' = 1 .. Depth + 1
      /\ \A i \in 1 .. Depth : stack'[i] = stack[i]
  BY Stack DEF Pushed
<1>2. \A i \in 1 .. Depth : i \in 1 .. Depth + 1
  BY <1>1
<1> QED
  BY <1>1, <1>2 DEF FinallyRuns

LEMMA FinallyStep ==
    ASSUME UnwindInv, [Next]_vars
    PROVE  FinallyRuns
<1>t. TypeOK /\ Places /\ BufKnown
  BY DEF UnwindInv, PlaceInv
<1>u. ASSUME UNCHANGED stack
      PROVE  FinallyRuns
  BY <1>u DEF FinallyRuns
<1>1. CASE Call
  BY <1>1, <1>t, CallStep, PushFinally
<1>2. CASE Return
  BY <1>2, <1>t, ReturnFinally
<1>3. CASE DeclareLocal
  <2>1. Top.at = "body"
    BY <1>3 DEF DeclareLocal, TopIs
  <2> QED
    BY <1>3, <1>t, <2>1, DeclareLocalStep, TurnFinally
<1>4. ASSUME NEW catches \in Catches, NEW finally \in BOOLEAN, EnterTry(catches, finally)
      PROVE  FinallyRuns
  BY <1>4, <1>t, EnterTryStep, PushFinally
<1>5. CASE Throws
  <2>1. stack # <<>> => Top.at \in Open \cup {"end"}
    BY <1>5, <1>t, ThrowStep DEF ProgramRuns, Open
  <2> QED
    BY <1>5, <1>t, <1>u, <2>1, ThrowStep, LandFinally
<1>6. CASE BodyEnd
  BY <1>6, <1>t, BodyEndStep, TurnFinally
<1>7. CASE HandlerEnd
  BY <1>7, <1>t, HandlerEndStep, TurnFinally
<1>8. CASE FinallyEnd
  BY <1>8, <1>t, FinallyEndStep, TurnFinally
<1>9. CASE CatchClause
  <2>1. Top.at = "test"
    BY <1>9 DEF CatchClause, TestsClause, TopIs
  <2> QED
    BY <1>9, <1>t, <1>u, <2>1, CatchClauseStep, TurnFinally
<1>10. CASE Restore
  BY <1>10, <1>t, RestoreStep, TurnFinally
<1>11. CASE ReleaseShadow
  BY <1>11, <1>t, ReleaseShadowStep, TurnFinally
<1>12. CASE LeaveTry
  <2>1. stack # <<>> /\ Top.at = "end" /\ stack[Depth].at = "end" /\ stack \in Seq(Frame)
    BY <1>12, <1>t, LeaveTryStep, Stack DEF Top
  <2>2. CASE Lands(stack)
    BY <1>t, <2>1, <2>2, StackIsSame, LandFinally
  <2>3. CASE Cut(Depth - 1)
    BY <1>t, <2>1, <2>3, CutFinally
  <2> QED
    BY <1>12, <1>t, <1>u, <2>2, <2>3, LeaveTryStep
<1>13. CASE UNCHANGED vars
  BY <1>13, <1>u DEF vars
<1> QED
  BY <1>1, <1>2, <1>3, <1>4, <1>5, <1>6, <1>7, <1>8, <1>9, <1>10, <1>11, <1>12, <1>13
     DEF Next, Program, Emitted, Throws

\* No exception, from any depth of calls or from a statement's own handlers,
\* makes a @try statement be left without its @finally block, or the block run
\* a second time: in programs whose returns leave @try statements, too.
THEOREM FinallySafety == Spec => FinallyOutlivesThrows
<1>1. UnwindInv /\ [Next]_vars => [FinallyRuns]_vars
  BY FinallyStep
<1>2. Spec => []UnwindInv
  BY UnwindInvHolds
<1>3. [][FinallyRuns]_vars <=> FinallyOutlivesThrows
  BY PTL DEF FinallyOutlivesThrows, FinallyRuns
<1> QED
  BY <1>1, <1>2, <1>3, PTL DEF Spec

-----------------------------------------------------------------------------
(* The objects of the body.                                                  *)

\* A statement that has come to its end has released the object that its shadow
\* points to; a call has no shadows.
Fine(f) ==
    /\ f.at = "end" /\ f.local = "set" => f.byShadow = 1
    /\ f.at = "call" => f.local = "none"

Shadows == \A i \in DOMAIN stack : Fine(stack[i])

LEMMA ShadowStep == TypeOK /\ Shadows /\ [Next]_vars => Shadows'
<1> SUFFICES ASSUME TypeOK, Shadows, [Next]_vars PROVE Shadows'
  OBVIOUS
<1>0. \A i \in DOMAIN stack : Fine(stack[i])
  BY DEF Shadows
<1>g. ASSUME \A i \in DOMAIN stack' : Fine(stack'[i])
      PROVE  Shadows'
  BY <1>g DEF Shadows
<1>d. Depth \in Nat /\ DOMAIN stack = 1 .. Depth
  BY Stack
<1>u. ASSUME UNCHANGED stack
      PROVE  Shadows'
  BY <1>0, <1>g, <1>u
<1>p. ASSUME NEW at \in {"call", "body"}, NEW catches, NEW finally, Pushed(at, catches, finally)
      PROVE  Shadows'
  <2>1. /\ DOMAIN stack' = 1 .. Depth + 1 /\ Fine(stack'[Depth + 1])
        /\ \A i \in 1 .. Depth : stack'[i] = stack[i]
    BY <1>p DEF Pushed, NewFrame, Fine
  <2>2. \A i \in 1 .. Depth + 1 : i \in 1 .. Depth \/ i = Depth + 1
    BY <1>d
  <2> QED
    BY <1>0, <1>d, <1>g, <2>1, <2>2
<1>c. ASSUME NEW n, Cut(n)
      PROVE  Shadows'
  <2>1. DOMAIN stack' = 1 .. n /\ \A i \in 1 .. n : stack'[i] = stack[i]
    BY <1>c DEF Cut
  <2>2. \A i \in 1 .. n : i \in 1 .. Depth
    BY <1>c, <1>d DEF Cut
  <2> QED
    BY <1>0, <1>d, <1>g, <2>1, <2>2
<1>s. ASSUME NEW at, NEW state, TopTurns(at, state), Fine(stack'[Depth])
      PROVE  Shadows'
  <2>1. DOMAIN stack' = 1 .. Depth /\ \A i \in 1 .. Depth - 1 : stack'[i] = stack[i]
    BY <1>s DEF TopTurns, TopBecomes
  <2>2. \A i \in 1 .. Depth : i \in 1 .. Depth - 1 \/ i = Depth
    BY <1>d
  <2>3. \A i \in 1 .. Depth - 1 : i \in 1 .. Depth
    BY <1>d
  <2> QED
    BY <1>0, <1>d, <1>g, <1>s, <2>1, <2>2, <2>3
<1>l. ASSUME NEW s, Lands(s), \A i \in DOMAIN stack : Fine(s[i])
      PROVE  Shadows'
  <2>1. /\ DOMAIN stack' = 1 .. buf /\ stack'[buf].at = "test" /\ buf \in 1 .. Depth
        /\ \A i \in 1 .. buf - 1 : stack'[i] = s[i]
    BY <1>d, <1>l DEF Lands
  <2>4. Fine(stack'[buf])
    BY <2>1 DEF Fine
  <2>2. \A i \in 1 .. buf : i \in 1 .. buf - 1 \/ i = buf
    BY <2>1
  <2>3. \A i \in 1 .. buf - 1 : i \in 1 .. Depth
    BY <1>d, <2>1
  <2> QED
    BY <1>d, <1>g, <1>l, <2>1, <2>2, <2>3, <2>4
<1>1. CASE Call
  BY <1>1, <1>p, CallStep
<1>2. CASE Return
  BY <1>2, <1>c, ReturnStep
<1>3. CASE DeclareLocal
  <2>1. TopTurns("body", Top.state)
    BY <1>3, DeclareLocalStep
  <2>2. Fine(stack'[Depth])
    BY <2>1 DEF TopTurns, Fine
  <2> QED
    BY <1>s, <2>1, <2>2
<1>4. ASSUME NEW catches \in Catches, NEW finally \in BOOLEAN, EnterTry(catches, finally)
      PROVE  Shadows'
  BY <1>4, <1>p, EnterTryStep
<1>5. CASE Throws
  <2>1. ASSUME NEW s, SameFrames(s)
        PROVE  \A i \in DOMAIN stack : Fine(s[i])
    BY <1>0, <2>1 DEF SameFrames, Fine
  <2> QED
    BY <1>5, <1>l, <1>u, <2>1, ThrowStep
<1>6. CASE BodyEnd
  <2>1. TopTurns("test", Top.state)
    BY <1>6, BodyEndStep
  <2>2. Fine(stack'[Depth])
    BY <2>1 DEF TopTurns, Fine
  <2> QED
    BY <1>s, <2>1, <2>2
<1>7. CASE HandlerEnd
  <2>1. TopTurns("test", Top.state)
    BY <1>7, HandlerEndStep
  <2>2. Fine(stack'[Depth])
    BY <2>1 DEF TopTurns, Fine
  <2> QED
    BY <1>s, <2>1, <2>2
<1>8. CASE FinallyEnd
  <2>1. TopTurns("drop", Top.state)
    BY <1>8, FinallyEndStep
  <2>2. Fine(stack'[Depth])
    BY <2>1 DEF TopTurns, Fine
  <2> QED
    BY <1>s, <2>1, <2>2
<1>9. CASE CatchClause
  <2>1. ASSUME NEW at \in {"handler", "test"}, NEW state, TopTurns(at, state)
        PROVE  Shadows'
    <3>1. Fine(stack'[Depth])
      BY <2>1 DEF TopTurns, Fine
    <3> QED
      BY <1>s, <2>1, <3>1
  <2> QED
    BY <1>9, <1>u, <2>1, CatchClauseStep
<1>10. CASE Restore
  <2>1. TopTurns(IF Top.finally THEN "finally" ELSE "drop", Top.state)
    BY <1>10, RestoreStep
  <2>2. Fine(stack'[Depth])
    BY <2>1 DEF TopTurns, Fine
  <2> QED
    BY <1>s, <2>1, <2>2
<1>11. CASE ReleaseShadow
  <2>1. TopTurns("end", Top.state) /\ Fine(stack'[Depth])
    BY <1>11, ReleaseShadowStep DEF TopTurns, Fine
  <2> QED
    BY <1>s, <2>1
<1>12. CASE LeaveTry
  BY <1>0, <1>12, <1>c, <1>l, <1>u, LeaveTryStep
<1>13. CASE UNCHANGED vars
  BY <1>13, <1>u DEF vars
<1> QED
  BY <1>1, <1>2, <1>3, <1>4, <1>5, <1>6, <1>7, <1>8, <1>9, <1>10, <1>11, <1>12, <1>13
     DEF Next, Program, Emitted, Throws

LEMMA ShadowsHold == Spec => []Shadows
<1>1. Init => TypeOK /\ Shadows
  BY TypeInit, EmptyStack DEF Init, Shadows
<1>2. TypeOK /\ Shadows /\ [Next]_vars => (TypeOK /\ Shadows)'
  BY TypeStep, ShadowStep
<1> QED
  BY <1>1, <1>2, PTL DEF Spec

\* The step of ReleasedWhenLeft.
ReleasedThen ==
    \A i \in DOMAIN stack \ DOMAIN stack' :
       stack[i].local = "set" /\ stack[i].at # "finally"
           => Return \/ stack[i].byArc + stack[i].byShadow > 0

LEMMA LeftStep ==
    ASSUME TypeOK, Shadows, FinallyRuns
    PROVE  ReleasedThen
<1> SUFFICES ASSUME NEW i \in DOMAIN stack, i \notin DOMAIN stack',
                    stack[i].local = "set", stack[i].at # "finally", ~Return
             PROVE  stack[i].byArc + stack[i].byShadow > 0
  BY DEF ReleasedThen
<1>1. stack[i].at \in {"call", "end"}
  BY DEF FinallyRuns
<1>2. stack[i].byShadow = 1
  BY <1>1 DEF Shadows, Fine
<1>3. stack[i].byArc \in 0 .. MaxReleases
  BY Stack, Fields
<1> QED
  BY <1>2, <1>3, BoundsAreNat

\* Whatever throws, calls and handlers make a @try statement be left, the object
\* that its body owns has been given up by then, by ARC or by the code after the
\* clauses: for an exception drops only calls, which have no shadows, statements
\* whose own @finally block threw, and statements that have come to their end.
THEOREM ReleaseSafety == Spec => ReleasedWhenLeft
<1>1. TypeOK /\ Shadows /\ UnwindInv /\ [Next]_vars => [ReleasedThen]_vars
  BY FinallyStep, LeftStep
<1>2. [][ReleasedThen]_vars <=> ReleasedWhenLeft
  BY PTL DEF ReleasedWhenLeft, ReleasedThen
<1> QED
  BY <1>1, <1>2, TypeCorrect, ShadowsHold, UnwindInvHolds, PTL DEF Spec

-----------------------------------------------------------------------------
(* The emitted code implements the meaning of the statements.                *)

Blk == {BlockOf(f) : f \in Frame}

LEMMA BlocksShape ==
    ASSUME NEW s \in Seq(Frame)
    PROVE  /\ BlocksOf(s) \in Seq(Blk) /\ Len(BlocksOf(s)) = Len(s)
           /\ DOMAIN BlocksOf(s) = DOMAIN s
           /\ \A i \in DOMAIN s : BlocksOf(s)[i] = BlockOf(s[i]) /\ BlockOf(s[i]) \in Blk
<1>1. \A i \in DOMAIN s : BlockOf(s[i]) \in Blk
  BY DEF Blk
<1>2. Len(s) \in Nat /\ DOMAIN s = 1 .. Len(s)
  OBVIOUS
<1>3. BlocksOf(s) \in [1 .. Len(s) -> Blk]
  BY <1>1, <1>2 DEF BlocksOf
<1>4. BlocksOf(s) \in Seq(Blk) /\ Len(BlocksOf(s)) = Len(s)
  BY <1>2, <1>3
<1> QED
  BY <1>1, <1>4 DEF BlocksOf

LEMMA PushMeans ==
    ASSUME TypeOK, NEW at \in {"call", "body"}, NEW catches, NEW finally, Pushed(at, catches, finally)
    PROVE  BlocksOf(stack') = Append(BlocksOf(stack), Meaning!Block(at, catches, finally))
<1> DEFINE b == BlocksOf(stack)
           c == BlocksOf(stack')
           e == BlockOf(stack'[Depth + 1])
<1>1. stack \in Seq(Frame) /\ Len(stack) = Depth /\ Depth \in Nat /\ DOMAIN stack = 1 .. Depth
  BY Stack
<1>2. /\ stack' \in Seq(Frame) /\ Len(stack') = Depth + 1 /\ DOMAIN stack' = 1 .. Depth + 1
      /\ \A i \in 1 .. Depth : stack'[i] = stack[i]
  BY DEF Pushed
<1>3. /\ b \in Seq(Blk) /\ Len(b) = Depth /\ \A i \in 1 .. Depth : b[i] = BlockOf(stack[i])
  BY <1>1, BlocksShape
<1>4. /\ c \in Seq(Blk) /\ Len(c) = Depth + 1
      /\ \A i \in 1 .. Depth + 1 : c[i] = BlockOf(stack'[i]) /\ c[i] \in Blk
  BY <1>2, BlocksShape
<1>5. e = Meaning!Block(at, catches, finally)
  BY DEF Pushed, BlockOf, Meaning!Block
<1>6. e \in Blk /\ c[Depth + 1] = e /\ \A i \in 1 .. Depth : c[i] = b[i]
  BY <1>1, <1>2, <1>3, <1>4
<1> HIDE DEF b, c, e
<1>7. /\ Append(b, e) \in Seq(Blk) /\ Len(Append(b, e)) = Depth + 1 /\ Append(b, e)[Depth + 1] = e
      /\ \A i \in 1 .. Depth : Append(b, e)[i] = b[i]
  BY <1>3, <1>6, AppendProperties
<1>8. \A i \in 1 .. Depth + 1 : i \in 1 .. Depth \/ i = Depth + 1
  BY <1>1
<1>9. c = Append(b, e)
  BY <1>4, <1>6, <1>7, <1>8, SeqEqual
<1> QED
  BY <1>5, <1>9 DEF b, c

LEMMA CutMeans ==
    ASSUME TypeOK, NEW n, Cut(n)
    PROVE  BlocksOf(stack') = SubSeq(BlocksOf(stack), 1, n)
<1> DEFINE b == BlocksOf(stack)
           c == BlocksOf(stack')
<1>1. /\ stack \in Seq(Frame) /\ Len(stack) = Depth /\ DOMAIN stack = 1 .. Depth
      /\ n \in 0 .. Len(stack) /\ \A i \in 1 .. n : i \in 1 .. Depth
  BY Stack DEF Cut
<1>2. /\ stack' \in Seq(Frame) /\ Len(stack') = n /\ DOMAIN stack' = 1 .. n
      /\ \A i \in 1 .. n : stack'[i] = stack[i]
  BY DEF Cut
<1>3. /\ b \in Seq(Blk) /\ Len(b) = Len(stack) /\ \A i \in 1 .. Depth : b[i] = BlockOf(stack[i])
  BY <1>1, BlocksShape
<1>4. /\ c \in Seq(Blk) /\ Len(c) = n /\ \A i \in 1 .. n : c[i] = BlockOf(stack'[i])
  BY <1>2, BlocksShape
<1>5. \A i \in 1 .. n : c[i] = b[i]
  BY <1>1, <1>2, <1>3, <1>4
<1> HIDE DEF b, c
<1>6. /\ SubSeq(b, 1, n) \in Seq(Blk) /\ Len(SubSeq(b, 1, n)) = n
      /\ \A i \in 1 .. n : SubSeq(b, 1, n)[i] = b[i]
  BY <1>1, <1>3, CutShape
<1>7. c = SubSeq(b, 1, n)
  BY <1>4, <1>5, <1>6, SeqEqual
<1> QED
  BY <1>7 DEF b, c

LEMMA TurnMeans ==
    ASSUME TypeOK, NEW at, NEW state, TopTurns(at, state)
    PROVE  BlocksOf(stack') = [BlocksOf(stack) EXCEPT ![Depth] = BlockOf(stack'[Depth])]
<1> DEFINE b == BlocksOf(stack)
           c == BlocksOf(stack')
           e == BlockOf(stack'[Depth])
<1>1. /\ stack \in Seq(Frame) /\ Len(stack) = Depth /\ DOMAIN stack = 1 .. Depth
      /\ Depth \in Nat \ {0}
  BY Stack, TopFrame DEF TopTurns, TopBecomes
<1>2. /\ stack' \in Seq(Frame) /\ Len(stack') = Depth /\ DOMAIN stack' = 1 .. Depth
      /\ \A i \in 1 .. Depth - 1 : stack'[i] = stack[i]
  BY DEF TopTurns, TopBecomes
<1>3. /\ b \in Seq(Blk) /\ Len(b) = Depth /\ \A i \in 1 .. Depth : b[i] = BlockOf(stack[i])
  BY <1>1, BlocksShape
<1>4. /\ c \in Seq(Blk) /\ Len(c) = Depth
      /\ \A i \in 1 .. Depth : c[i] = BlockOf(stack'[i]) /\ BlockOf(stack'[i]) \in Blk
  BY <1>2, BlocksShape
<1>5. /\ e \in Blk /\ c[Depth] = e /\ \A i \in 1 .. Depth - 1 : c[i] = b[i]
  <2>1. Depth \in 1 .. Depth /\ \A i \in 1 .. Depth - 1 : i \in 1 .. Depth
    BY <1>1
  <2> QED
    BY <1>2, <1>3, <1>4, <2>1
<1>6. b # <<>>
  BY <1>1, <1>3
<1> HIDE DEF b, c, e
<1>7. LET r == [b EXCEPT ![Depth] = e]
      IN  /\ r \in Seq(Blk) /\ Len(r) = Depth /\ r[Depth] = e
          /\ \A i \in 1 .. Depth - 1 : r[i] = b[i]
  BY <1>3, <1>5, <1>6, SetShape
<1>8. \A i \in 1 .. Depth : i \in 1 .. Depth - 1 \/ i = Depth
  BY <1>1
<1>9. c = [b EXCEPT ![Depth] = e]
  BY <1>4, <1>5, <1>7, <1>8, SeqEqual
<1> QED
  BY <1>9 DEF b, c, e

\* The blocks' EXCEPTs.
WithPart(b, part) == [b EXCEPT !.part = part]
WithPending(b, part, pending) == [b EXCEPT !.part = part, !.pending = pending]

IsBlock(b) ==
    b = [part |-> b.part, catches |-> b.catches, finally |-> b.finally, pending |-> b.pending]

LEMMA BlockExcept ==
    ASSUME NEW b, IsBlock(b), NEW q, NEW y
    PROVE  /\ WithPart(b, q) = [part |-> q, catches |-> b.catches, finally |-> b.finally,
                                pending |-> b.pending]
           /\ WithPending(b, q, y) = [part |-> q, catches |-> b.catches, finally |-> b.finally,
                                      pending |-> y]
<1>1. DOMAIN b = {"part", "catches", "finally", "pending"}
  BY DEF IsBlock
<1>2. [b EXCEPT !.part = q] = [i \in DOMAIN b |-> IF i = "part" THEN q ELSE b[i]]
  OBVIOUS
<1>3. [part |-> q, catches |-> b.catches, finally |-> b.finally, pending |-> b.pending]
         = [i \in {"part", "catches", "finally", "pending"} |-> IF i = "part" THEN q ELSE b[i]]
  OBVIOUS
<1>4. [b EXCEPT !.part = q, !.pending = y]
         = [i \in DOMAIN b |-> IF i = "pending" THEN y ELSE IF i = "part" THEN q ELSE b[i]]
  OBVIOUS
<1>5. [part |-> q, catches |-> b.catches, finally |-> b.finally, pending |-> y]
         = [i \in {"part", "catches", "finally", "pending"} |->
               IF i = "pending" THEN y ELSE IF i = "part" THEN q ELSE b[i]]
  OBVIOUS
<1>6. WithPart(b, q) = [part |-> q, catches |-> b.catches, finally |-> b.finally,
                        pending |-> b.pending]
  BY <1>1, <1>2, <1>3 DEF WithPart
<1>7. WithPending(b, q, y) = [part |-> q, catches |-> b.catches, finally |-> b.finally,
                              pending |-> y]
  BY <1>1, <1>4, <1>5 DEF WithPending
<1> QED
  BY <1>6, <1>7

LEMMA LandMeans ==
    ASSUME TypeOK, NEW s, SameFrames(s), Lands(s), stack[buf].at \in {"body", "handler"}
    PROVE  BlocksOf(stack') = Append(SubSeq(BlocksOf(stack), 1, buf - 1),
                                     [BlocksOf(stack)[buf] EXCEPT !.part = "search"])
<1> DEFINE b == BlocksOf(stack)
           c == BlocksOf(stack')
           e == BlockOf(stack'[buf])
<1>1. /\ stack \in Seq(Frame) /\ Len(stack) = Depth /\ DOMAIN stack = 1 .. Depth
      /\ Depth \in Nat /\ buf \in 1 .. Depth
      /\ \A i \in 1 .. buf - 1 : i \in 1 .. Depth
  BY Stack DEF Lands
<1>2. /\ stack' \in Seq(Frame) /\ Len(stack') = buf /\ DOMAIN stack' = 1 .. buf
      /\ \A i \in 1 .. buf - 1 : stack'[i] = s[i]
  BY DEF Lands
<1>3. /\ b \in Seq(Blk) /\ Len(b) = Depth /\ DOMAIN b = 1 .. Depth
      /\ \A i \in 1 .. Depth : b[i] = BlockOf(stack[i])
  BY <1>1, BlocksShape
<1>4. /\ c \in Seq(Blk) /\ Len(c) = buf
      /\ \A i \in 1 .. buf : c[i] = BlockOf(stack'[i]) /\ BlockOf(stack'[i]) \in Blk
  BY <1>2, BlocksShape
<1>5. \A i \in 1 .. buf - 1 : c[i] = b[i]
  <2>1. \A i \in 1 .. Depth : BlockOf(s[i]) = BlockOf(stack[i])
    BY <1>1 DEF BlockOf, SameFrames
  <2>2. \A i \in 1 .. buf - 1 : i \in 1 .. buf
    BY <1>1
  <2> QED
    BY <1>1, <1>2, <1>3, <1>4, <2>1, <2>2
<1>6. e = [b[buf] EXCEPT !.part = "search"]
  <2>1. b[buf] = BlockOf(stack[buf])
    BY <1>1, <1>3
  <2>2. /\ stack'[buf].at = "test" /\ stack'[buf].state = 1
        /\ stack'[buf].catches = stack[buf].catches /\ stack'[buf].finally = stack[buf].finally
    BY <1>1 DEF Lands, SameFrames
  <2> HIDE DEF b
  <2>3. e = [part |-> "search", catches |-> stack[buf].catches, finally |-> stack[buf].finally,
             pending |-> FALSE]
    BY <2>2 DEF BlockOf
  <2>4. b[buf] = [part |-> stack[buf].at, catches |-> stack[buf].catches,
                  finally |-> stack[buf].finally, pending |-> FALSE]
    BY <2>1 DEF BlockOf
  <2> HIDE DEF e
  <2>5. /\ IsBlock(b[buf]) /\ b[buf].catches = stack[buf].catches
        /\ b[buf].finally = stack[buf].finally /\ b[buf].pending = FALSE
    BY <2>4 DEF IsBlock
  <2>6. e = WithPart(b[buf], "search")
    BY <2>3, <2>5, BlockExcept
  <2> QED
    BY <2>6 DEF WithPart
<1>7. e \in Blk /\ c[buf] = e /\ buf \in DOMAIN b
  BY <1>1, <1>3, <1>4
<1> HIDE DEF b, c, e
<1>8. LET r == Append(SubSeq(b, 1, buf - 1), e)
      IN  /\ r \in Seq(Blk) /\ Len(r) = buf /\ r[buf] = e
          /\ \A i \in 1 .. buf - 1 : r[i] = b[i]
  BY <1>3, <1>7, LandShape
<1>9. \A i \in 1 .. buf : i \in 1 .. buf - 1 \/ i = buf
  BY <1>1
<1>10. c = Append(SubSeq(b, 1, buf - 1), e)
  BY <1>4, <1>5, <1>7, <1>8, <1>9, SeqEqual
<1> QED
  BY <1>6, <1>10 DEF b, c

LEMMA MeaningTop ==
    ASSUME TypeOK, stack # <<>>
    PROVE  /\ Meaning!Depth = Depth /\ BlocksOf(stack) # <<>> /\ Meaning!Top = BlockOf(Top)
           /\ Meaning!Top.part = BlockOf(Top).part
<1>1. stack \in Seq(Frame) /\ Len(stack) = Depth /\ Depth \in DOMAIN stack
  BY Stack
<1>2. Len(BlocksOf(stack)) = Depth /\ BlocksOf(stack)[Depth] = BlockOf(stack[Depth])
  BY <1>1, BlocksShape
<1>3. Depth # 0
  BY <1>1
<1>4. BlocksOf(stack) # <<>>
  BY <1>2, <1>3, EmptyStack
<1> QED
  BY <1>2, <1>4 DEF Meaning!Depth, Meaning!Top, Top

LEMMA MeaningRuns ==
    ASSUME TypeOK, ProgramRuns
    PROVE  Meaning!ProgramRuns
<1>1. CASE stack = <<>>
  <2>1. BlocksOf(stack) = <<>>
    BY <1>1 DEF BlocksOf
  <2> QED
    BY <2>1 DEF Meaning!ProgramRuns, ProgramRuns
<1>2. CASE stack # <<>>
  <2>1. BlockOf(Top).part \in {"call", "body", "handler", "finally"}
    BY <1>2 DEF ProgramRuns, BlockOf
  <2> QED
    BY <1>2, <2>1, MeaningTop DEF Meaning!ProgramRuns, ProgramRuns
<1> QED
  BY <1>1, <1>2

LEMMA MeaningTurns ==
    ASSUME TypeOK, NEW at, NEW state, TopTurns(at, state)
    PROVE  /\ stack # <<>>
           /\ Meaning!SetTop(BlockOf(stack'[Depth]))
           /\ BlockOf(Top).catches = Top.catches /\ BlockOf(Top).finally = Top.finally
           /\ BlockOf(stack'[Depth]).catches = Top.catches
           /\ BlockOf(stack'[Depth]).finally = Top.finally
<1>1. stack # <<>>
  BY DEF TopTurns, TopBecomes
<1>2. Meaning!SetTop(BlockOf(stack'[Depth]))
  BY <1>1, TurnMeans, MeaningTop DEF Meaning!SetTop
<1> QED
  BY <1>1, <1>2 DEF TopTurns, Agree, BlockOf

\* A jump goes where the exception goes.
LEMMA MeaningUnwinds ==
    ASSUME ~ReturnsInTry, TypeOK, Places, BufKnown, NEW s, SameFrames(s),
           stack # <<>> => Top.at \in Open \cup {"end"},
           \/ Lands(s)
           \/ buf \notin DOMAIN stack /\ dead' = TRUE /\ UNCHANGED <<stack, buf>>
    PROVE  Meaning!Unwind
<1>1. stack \in Seq(Frame) /\ Len(stack) = Depth /\ DOMAIN stack = 1 .. Depth /\ Depth \in Nat
  BY Stack
<1>2. DOMAIN BlocksOf(stack) = 1 .. Depth /\ \A i \in 1 .. Depth : BlocksOf(stack)[i] = BlockOf(stack[i])
  BY <1>1, BlocksShape
<1>3. Innermost(stack, buf, Depth + 1)
  BY <1>1 DEF BufKnown, AllInnermost
<1>4. ASSUME NEW i \in 1 .. Depth
      PROVE  /\ BlocksOf(stack)[i].part \in {"body", "handler"} <=> GuardedIn(stack, i)
             /\ GuardedIn(stack, i) => stack[i].at \in {"body", "handler"}
  <2>1. stack[i].at \in Open \cup {"end"}
    <3>1. CASE i < Depth
      BY <1>1, <3>1 DEF Places, PlacesIn
    <3>2. CASE i = Depth
      BY <1>1, <3>2, EmptyStack DEF Top
    <3> QED
      BY <1>1, <3>1, <3>2
  <2>2. BlocksOf(stack)[i].part = stack[i].at
    BY <1>2, <2>1 DEF BlockOf, Open
  <2> QED
    BY <2>1, <2>2 DEF GuardedIn, Open
<1>5. CASE Lands(s)
  <2>1. buf \in 1 .. Depth /\ buf # NoBuf /\ UNCHANGED dead
    BY <1>1, <1>5, BufsDiffer DEF Lands
  <2>2. GuardedIn(stack, buf) /\ \A i \in buf + 1 .. (Depth + 1) - 1 : ~GuardedIn(stack, i)
    BY <1>3, <2>1 DEF Innermost
  <2>3. \A j \in 1 .. Depth : GuardedIn(stack, j) => j <= buf
    <3>1. \A j \in 1 .. Depth : j <= buf \/ j \in buf + 1 .. (Depth + 1) - 1
      BY <1>1, <2>1
    <3> QED
      BY <2>2, <3>1
  <2>4. Meaning!Receives(buf)
    BY <1>2, <1>4, <2>1, <2>2, <2>3 DEF Meaning!Receives
  <2>5. BlocksOf(stack') = Append(SubSeq(BlocksOf(stack), 1, buf - 1),
                                  [BlocksOf(stack)[buf] EXCEPT !.part = "search"])
    BY <1>4, <1>5, <2>1, <2>2, LandMeans
  <2>6. buf \in DOMAIN BlocksOf(stack)
    BY <1>2, <2>1
  <2> QED
    BY <2>1, <2>4, <2>5, <2>6 DEF Meaning!Unwind
<1>6. CASE buf \notin DOMAIN stack /\ dead' = TRUE /\ UNCHANGED <<stack, buf>>
  <2>1. \A i \in 1 .. Depth : ~GuardedIn(stack, i)
    <3>1. (Depth + 1) - 1 = Depth
      BY <1>1
    <3> QED
      BY <1>1, <1>3, <1>6, <3>1 DEF Innermost
  <2>2. \A i \in DOMAIN BlocksOf(stack) : ~Meaning!Receives(i)
    BY <1>2, <1>4, <2>1 DEF Meaning!Receives
  <2> QED
    BY <1>6, <2>2 DEF Meaning!Unwind
<1> QED
  BY <1>5, <1>6

LEMMA MeaningInit == Init => Meaning!Begin
<1>1. Init => BlocksOf(stack) = <<>>
  BY DEF Init, BlocksOf
<1> QED
  BY <1>1 DEF Init, Meaning!Begin

LEMMA BlockEndMeans ==
    ASSUME TypeOK, Places, BodyEnd \/ HandlerEnd
    PROVE  Meaning!BlockEnds
<1>1. /\ TopTurns("test", Top.state) /\ UNCHANGED <<value, dead>>
      /\ Top.at \in {"body", "handler"} /\ ProgramRuns
  BY BodyEndStep, HandlerEndStep DEF BodyEnd, HandlerEnd, TopIs, ProgramRuns
<1>2. /\ stack # <<>> /\ Meaning!SetTop(BlockOf(stack'[Depth]))
      /\ BlockOf(stack'[Depth]).catches = Top.catches /\ BlockOf(stack'[Depth]).finally = Top.finally
  BY <1>1, MeaningTurns
<1>3. Top.state \in {0, 2}
  BY <1>1, <1>2, TopOk DEF FrameOk
<1>4. BlockOf(Top) = [part |-> Top.at, catches |-> Top.catches, finally |-> Top.finally,
                      pending |-> FALSE]
  BY <1>1 DEF BlockOf
<1>5. BlockOf(stack'[Depth]) = [part |-> "closing", catches |-> Top.catches,
                                finally |-> Top.finally, pending |-> FALSE]
  <2>1. /\ stack'[Depth].at = "test" /\ stack'[Depth].state = Top.state /\ Top.state # 1
        /\ stack'[Depth].catches = Top.catches /\ stack'[Depth].finally = Top.finally
    BY <1>1, <1>3 DEF TopTurns, Agree
  <2> QED
    BY <2>1 DEF BlockOf
<1>6. Meaning!ProgramRuns /\ BlocksOf(stack) # <<>> /\ Meaning!Top = BlockOf(Top)
  BY <1>1, <1>2, MeaningRuns, MeaningTop
<1>7. BlockOf(stack'[Depth]) = [Meaning!Top EXCEPT !.part = "closing"]
  <2>1. Meaning!Top = [part |-> Top.at, catches |-> Top.catches, finally |-> Top.finally,
                       pending |-> FALSE]
    BY <1>4, <1>6
  <2>2. /\ IsBlock(Meaning!Top) /\ Meaning!Top.catches = Top.catches
        /\ Meaning!Top.finally = Top.finally /\ Meaning!Top.pending = (FALSE)
    BY <2>1 DEF IsBlock
  <2>3. BlockOf(stack'[Depth]) = WithPart(Meaning!Top, "closing")
    BY <1>5, <2>2, BlockExcept
  <2> QED
    BY <2>3 DEF WithPart
<1>8. Meaning!Top.part \in {"body", "handler"}
  BY <1>1, <1>4, <1>6
<1> QED
  BY <1>1, <1>2, <1>6, <1>7, <1>8 DEF Meaning!BlockEnds, Meaning!Set

LEMMA FinallyEndMeans ==
    ASSUME TypeOK, FinallyEnd
    PROVE  Meaning!FinallyEnds
<1>1. /\ TopTurns("drop", Top.state) /\ UNCHANGED <<value, dead>>
      /\ Top.at = "finally" /\ ProgramRuns
  BY FinallyEndStep DEF FinallyEnd, TopIs, ProgramRuns
<1>2. stack # <<>> /\ Meaning!SetTop(BlockOf(stack'[Depth]))
  BY <1>1, MeaningTurns
<1>3. BlockOf(Top) = [part |-> "finally", catches |-> Top.catches, finally |-> Top.finally,
                      pending |-> Top.state = 1]
  BY <1>1 DEF BlockOf
<1>4. BlockOf(stack'[Depth]) = [part |-> "end", catches |-> Top.catches,
                                finally |-> Top.finally, pending |-> Top.state = 1]
  BY <1>1 DEF BlockOf, TopTurns, Agree
<1>5. Meaning!ProgramRuns /\ BlocksOf(stack) # <<>> /\ Meaning!Top = BlockOf(Top)
  BY <1>1, <1>2, MeaningRuns, MeaningTop
<1>6. BlockOf(stack'[Depth]) = [Meaning!Top EXCEPT !.part = "end"]
  <2>1. Meaning!Top = [part |-> "finally", catches |-> Top.catches, finally |-> Top.finally,
                       pending |-> Top.state = 1]
    BY <1>3, <1>5
  <2>2. /\ IsBlock(Meaning!Top) /\ Meaning!Top.catches = Top.catches
        /\ Meaning!Top.finally = Top.finally /\ Meaning!Top.pending = (Top.state = 1)
    BY <2>1 DEF IsBlock
  <2>3. BlockOf(stack'[Depth]) = WithPart(Meaning!Top, "end")
    BY <1>4, <2>2, BlockExcept
  <2> QED
    BY <2>3 DEF WithPart
<1>7. Meaning!Top.part = "finally"
  BY <1>3, <1>5
<1> QED
  BY <1>1, <1>2, <1>5, <1>6, <1>7 DEF Meaning!FinallyEnds, Meaning!Set

\* The clauses of a statement.
LEMMA TopClauses ==
    ASSUME TypeOK, stack # <<>>
    PROVE  /\ Top.catches \in Seq(Class \cup {AnyType}) /\ Top.arm \in Nat \ {0}
           /\ \A j \in DOMAIN Top.catches : Top.catches[j] # Nil
<1>1. Top.catches \in Catches \cup {<<>>} /\ Top.arm \in Nat \ {0}
  BY TopFrame, Fields
<1>2. <<>> \in Seq(Class \cup {AnyType})
  OBVIOUS
<1>3. Top.catches \in Seq(Class \cup {AnyType})
  BY <1>1, <1>2, CatchesAreClauses
<1>4. \A j \in DOMAIN Top.catches : Top.catches[j] \in Class \cup {AnyType}
  BY <1>3
<1> QED
  BY <1>1, <1>3, <1>4, SentinelsDiffer

LEMMA RestoreMeans ==
    ASSUME TypeOK, Places, Restore
    PROVE  Meaning!ToFinally
<1> DEFINE a == IF Top.finally THEN "finally" ELSE "drop"
<1>1. /\ TopTurns(a, Top.state) /\ UNCHANGED <<value, dead>>
      /\ Top.at = "test" /\ Top.arm \notin DOMAIN Top.catches /\ ~dead
  BY RestoreStep DEF Restore, TopIs
<1>2. stack # <<>> /\ Meaning!SetTop(BlockOf(stack'[Depth]))
  BY <1>1, MeaningTurns
<1>3. BlockOf(Top) = [part |-> IF Top.state = 1 THEN "search" ELSE "closing",
                      catches |-> Top.catches, finally |-> Top.finally, pending |-> FALSE]
  BY <1>1 DEF BlockOf
<1>4. BlockOf(stack'[Depth]) = [part |-> IF Top.finally THEN "finally" ELSE "end",
                                catches |-> Top.catches,
                                finally |-> Top.finally, pending |-> Top.state = 1]
  BY <1>1 DEF BlockOf, TopTurns, Agree
<1>5. BlocksOf(stack) # <<>> /\ Meaning!Top = BlockOf(Top)
  BY <1>2, MeaningTop
<1>6. BlockOf(stack'[Depth]) = [Meaning!Top EXCEPT !.part = IF Top.finally THEN "finally" ELSE "end",
                                                   !.pending = (Top.state = 1)]
  <2>1. Meaning!Top = [part |-> IF Top.state = 1 THEN "search" ELSE "closing",
                       catches |-> Top.catches, finally |-> Top.finally, pending |-> FALSE]
    BY <1>3, <1>5
  <2>2. /\ IsBlock(Meaning!Top) /\ Meaning!Top.catches = Top.catches
        /\ Meaning!Top.finally = Top.finally
    BY <2>1 DEF IsBlock
  <2>3. BlockOf(stack'[Depth]) = WithPending(Meaning!Top, IF Top.finally THEN "finally" ELSE "end",
                                             Top.state = 1)
    BY <1>4, <2>2, BlockExcept
  <2> QED
    BY <2>3 DEF WithPending
<1>7. /\ Meaning!Top.finally = Top.finally /\ Meaning!Top.catches = Top.catches
      /\ (Meaning!Top.part = "search") = (Top.state = 1)
      /\ Meaning!Top.part = "closing" \/ (Meaning!Top.part = "search" /\ Top.state = 1)
  BY <1>3, <1>5
<1>8. ASSUME Top.state = 1, NEW j \in DOMAIN Top.catches
      PROVE  ~Meaning!StopsAt(Top.catches[j])
  <2>1. j < Top.arm
    BY <1>1, <1>2, TopClauses
  <2>2. Top.catches[j] \notin {AnyType, value} /\ value # Nil
    BY <1>1, <1>2, <1>8, <2>1, TopOk DEF FrameOk
  <2> QED
    BY <2>2 DEF Meaning!StopsAt
<1>9. Meaning!SetTop([Meaning!Top EXCEPT !.part = IF Meaning!Top.finally THEN "finally" ELSE "end",
                                         !.pending = (Meaning!Top.part = "search")])
  BY <1>2, <1>6, <1>7
<1> QED
  BY <1>1, <1>5, <1>7, <1>8, <1>9 DEF Meaning!ToFinally

\* A step that leaves the block on top as it is, in the abstract.
LEMMA BlockStutters ==
    ASSUME TypeOK, NEW at, NEW state, TopTurns(at, state), BlockOf(stack'[Depth]) = BlockOf(Top)
    PROVE  BlocksOf(stack') = BlocksOf(stack)
<1> DEFINE b == BlocksOf(stack)
           e == BlockOf(Top)
<1>1. stack \in Seq(Frame) /\ Len(stack) = Depth /\ Depth \in DOMAIN stack /\ stack # <<>>
  BY Stack DEF TopTurns, TopBecomes
<1>2. b \in Seq(Blk) /\ Depth \in DOMAIN b /\ b[Depth] = e
  BY <1>1, BlocksShape DEF Top
<1>3. BlocksOf(stack') = [b EXCEPT ![Depth] = e]
  BY TurnMeans
<1> HIDE DEF b, e
<1>4. [b EXCEPT ![Depth] = e] = b
  BY <1>2
<1> QED
  BY <1>3, <1>4 DEF b

LEMMA CatchMeans ==
    ASSUME TypeOK, Places, CatchClause
    PROVE  Meaning!Catch \/ UNCHANGED <<BlocksOf(stack), value, dead>>
<1>1. /\ stack # <<>> /\ Top.at = "test" /\ Top.arm \in DOMAIN Top.catches /\ ~dead
      /\ Clause = Top.catches[Top.arm] /\ UNCHANGED <<buf, value>>
  BY CatchClauseStep DEF TestsClause, TopIs, Clause
<1>2. BlocksOf(stack) # <<>> /\ Meaning!Top = BlockOf(Top)
  BY <1>1, MeaningTop
<1>3. BlockOf(Top) = [part |-> IF Top.state = 1 THEN "search" ELSE "closing",
                      catches |-> Top.catches, finally |-> Top.finally, pending |-> FALSE]
  BY <1>1 DEF BlockOf
<1>4. Meaning!Top.catches = Top.catches /\ (Top.state = 1 => Meaning!Top.part = "search")
  BY <1>2, <1>3
<1>5. ASSUME Top.state = 1, NEW j \in 1 .. Top.arm - 1
      PROVE  ~Meaning!StopsAt(Top.catches[j])
  <2>1. j < Top.arm /\ j \in DOMAIN Top.catches
    BY <1>1, TopClauses
  <2>2. Top.catches[j] \notin {AnyType, value} /\ value # Nil
    BY <1>1, <1>5, <2>1, TopOk DEF FrameOk
  <2> QED
    BY <2>2 DEF Meaning!StopsAt
<1>6. CASE /\ Top.state = 1 /\ Clause # AnyType /\ value = Nil
           /\ dead' = TRUE /\ UNCHANGED stack
  <2>1. Clause \notin {AnyType, value} /\ Meaning!StopsAt(Clause)
    BY <1>1, <1>6, TopClauses DEF Meaning!StopsAt
  <2> QED
    BY <1>1, <1>2, <1>4, <1>5, <1>6, <2>1 DEF Meaning!Catch
<1>7. CASE /\ Top.state = 1 /\ Clause \in {AnyType, value}
           /\ TopTurns("handler", 2) /\ UNCHANGED dead
  <2>1. Meaning!SetTop(BlockOf(stack'[Depth]))
    BY <1>7, MeaningTurns
  <2>2. BlockOf(stack'[Depth]) = [part |-> "handler", catches |-> Top.catches,
                                  finally |-> Top.finally, pending |-> FALSE]
    BY <1>7 DEF BlockOf, TopTurns, Agree
  <2>3. /\ IsBlock(Meaning!Top) /\ Meaning!Top.finally = Top.finally /\ Meaning!Top.pending = FALSE
    BY <1>2, <1>3 DEF IsBlock
  <2>4. BlockOf(stack'[Depth]) = WithPart(Meaning!Top, "handler")
    BY <1>4, <2>2, <2>3, BlockExcept
  <2>5. Meaning!Set("handler")
    BY <2>1, <2>4 DEF WithPart, Meaning!Set
  <2>6. Meaning!StopsAt(Clause)
    BY <1>7 DEF Meaning!StopsAt
  <2> QED
    BY <1>1, <1>2, <1>4, <1>5, <1>7, <2>5, <2>6 DEF Meaning!Catch
<1>8. CASE TopTurns("test", Top.state) /\ UNCHANGED dead
  <2>1. BlockOf(stack'[Depth]) = BlockOf(Top)
    BY <1>1, <1>8 DEF BlockOf, TopTurns, Agree
  <2> QED
    BY <1>1, <1>8, <2>1, BlockStutters
<1> QED
  BY <1>6, <1>7, <1>8, CatchClauseStep

LEMMA TryEndMeans ==
    ASSUME ~ReturnsInTry, TypeOK, Places, BufKnown, LeaveTry
    PROVE  Meaning!TryEnds
<1>1. stack # <<>> /\ Top.at = "end" /\ ~dead /\ UNCHANGED value
  BY LeaveTryStep
<1>2. Meaning!Depth = Depth /\ BlocksOf(stack) # <<>> /\ Meaning!Top = BlockOf(Top)
  BY <1>1, MeaningTop
<1>3. Meaning!Top.part = "end" /\ (Meaning!Top.pending <=> Top.state = 1)
  BY <1>1, <1>2 DEF BlockOf
<1>4. CASE Top.state = 1
  <2>1. \/ Lands(stack)
        \/ buf \notin DOMAIN stack /\ dead' = TRUE /\ UNCHANGED <<stack, buf>>
    BY <1>4, LeaveTryStep
  <2>2. SameFrames(stack)
    BY StackIsSame
  <2>3. Meaning!Unwind
    BY <1>1, <2>1, <2>2, MeaningUnwinds
  <2> QED
    BY <1>1, <1>2, <1>3, <1>4, <2>3 DEF Meaning!TryEnds
<1>5. CASE Top.state # 1
  <2>1. Cut(Depth - 1) /\ UNCHANGED <<buf, dead>>
    BY <1>5, LeaveTryStep
  <2>2. BlocksOf(stack') = SubSeq(BlocksOf(stack), 1, Depth - 1)
    BY <2>1, CutMeans
  <2> QED
    BY <1>1, <1>2, <1>3, <1>5, <2>1, <2>2 DEF Meaning!TryEnds
<1> QED
  BY <1>4, <1>5

LEMMA MeaningStep ==
    ASSUME ~ReturnsInTry, UnwindInv, [Next]_vars
    PROVE  [Meaning!Next]_(Meaning!vars)
<1>t. TypeOK /\ Places /\ BufKnown
  BY DEF UnwindInv, PlaceInv
<1>s. ASSUME UNCHANGED <<BlocksOf(stack), value, dead>>
      PROVE  UNCHANGED Meaning!vars
  BY <1>s DEF Meaning!vars
<1>1. CASE Call
  <2>1. Pushed("call", <<>>, FALSE) /\ ProgramRuns /\ UNCHANGED <<buf, value, dead>>
    BY <1>1, <1>t, CallStep
  <2>2. BlocksOf(stack') = Append(BlocksOf(stack), Meaning!Block("call", <<>>, FALSE))
    BY <1>t, <2>1, PushMeans
  <2>3. Meaning!Call
    BY <1>t, <2>1, <2>2, MeaningRuns DEF Meaning!Call
  <2> QED
    BY <2>3 DEF Meaning!Next
<1>2. CASE Return
  <2>1. PICK i \in DOMAIN stack : stack[i].at = "call" /\ i = Depth /\ Cut(i - 1)
    BY <1>2, <1>t, ReturnStep
  <2>2. stack # <<>> /\ Top.at = "call" /\ ProgramRuns /\ UNCHANGED <<value, dead>>
    BY <1>2, <1>t, <2>1, ReturnStep, EmptyStack DEF Top
  <2>3. BlocksOf(stack') = SubSeq(BlocksOf(stack), 1, Depth - 1)
    BY <1>t, <2>1, CutMeans
  <2>4. Meaning!Depth = Depth /\ BlocksOf(stack) # <<>> /\ Meaning!Top.part = "call"
    BY <1>t, <2>2, MeaningTop DEF BlockOf
  <2>5. Meaning!Return
    BY <1>t, <2>2, <2>3, <2>4, MeaningRuns DEF Meaning!Return
  <2> QED
    BY <2>5 DEF Meaning!Next
<1>3. CASE DeclareLocal
  <2>1. TopTurns("body", Top.state) /\ Top.at = "body" /\ UNCHANGED <<value, dead>>
    BY <1>3, <1>t, DeclareLocalStep DEF DeclareLocal, TopIs
  <2>2. BlockOf(stack'[Depth]) = BlockOf(Top)
    BY <2>1 DEF BlockOf, TopTurns, Agree
  <2> QED
    BY <1>s, <1>t, <2>1, <2>2, BlockStutters
<1>4. ASSUME NEW catches \in Catches, NEW finally \in BOOLEAN, EnterTry(catches, finally)
      PROVE  Meaning!Next
  <2>1. Pushed("body", catches, finally) /\ ProgramRuns /\ UNCHANGED <<value, dead>>
    BY <1>4, <1>t, EnterTryStep
  <2>2. BlocksOf(stack') = Append(BlocksOf(stack), Meaning!Block("body", catches, finally))
    BY <1>t, <2>1, PushMeans
  <2>3. Meaning!Try
    BY <1>t, <2>1, <2>2, MeaningRuns DEF Meaning!Try
  <2> QED
    BY <2>3 DEF Meaning!Next
<1>5. CASE Throws
  <2>1. PICK s : /\ ProgramRuns /\ value' \in Class \cup {Nil} /\ SameFrames(s)
                 /\ \/ Lands(s)
                    \/ buf \notin DOMAIN stack /\ dead' = TRUE /\ UNCHANGED <<stack, buf>>
    BY <1>5, <1>t, ThrowStep
  <2>2. stack # <<>> => Top.at \in Open \cup {"end"}
    BY <2>1 DEF ProgramRuns, Open
  <2>3. Meaning!Unwind
    BY <1>t, <2>1, <2>2, MeaningUnwinds
  <2>4. Meaning!Throw
    BY <1>t, <2>1, <2>3, MeaningRuns DEF Meaning!Throw
  <2> QED
    BY <2>4 DEF Meaning!Next
<1>6. CASE BodyEnd \/ HandlerEnd
  BY <1>6, <1>t, BlockEndMeans DEF Meaning!Next
<1>7. CASE FinallyEnd
  BY <1>7, <1>t, FinallyEndMeans DEF Meaning!Next
<1>8. CASE CatchClause
  BY <1>8, <1>s, <1>t, CatchMeans DEF Meaning!Next
<1>9. CASE Restore
  BY <1>9, <1>t, RestoreMeans DEF Meaning!Next
<1>10. CASE ReleaseShadow
  <2>1. TopTurns("end", Top.state) /\ Top.at = "drop" /\ UNCHANGED <<value, dead>>
    BY <1>10, <1>t, ReleaseShadowStep
  <2>2. BlockOf(stack'[Depth]) = BlockOf(Top)
    BY <2>1 DEF BlockOf, TopTurns, Agree
  <2> QED
    BY <1>s, <1>t, <2>1, <2>2, BlockStutters
<1>11. CASE LeaveTry
  BY <1>11, <1>t, TryEndMeans DEF Meaning!Next
<1>12. CASE UNCHANGED vars
  BY <1>12, <1>s DEF vars
<1> QED
  BY <1>1, <1>2, <1>3, <1>4, <1>5, <1>6, <1>7, <1>8, <1>9, <1>10, <1>11, <1>12
     DEF Next, Program, Emitted, Throws

\* The jumps of the emitted code have the meaning of structured exceptions:
\* the frames, seen as blocks, begin as the abstract statements do, and every
\* step of the code is a step of theirs or leaves them alone.
THEOREM MeaningRefinement ==
    ASSUME ~ReturnsInTry
    PROVE  Spec => ImplementsMeaning
<1>1. Init => Meaning!Begin
  BY MeaningInit
<1>2. UnwindInv /\ [Next]_vars => [Meaning!Next]_(Meaning!vars)
  BY MeaningStep
<1>3. Spec => []UnwindInv
  BY UnwindInvHolds
<1> QED
  BY <1>1, <1>2, <1>3, PTL DEF Spec, ImplementsMeaning, Meaning!Spec
=============================================================================
