------------------------ MODULE WorkflowTokensProofs ------------------------
(***************************************************************************)
(* Proofs about WorkflowTokens: types, the walk's stack, and that tokens   *)
(* keep an instance from completing too early, for every definition and    *)
(* any number of requests and faults.                                      *)
(***************************************************************************)
EXTENDS WorkflowTokens, SequenceTheorems, FiniteSetTheorems, TLAPS

-----------------------------------------------------------------------------
(* Frames and stacks *)

\* A frame is a call of one of three kinds.
LEMMA FrameIs ==
  ASSUME NEW f \in Frame
  PROVE  \/ f.call = "followFlow" /\ f.element \in Elements /\ f.token \in Nat /\ f.again \in BOOLEAN
         \/ f.call = "fork" /\ f.rest \in Seq(Branch) /\ f.res \in Results /\ f.row \in Row
         \/ f.call = "embedded" /\ f.element \in Elements /\ f.token \in Nat /\ f.row \in Row
  BY DEF Frame

\* Stack r has one frame more than s.
OnTop(r, s) ==
    /\ r \in Seq(Frame) /\ s \in Seq(Frame)
    /\ Len(s) \in Nat /\ Len(r) = Len(s) + 1
    /\ DOMAIN s = 1 .. Len(s) /\ DOMAIN r = 1 .. Len(s) + 1
    /\ \A i \in 1 .. Len(s) : r[i + 1] = s[i]

\* What a frame needs to be put on stack s
Fits(f, s) ==
    /\ s # <<>> => FrameOn(f, s[1])
    /\ f.call = "followFlow" => Reached(f.element, Inside(s, 1))
    /\ f.call = "fork" =>
         /\ \A k \in DOMAIN f.rest :
              /\ f.rest[k].token # NoToken
              /\ Reached(f.rest[k].to, Inside(s, 1))
              /\ \A l \in DOMAIN f.rest : f.rest[k].token = f.rest[l].token => k = l
         /\ f.res # "completed"
         /\ f.res # "going" => Reached(f.row.at, Inside(s, 1))
         /\ f.row.status # "NONE"
         /\ FrameTokens(f) \cap StackTokens(s) \subseteq {NoToken}
    /\ f.call = "embedded" =>
         /\ Kind[f.element] = "embedded"
         /\ Reached(f.element, Inside(s, 1))
         /\ f.row.at = f.element
         /\ f.row.status # "NONE"
    /\ f.call # "fork" =>
         /\ s = <<>> => f.token = NoToken
         /\ Alone(s, 1, f.token)
         /\ Apart(f.token, s)

\* Push puts one frame on the stack ...
LEMMA PushAt ==
  ASSUME NEW s \in Seq(Frame), NEW f \in Frame
  PROVE  OnTop(<<f>> \o s, s) /\ (<<f>> \o s)[1] = f
  <1> DEFINE r == <<f>> \o s
  <1>1. <<f>> \in Seq(Frame) /\ Len(<<f>>) = 1 /\ <<f>>[1] = f
    OBVIOUS
  <1>2. /\ r \in Seq(Frame)
        /\ Len(r) = 1 + Len(s)
        /\ \A i \in 1 .. 1 + Len(s) : r[i] = IF i <= 1 THEN <<f>>[i] ELSE s[i - 1]
    BY <1>1, ConcatProperties
  <1>3. Len(s) \in Nat /\ DOMAIN s = 1 .. Len(s) /\ DOMAIN r = 1 .. Len(r)
    BY <1>2, LenProperties
  <1> QED
    BY <1>1, <1>2, <1>3 DEF OnTop

\* ... and Pop takes one off.
LEMMA PopAt ==
  ASSUME NEW s \in Seq(Frame), s # <<>>
  PROVE  OnTop(s, Tail(s)) /\ s[1] \in Frame /\ Head(s) = s[1]
  <1>1. Tail(s) \in Seq(Frame) /\ Len(Tail(s)) = Len(s) - 1
        /\ \A i \in 1 .. Len(Tail(s)) : Tail(s)[i] = s[i + 1]
    BY HeadTailProperties
  <1>2. Len(s) \in Nat \ {0}
    BY EmptySeq
  <1>3. DOMAIN s = 1 .. Len(s) /\ DOMAIN Tail(s) = 1 .. Len(s) - 1
    BY <1>1, LenProperties
  <1>4. s[1] \in Frame /\ Head(s) = s[1]
    BY <1>2, ElementOfSeq
  <1> QED
    BY <1>1, <1>2, <1>3, <1>4 DEF OnTop

\* The positions of r are 1 and those of s, one further up.
LEMMA OnTopFacts ==
  ASSUME NEW r, NEW s, OnTop(r, s)
  PROVE  /\ r # <<>> /\ r[1] \in Frame
         /\ s = <<>> <=> Len(s) = 0
         /\ \A i \in 1 .. Len(s) : s[i] \in Frame
         /\ \A j \in 1 .. Len(s) + 1 : j = 1 \/ (j - 1 \in 1 .. Len(s) /\ r[j] = s[j - 1])
  <1>1. r[1] \in Frame /\ \A i \in 1 .. Len(s) : s[i] \in Frame
    BY ElementOfSeq DEF OnTop
  <1> QED
    BY <1>1, EmptySeq DEF OnTop

\* Inside, Parted and Alone when a frame is put on the stack
LEMMA InsideOn ==
  ASSUME NEW r, NEW s, OnTop(r, s)
  PROVE  /\ \A i \in Nat \ {0} : Inside(r, i + 1) <=> Inside(s, i)
         /\ Inside(r, 2) <=> Inside(s, 1)
         /\ Inside(r, 1) <=> r[1].call = "embedded" \/ Inside(s, 1)
  <1> USE OnTopFacts DEF OnTop
  <1>1. ASSUME NEW i \in Nat \ {0} PROVE Inside(r, i + 1) <=> Inside(s, i)
    <2>1. ASSUME Inside(r, i + 1) PROVE Inside(s, i)
      <3>1. PICK j \in 1 .. Len(s) + 1 : j >= i + 1 /\ r[j].call = "embedded"
        BY <2>1 DEF Inside
      <3>2. j - 1 \in 1 .. Len(s) /\ j - 1 >= i /\ s[j - 1].call = "embedded"
        BY <3>1
      <3> QED
        BY <3>2 DEF Inside
    <2>2. ASSUME Inside(s, i) PROVE Inside(r, i + 1)
      <3>1. PICK j \in 1 .. Len(s) : j >= i /\ s[j].call = "embedded"
        BY <2>2 DEF Inside
      <3>2. j + 1 \in 1 .. Len(s) + 1 /\ j + 1 >= i + 1 /\ r[j + 1].call = "embedded"
        BY <3>1
      <3> QED
        BY <3>2 DEF Inside
    <2> QED
      BY <2>1, <2>2
  <1>2. Inside(r, 1) <=> r[1].call = "embedded" \/ Inside(r, 2)
    BY DEF Inside
  <1> QED
    BY <1>1, <1>2

\* A frame on top leaves those below as parted as they were.
LEMMA PartedOn ==
  ASSUME NEW r, NEW s, OnTop(r, s)
  PROVE  /\ \A i, j \in 1 .. Len(s) : Parted(r, i + 1, j + 1) <=> Parted(s, i, j)
         /\ \A j \in 1 .. Len(s) : Parted(r, 1, j + 1) <=> r[1].call = "fork" \/ Parted(s, 0, j)
         /\ \A j \in 1 .. Len(s) : Parted(r, 0, j + 1) <=> r[1].call # "followFlow" \/ Parted(s, 0, j)
         /\ Parted(r, 0, 1) <=> r[1].call # "followFlow"
  <1> USE OnTopFacts DEF OnTop
  <1>1. ASSUME NEW a \in Nat \ {0}, NEW j \in 1 .. Len(s)
        PROVE  Crossed(r, a + 1, j + 1) <=> Crossed(s, a, j)
    <2>1. ASSUME NEW k \in a + 1 .. j + 1, r[k].call # "followFlow"
          PROVE  \E h \in a .. j : s[h].call # "followFlow"
      <3>1. k - 1 \in a .. j /\ r[k] = s[k - 1]
        OBVIOUS
      <3> QED
        BY <2>1, <3>1
    <2>2. ASSUME NEW k \in a .. j, s[k].call # "followFlow"
          PROVE  \E h \in a + 1 .. j + 1 : r[h].call # "followFlow"
      <3>1. k + 1 \in a + 1 .. j + 1 /\ r[k + 1] = s[k]
        OBVIOUS
      <3> QED
        BY <2>2, <3>1
    <2> QED
      BY <2>1, <2>2 DEF Crossed
  <1>2. ASSUME NEW i \in 1 .. Len(s), NEW j \in 1 .. Len(s)
        PROVE  Parted(r, i + 1, j + 1) <=> Parted(s, i, j)
    <2> DEFINE a == i + 1
    <2>1. a \in Nat \ {0} /\ r[a] = s[i] /\ i > 0 /\ a > 0
      OBVIOUS
    <2>2. Crossed(r, a + 1, j + 1) <=> Crossed(s, a, j)
      BY <1>1, <2>1
    <2> QED
      BY <2>1, <2>2 DEF Parted
  <1>3. ASSUME NEW j \in 1 .. Len(s)
        PROVE  Crossed(r, 2, j + 1) <=> Crossed(s, 1, j)
    BY <1>1
  <1>4. ASSUME NEW j \in 1 .. Len(s)
        PROVE  /\ Parted(r, 1, j + 1) <=> r[1].call = "fork" \/ Parted(s, 0, j)
               /\ Parted(r, 0, j + 1) <=> r[1].call # "followFlow" \/ Parted(s, 0, j)
    <2>1. 1 \in 1 .. j + 1 /\ \A k \in 1 .. j + 1 : k = 1 \/ k \in 2 .. j + 1
      OBVIOUS
    <2>2. \A k \in 2 .. j + 1 : k \in 1 .. j + 1
      OBVIOUS
    <2>3. Crossed(r, 1, j + 1) <=> r[1].call # "followFlow" \/ Crossed(r, 2, j + 1)
      BY <2>1, <2>2 DEF Crossed
    <2>4. (Parted(r, 1, j + 1) <=> r[1].call = "fork" \/ Crossed(r, 2, j + 1))
          /\ (Parted(r, 0, j + 1) <=> Crossed(r, 1, j + 1))
          /\ (Parted(s, 0, j) <=> Crossed(s, 1, j))
      BY DEF Parted
    <2> QED
      BY <2>3, <2>4, <1>3
  <1>5. Parted(r, 0, 1) <=> r[1].call # "followFlow"
    BY DEF Parted, Crossed
  <1> QED
    BY <1>2, <1>4, <1>5

\* The same for what a token and an embedded definition exclude below.
LEMMA AloneOn ==
  ASSUME NEW r, NEW s, OnTop(r, s)
  PROVE  /\ \A i \in Nat \ {0} : \A t : Alone(r, i + 1, t) <=> Alone(s, i, t)
         /\ \A t : Alone(r, 2, t) <=> Alone(s, 1, t)
         /\ \A t : r[1].call = "followFlow" => (Alone(r, 1, t) <=> Alone(s, 1, t))
         /\ \A t : r[1].call = "embedded" => Alone(r, 1, t)
  <1> USE OnTopFacts DEF OnTop
  <1>1. ASSUME NEW i \in Nat \ {0}
        PROVE  (\A j \in DOMAIN r : j >= i + 1 => r[j].call # "fork") <=> (\A j \in DOMAIN s : j >= i => s[j].call # "fork")
    <2>1. ASSUME \A j \in DOMAIN r : j >= i + 1 => r[j].call # "fork", NEW j \in DOMAIN s, j >= i
          PROVE  s[j].call # "fork"
      <3>1. j + 1 \in DOMAIN r /\ j + 1 >= i + 1 /\ r[j + 1] = s[j]
        BY <2>1
      <3> QED
        BY <2>1, <3>1
    <2>2. ASSUME \A j \in DOMAIN s : j >= i => s[j].call # "fork", NEW j \in DOMAIN r, j >= i + 1
          PROVE  r[j].call # "fork"
      <3>1. j - 1 \in DOMAIN s /\ j - 1 >= i /\ r[j] = s[j - 1]
        BY <2>2
      <3> QED
        BY <2>2, <3>1
    <2> QED
      BY <2>1, <2>2
  <1>2. ASSUME NEW i \in Nat \ {0}, NEW t PROVE Alone(r, i + 1, t) <=> Alone(s, i, t)
    BY <1>1, InsideOn DEF Alone
  <1>3. ASSUME NEW t PROVE Alone(r, 2, t) <=> Alone(s, 1, t)
    BY <1>2
  <1>4. ASSUME NEW t, r[1].call = "followFlow" PROVE Alone(r, 1, t) <=> Alone(r, 2, t)
    <2>1. (\A j \in DOMAIN r : j >= 1 => r[j].call # "fork") <=> (\A j \in DOMAIN r : j >= 2 => r[j].call # "fork")
      BY <1>4
    <2>2. Inside(r, 1) <=> Inside(r, 2)
      BY <1>4, InsideOn
    <2> QED
      BY <2>1, <2>2 DEF Alone
  <1>5. ASSUME NEW t, r[1].call = "embedded" PROVE Alone(r, 1, t)
    BY <1>5, InsideOn DEF Alone
  <1> QED
    BY <1>2, <1>3, <1>4, <1>5

\* A frame on top changes nothing of what the frames below say.
LEMMA FrameShift ==
  ASSUME NEW r, NEW s, OnTop(r, s), NEW i \in 1 .. Len(s)
  PROVE  /\ FrameOK(r, i + 1) <=> FrameOK(s, i)
         /\ Stacked(r, i + 1) <=> Stacked(s, i)
  <1> USE OnTopFacts DEF OnTop
  <1> DEFINE j == i + 1
  <1>1. r[j] = s[i] /\ j \in Nat \ {0} /\ i \in Nat \ {0}
    OBVIOUS
  <1>2. Inside(r, j + 1) <=> Inside(s, i + 1)
    BY <1>1, InsideOn
  <1>3. FrameOK(r, j) <=> FrameOK(s, i)
    <2>1. s[i] \in Frame
      BY ElementOfSeq
    <2> HIDE DEF j, OnTop
    <2> QED
      BY <1>1, <1>2, <2>1, FrameIs DEF FrameOK, Reached
  <1>4. \A t : Alone(r, j + 1, t) <=> Alone(s, i + 1, t)
    BY <1>1, AloneOn
  <1>5. (j < Len(r) <=> i < Len(s)) /\ (j = Len(r) <=> i = Len(s)) /\ (i < Len(s) => r[j + 1] = s[i + 1])
    OBVIOUS
  <1>6. Stacked(r, j) <=> Stacked(s, i)
    BY <1>1, <1>4, <1>5 DEF Stacked
  <1> QED
    BY <1>3, <1>6

\* The tokens of a stack are those of its top and of the rest.
LEMMA StackTokensOn ==
  ASSUME NEW r, NEW s, OnTop(r, s)
  PROVE  StackTokens(r) = FrameTokens(r[1]) \cup StackTokens(s)
  <1> USE OnTopFacts DEF OnTop
  <1>1. ASSUME NEW t \in StackTokens(r) PROVE t \in FrameTokens(r[1]) \cup StackTokens(s)
    <2>1. PICK i \in 1 .. Len(s) + 1 : t \in FrameTokens(r[i])
      BY DEF StackTokens
    <2>2. i = 1 \/ (i - 1 \in 1 .. Len(s) /\ r[i] = s[i - 1])
      OBVIOUS
    <2> QED
      BY <2>1, <2>2 DEF StackTokens
  <1>2. ASSUME NEW t \in StackTokens(s) PROVE t \in StackTokens(r)
    <2>1. PICK i \in 1 .. Len(s) : t \in FrameTokens(s[i])
      BY DEF StackTokens
    <2>2. i + 1 \in 1 .. Len(s) + 1 /\ r[i + 1] = s[i]
      OBVIOUS
    <2> QED
      BY <2>1, <2>2 DEF StackTokens
  <1>3. FrameTokens(r[1]) \subseteq StackTokens(r)
    BY DEF StackTokens
  <1> QED
    BY <1>1, <1>2, <1>3

\* The frames the walk goes on in when a frame is put on the stack
LEMMA ResumesOn ==
  ASSUME NEW r, NEW s, OnTop(r, s), NEW back \in BOOLEAN
  PROVE  /\ \A i \in 1 .. Len(s) : Resumes(r, i + 1, back) <=> Resumes(s, i, r[1].call = "fork")
         /\ Resumes(r, 1, back) <=> r[1].call # "followFlow" \/ back
  <1> USE OnTopFacts DEF OnTop
  <1>1. ASSUME NEW i \in 1 .. Len(s) PROVE Resumes(r, i + 1, back) <=> Resumes(s, i, r[1].call = "fork")
    <2>1. CASE i = 1
      BY <2>1 DEF Resumes
    <2>2. CASE i # 1
      <3>1. i - 1 \in 1 .. Len(s) /\ r[i] = s[i - 1] /\ i + 1 # 1 /\ i > 1 /\ (i + 1) - 1 = i /\ r[i + 1] = s[i] /\ i + 1 > 1
        BY <2>2
      <3> QED
        BY <3>1, <2>2 DEF Resumes
    <2> QED
      BY <2>1, <2>2
  <1>2. Resumes(r, 1, back) <=> r[1].call # "followFlow" \/ back
    BY DEF Resumes
  <1> QED
    BY <1>1, <1>2

\* So are those of the frames the walk goes on in, except that a fork on top
\* has the followFlow below it resume.
LEMMA ResumedOn ==
  ASSUME NEW r, NEW s, OnTop(r, s), NEW back \in BOOLEAN
  PROVE  Resumed(r, back) = {t \in FrameTokens(r[1]) : r[1].call # "followFlow" \/ back} \cup Resumed(s, r[1].call = "fork")
  <1> USE OnTopFacts DEF OnTop
  <1>1. ASSUME NEW t \in Resumed(r, back)
        PROVE  t \in {u \in FrameTokens(r[1]) : r[1].call # "followFlow" \/ back} \cup Resumed(s, r[1].call = "fork")
    <2>1. PICK i \in 1 .. Len(s) + 1 : t \in FrameTokens(r[i]) /\ Resumes(r, i, back)
      BY DEF Resumed
    <2>2. CASE i = 1
      BY <2>1, <2>2, ResumesOn
    <2>3. CASE i # 1
      <3>1. PICK h \in 1 .. Len(s) : r[i] = s[h] /\ i = h + 1
        <4>1. i - 1 \in 1 .. Len(s) /\ r[i] = s[i - 1] /\ i = (i - 1) + 1
          BY <2>3
        <4> QED
          BY <4>1
      <3>2. Resumes(s, h, r[1].call = "fork")
        BY <2>1, <3>1, ResumesOn
      <3> QED
        BY <2>1, <3>1, <3>2 DEF Resumed
    <2> QED
      BY <2>2, <2>3
  <1>2. ASSUME NEW t \in Resumed(s, r[1].call = "fork") PROVE t \in Resumed(r, back)
    <2>1. PICK i \in 1 .. Len(s) : t \in FrameTokens(s[i]) /\ Resumes(s, i, r[1].call = "fork")
      BY DEF Resumed
    <2>2. i + 1 \in 1 .. Len(s) + 1 /\ r[i + 1] = s[i]
      OBVIOUS
    <2>3. Resumes(r, i + 1, back)
      BY <2>1, ResumesOn
    <2> QED
      BY <2>1, <2>2, <2>3 DEF Resumed
  <1>3. ASSUME NEW t \in FrameTokens(r[1]), r[1].call # "followFlow" \/ back PROVE t \in Resumed(r, back)
    BY <1>3, ResumesOn DEF Resumed
  <1> QED
    BY <1>1, <1>2, <1>3

\* The same, by the kind of the call on top.
LEMMA ResumedOver ==
  ASSUME NEW r, NEW s, OnTop(r, s)
  PROVE  /\ r[1].call = "followFlow" =>
              /\ Resumed(r, FALSE) = Resumed(s, FALSE)
              /\ Resumed(r, TRUE) = FrameTokens(r[1]) \cup Resumed(s, FALSE)
         /\ r[1].call = "embedded" => \A back \in BOOLEAN : Resumed(r, back) = FrameTokens(r[1]) \cup Resumed(s, FALSE)
         /\ r[1].call = "fork" => \A back \in BOOLEAN : Resumed(r, back) = FrameTokens(r[1]) \cup Resumed(s, TRUE)
  <1> DEFINE first(back) == {t \in FrameTokens(r[1]) : r[1].call # "followFlow" \/ back}
  <1>1. ASSUME NEW back \in BOOLEAN PROVE Resumed(r, back) = first(back) \cup Resumed(s, r[1].call = "fork")
    BY ResumedOn
  <1>2. ASSUME r[1].call = "followFlow"
        PROVE  first(FALSE) = {} /\ first(TRUE) = FrameTokens(r[1]) /\ (r[1].call = "fork") = FALSE
    BY <1>2
  <1>3. ASSUME r[1].call = "embedded", NEW back \in BOOLEAN
        PROVE  first(back) = FrameTokens(r[1]) /\ (r[1].call = "fork") = FALSE
    BY <1>3
  <1>4. ASSUME r[1].call = "fork", NEW back \in BOOLEAN
        PROVE  first(back) = FrameTokens(r[1]) /\ (r[1].call = "fork") = TRUE
    BY <1>4
  <1> HIDE DEF first
  <1>5. ASSUME r[1].call = "followFlow"
        PROVE  Resumed(r, FALSE) = Resumed(s, FALSE) /\ Resumed(r, TRUE) = FrameTokens(r[1]) \cup Resumed(s, FALSE)
    <2>1. Resumed(r, FALSE) = {} \cup Resumed(s, FALSE)
      BY <1>1, <1>2, <1>5
    <2>2. Resumed(r, TRUE) = FrameTokens(r[1]) \cup Resumed(s, FALSE)
      BY <1>1, <1>2, <1>5
    <2> QED
      BY <2>1, <2>2
  <1>6. ASSUME r[1].call = "embedded", NEW back \in BOOLEAN
        PROVE  Resumed(r, back) = FrameTokens(r[1]) \cup Resumed(s, FALSE)
    BY <1>1, <1>3, <1>6
  <1>7. ASSUME r[1].call = "fork", NEW back \in BOOLEAN
        PROVE  Resumed(r, back) = FrameTokens(r[1]) \cup Resumed(s, TRUE)
    BY <1>1, <1>4, <1>7
  <1> QED
    BY <1>5, <1>6, <1>7

\* A result that lets the walk go on adds at most the tokens of the top.
LEMMA ResumedGrows ==
  ASSUME NEW r, NEW s, OnTop(r, s), NEW back \in BOOLEAN
  PROVE  /\ Resumed(r, FALSE) \subseteq Resumed(r, back)
         /\ Resumed(r, back) \subseteq Resumed(r, FALSE) \cup FrameTokens(r[1])
         /\ Resumed(r, back) \subseteq StackTokens(r)
  <1>1. ASSUME NEW i \in DOMAIN r, Resumes(r, i, FALSE) PROVE Resumes(r, i, back)
    BY <1>1 DEF Resumes
  <1>2. ASSUME NEW i \in DOMAIN r, Resumes(r, i, back) PROVE i = 1 \/ Resumes(r, i, FALSE)
    BY <1>2 DEF Resumes
  <1>3. Resumed(r, FALSE) \subseteq Resumed(r, back)
    BY <1>1 DEF Resumed
  <1>4. Resumed(r, back) \subseteq Resumed(r, FALSE) \cup FrameTokens(r[1])
    BY <1>2 DEF Resumed
  <1>5. Resumed(r, back) \subseteq StackTokens(r)
    BY DEF Resumed, StackTokens
  <1> QED
    BY <1>3, <1>4, <1>5

\* What the walk goes on in has other tokens than the walk itself.
LEMMA ResumedApart ==
  ASSUME NEW s \in Seq(Frame), NEW t, Apart(t, s), t # NoToken
  PROVE  t \notin Resumed(s, FALSE)
  <1> SUFFICES ASSUME NEW i \in DOMAIN s, Resumes(s, i, FALSE)
               PROVE  t \notin FrameTokens(s[i])
    BY DEF Resumed
  <1>1. i \in Nat \ {0} /\ DOMAIN s = 1 .. Len(s) /\ Len(s) \in Nat
    BY LenProperties
  <1>2. CASE s[i].call # "followFlow"
    BY <1>1, <1>2 DEF Apart, Parted, Crossed
  <1>3. CASE s[i].call = "followFlow"
    <2>1. i > 1 /\ s[i - 1].call = "fork"
      BY <1>3 DEF Resumes
    <2>2. i - 1 \in 1 .. i /\ s[i - 1].call # "followFlow"
      BY <1>1, <2>1
    <2> QED
      BY <1>1, <2>2 DEF Apart, Parted, Crossed
  <1> QED
    BY <1>2, <1>3

\* A token need not differ from the one of a followFlow that runs with it.
LEMMA ApartOn ==
  ASSUME NEW r, NEW s, OnTop(r, s), NEW t
  PROVE  /\ r[1].call = "followFlow" => (Apart(t, r) <=> Apart(t, s))
         /\ r[1].call # "followFlow" =>
              (Apart(t, r) <=> t = NoToken \/ t \notin FrameTokens(r[1]) \cup StackTokens(s))
  <1> USE OnTopFacts DEF OnTop
  <1>1. Apart(t, r) <=> /\ Parted(r, 0, 1) => t \notin FrameTokens(r[1]) \/ t = NoToken
                        /\ \A j \in 1 .. Len(s) : Parted(r, 0, j + 1) => t \notin FrameTokens(s[j]) \/ t = NoToken
    <2>1. ASSUME Apart(t, r), NEW j \in 1 .. Len(s), Parted(r, 0, j + 1)
          PROVE  t \notin FrameTokens(s[j]) \/ t = NoToken
      <3>1. j + 1 \in DOMAIN r /\ r[j + 1] = s[j]
        OBVIOUS
      <3> QED
        BY <2>1, <3>1 DEF Apart
    <2>2. ASSUME Apart(t, r), Parted(r, 0, 1) PROVE t \notin FrameTokens(r[1]) \/ t = NoToken
      BY <2>2 DEF Apart
    <2>3. ASSUME Parted(r, 0, 1) => t \notin FrameTokens(r[1]) \/ t = NoToken,
                 \A j \in 1 .. Len(s) : Parted(r, 0, j + 1) => t \notin FrameTokens(s[j]) \/ t = NoToken,
                 NEW j \in DOMAIN r, Parted(r, 0, j)
          PROVE  t \notin FrameTokens(r[j]) \/ t = NoToken
      <3>1. CASE j = 1
        BY <2>3, <3>1
      <3>2. CASE j # 1
        <4>1. PICK h \in 1 .. Len(s) : r[j] = s[h] /\ j = h + 1
          <5>1. j - 1 \in 1 .. Len(s) /\ r[j] = s[j - 1] /\ j = (j - 1) + 1
            BY <3>2
          <5> QED
            BY <5>1
        <4> QED
          BY <2>3, <4>1
      <3> QED
        BY <3>1, <3>2
    <2> QED
      BY <2>1, <2>2, <2>3 DEF Apart
  <1>2. ASSUME r[1].call = "followFlow" PROVE Apart(t, r) <=> Apart(t, s)
    <2>1. ~Parted(r, 0, 1) /\ \A j \in 1 .. Len(s) : Parted(r, 0, j + 1) <=> Parted(s, 0, j)
      BY <1>2, PartedOn
    <2> QED
      BY <1>1, <2>1 DEF Apart
  <1>3. ASSUME r[1].call # "followFlow"
        PROVE  Apart(t, r) <=> t = NoToken \/ t \notin FrameTokens(r[1]) \cup StackTokens(s)
    <2>1. Parted(r, 0, 1) /\ \A j \in 1 .. Len(s) : Parted(r, 0, j + 1)
      BY <1>3, PartedOn
    <2> QED
      BY <1>1, <2>1 DEF StackTokens
  <1> QED
    BY <1>2, <1>3

\* The tokens of frames i and j of a stack differ where they have to.
Separate(s, i, j) == Parted(s, i, j) => FrameTokens(s[i]) \cap FrameTokens(s[j]) \subseteq {NoToken}

\* A stack is all right when what is under its first frame is, and that fits.
LEMMA StackOn ==
  ASSUME NEW r, NEW s, OnTop(r, s)
  PROVE  StackOK(r) <=> StackOK(s) /\ Fits(r[1], s)
  <1> USE OnTopFacts DEF OnTop
  <1>1. /\ \A i \in 1 .. Len(s) : FrameOK(r, i + 1) <=> FrameOK(s, i)
        /\ \A i \in 1 .. Len(s) : Stacked(r, i + 1) <=> Stacked(s, i)
        /\ \A i, j \in 1 .. Len(s) : Separate(r, i + 1, j + 1) <=> Separate(s, i, j)
    <2>1. ASSUME NEW i \in 1 .. Len(s), NEW j \in 1 .. Len(s)
          PROVE  Separate(r, i + 1, j + 1) <=> Separate(s, i, j)
      <3>1. r[i + 1] = s[i] /\ r[j + 1] = s[j]
        OBVIOUS
      <3> QED
        BY <3>1, PartedOn DEF Separate
    <2> QED
      BY <2>1, FrameShift
  <1>2. StackOK(r) <=> \A i \in DOMAIN r : FrameOK(r, i) /\ Stacked(r, i) /\ \A j \in DOMAIN r : i < j => Separate(r, i, j)
    BY DEF StackOK, Separate
  <1>3. StackOK(s) <=> \A i \in DOMAIN s : FrameOK(s, i) /\ Stacked(s, i) /\ \A j \in DOMAIN s : i < j => Separate(s, i, j)
    BY DEF StackOK, Separate
  <1> DEFINE First == FrameOK(r, 1) /\ Stacked(r, 1) /\ \A j \in 1 .. Len(s) : Separate(r, 1, j + 1)
  <1>4. ASSUME StackOK(r) PROVE StackOK(s) /\ First
    <2>1. \A i \in 1 .. Len(s) : i + 1 \in DOMAIN r /\ 1 < i + 1
      OBVIOUS
    <2>2. First
      <3>1. 1 \in DOMAIN r
        OBVIOUS
      <3>2. FrameOK(r, 1) /\ Stacked(r, 1) /\ \A j \in DOMAIN r : 1 < j => Separate(r, 1, j)
        BY <1>4, <1>2, <3>1
      <3> QED
        BY <2>1, <3>2
    <2>3. ASSUME NEW i \in DOMAIN s PROVE FrameOK(s, i) /\ Stacked(s, i)
      BY <1>4, <1>1, <1>2, <2>1
    <2>4. ASSUME NEW i \in DOMAIN s, NEW j \in DOMAIN s, i < j PROVE Separate(s, i, j)
      <3>1. i + 1 < j + 1
        BY <2>4
      <3> QED
        BY <1>4, <1>1, <1>2, <2>1, <3>1
    <2> QED
      BY <1>3, <2>2, <2>3, <2>4
  <1>5. ASSUME StackOK(s), First PROVE StackOK(r)
    <2>1. ASSUME NEW i \in DOMAIN r PROVE i = 1 \/ \E h \in 1 .. Len(s) : i = h + 1
      <3>1. i # 1 => i - 1 \in 1 .. Len(s) /\ i = (i - 1) + 1
        OBVIOUS
      <3> QED
        BY <3>1
    <2>2. ASSUME NEW i \in DOMAIN r PROVE FrameOK(r, i) /\ Stacked(r, i)
      BY <1>5, <1>1, <1>3, <2>1
    <2>3. ASSUME NEW i \in DOMAIN r, NEW j \in DOMAIN r, i < j PROVE Separate(r, i, j)
      <3>1. PICK h \in 1 .. Len(s) : j = h + 1
        BY <2>1, <2>3
      <3>2. CASE i = 1
        BY <1>5, <3>1, <3>2
      <3>3. CASE i # 1
        <4>1. PICK g \in 1 .. Len(s) : i = g + 1
          BY <2>1, <3>3
        <4>2. g < h
          BY <2>3, <3>1, <4>1
        <4> QED
          BY <1>5, <1>1, <1>3, <3>1, <4>1, <4>2
      <3> QED
        BY <3>2, <3>3
    <2> QED
      BY <1>2, <2>2, <2>3
  <1>6. First <=> Fits(r[1], s)
    <2> HIDE DEF OnTop
    <2>0. /\ r[1] \in Frame
          /\ (1 < Len(r) <=> s # <<>>) /\ (1 = Len(r) <=> s = <<>>)
          /\ s # <<>> => r[2] = s[1]
      BY DEF OnTop
    <2>1. FrameOK(r, 1) <=>
            /\ r[1].call = "followFlow" => Reached(r[1].element, Inside(s, 1))
            /\ r[1].call = "fork" =>
                 /\ \A k \in DOMAIN r[1].rest :
                      /\ r[1].rest[k].token # NoToken
                      /\ Reached(r[1].rest[k].to, Inside(s, 1))
                      /\ \A l \in DOMAIN r[1].rest : r[1].rest[k].token = r[1].rest[l].token => k = l
                 /\ r[1].res # "completed"
                 /\ r[1].res # "going" => Reached(r[1].row.at, Inside(s, 1))
                 /\ r[1].row.status # "NONE"
            /\ r[1].call = "embedded" =>
                 /\ Kind[r[1].element] = "embedded"
                 /\ Reached(r[1].element, Inside(s, 1))
                 /\ r[1].row.at = r[1].element
                 /\ r[1].row.status # "NONE"
      <3>1. Inside(r, 1 + 1) <=> Inside(s, 1)
        BY InsideOn
      <3> QED
        BY <2>0, <3>1, FrameIs DEF FrameOK, Reached
    <2>2. Stacked(r, 1) <=>
            /\ s # <<>> => FrameOn(r[1], s[1])
            /\ r[1].call # "fork" => (s = <<>> => r[1].token = NoToken) /\ Alone(s, 1, r[1].token)
      <3>1. \A t : Alone(r, 1 + 1, t) <=> Alone(s, 1, t)
        BY AloneOn
      <3> QED
        BY <2>0, <3>1 DEF Stacked
    <2>3. \A j \in 1 .. Len(s) : Separate(r, 1, j + 1)
             <=> (r[1].call = "fork" \/ Parted(s, 0, j) => FrameTokens(r[1]) \cap FrameTokens(s[j]) \subseteq {NoToken})
      BY PartedOn DEF Separate, OnTop
    <2>4. CASE r[1].call = "fork"
      <3>1. (\A j \in 1 .. Len(s) : Separate(r, 1, j + 1)) <=> FrameTokens(r[1]) \cap StackTokens(s) \subseteq {NoToken}
        BY <2>3, <2>4 DEF StackTokens, OnTop
      <3> QED
        BY <2>1, <2>2, <2>4, <3>1 DEF Fits
    <2>5. CASE r[1].call # "fork"
      <3>1. FrameTokens(r[1]) = {r[1].token}
        BY <2>5 DEF FrameTokens
      <3>2. (\A j \in 1 .. Len(s) : Separate(r, 1, j + 1)) <=> Apart(r[1].token, s)
        <4>1. \A j \in 1 .. Len(s) : FrameTokens(r[1]) \cap FrameTokens(s[j]) \subseteq {NoToken}
                 <=> r[1].token \notin FrameTokens(s[j]) \/ r[1].token = NoToken
          BY <3>1
        <4> QED
          BY <2>3, <2>5, <4>1 DEF Apart, OnTop
      <3> QED
        BY <2>1, <2>2, <2>5, <3>2 DEF Fits
    <2> QED
      BY <2>4, <2>5
  <1> QED
    BY <1>4, <1>5, <1>6

\* Where no call waits, nothing is asked.
LEMMA EmptyStack ==
  /\ <<>> \in Seq(Frame)
  /\ StackOK(<<>>) /\ ~Inside(<<>>, 1)
  /\ StackTokens(<<>>) = {} /\ \A back : Resumed(<<>>, back) = {}
  /\ \A t : Alone(<<>>, 1, t) /\ Apart(t, <<>>)
  <1>1. DOMAIN <<>> = {}
    OBVIOUS
  <1> QED
    BY <1>1 DEF StackOK, Inside, StackTokens, Resumed, Alone, Apart

\* The tokens of a frame, by its call.
LEMMA OneFrame ==
  ASSUME NEW f
  PROVE  /\ f.call # "fork" => FrameTokens(f) = {f.token}
         /\ f.call = "fork" => FrameTokens(f) = {f.rest[i].token : i \in DOMAIN f.rest}
  BY DEF FrameTokens

-----------------------------------------------------------------------------
(* What a step of one request does to the others *)

RequestOK(p) == StackOK(stack[p]) /\ WalkOK(p) /\ CarryOK(p)

\* The tokens a step makes
Fresh == DOMAIN tokens' \ DOMAIN tokens

\* A step of p changes the locals of p only ...
OwnLocals(p) ==
    \A q \in Requests \ {p} :
        /\ pc'[q] = pc[q] /\ row'[q] = row[q] /\ at'[q] = at[q]
        /\ token'[q] = token[q] /\ stack'[q] = stack[q] /\ res'[q] = res[q]

\* ... moves its own tokens, or cancels ...
OwnTokens(p) ==
    /\ DOMAIN tokens \subseteq DOMAIN tokens'
    /\ \A t \in DOMAIN tokens :
         /\ tokens'[t].gateway = tokens[t].gateway
         /\ \/ tokens'[t] = tokens[t]
            \/ t \in Usable(p) /\ (tokens'[t].status = "CANCELLED" => ~Clean')
            \/ /\ tokens'[t].at = tokens[t].at
               /\ tokens[t].status # "CONSUMED" /\ tokens'[t].status = "CANCELLED"
               /\ ~Clean'
    /\ \A t \in Fresh : Kind[tokens'[t].gateway] \in Forks /\ tokens'[t].status # "CANCELLED"

\* ... and drops none that is not accounted for.
OwnHands(p) ==
    /\ Held(p)' \subseteq Held(p) \cup Fresh \cup {NoToken}
    /\ Fresh \subseteq Held(p)'
    /\ Usable(p)' \subseteq Usable(p) \cup Fresh
    /\ torn \subseteq torn'
    /\ \A t \in Held(p) \ Held(p)' : t \in torn' \/ Placed(t)'

Moves(p) ==
    /\ OwnLocals(p) /\ OwnTokens(p) /\ OwnHands(p)
    /\ \A e \in Tasks : open[e] # "none" => open'[e] # "none"
    /\ Clean' => Clean

\* A request uses tokens it holds.
LEMMA UsableHeld ==
  ASSUME NEW p
  PROVE  Usable(p) \subseteq Held(p) \ {NoToken}
  BY DEF Usable, Held, Resumed, StackTokens

\* No token is NoToken.
LEMMA FreshTokens ==
  ASSUME TypeOK, TypeOK'
  PROVE  /\ NoToken \notin DOMAIN tokens /\ NoToken \notin DOMAIN tokens'
         /\ \A t \in DOMAIN tokens : tokens[t] \in Token
         /\ \A t \in DOMAIN tokens' : tokens'[t] \in Token
  <1>1. tokens \in Seq(Token) /\ tokens' \in Seq(Token)
    BY DEF TypeOK
  <1>2. DOMAIN tokens = 1 .. Len(tokens) /\ DOMAIN tokens' = 1 .. Len(tokens')
    BY <1>1, LenProperties
  <1>3. \A t \in 1 .. Len(tokens) : tokens[t] \in Token
    BY <1>1, ElementOfSeq
  <1>4. \A t \in 1 .. Len(tokens') : tokens'[t] \in Token
    BY <1>1, ElementOfSeq
  <1> QED
    BY <1>1, <1>2, <1>3, <1>4, LenProperties DEF NoToken

\* The tokens of another request stay where they are, unless cancelled.
LEMMA OtherTokens ==
  ASSUME IInv, NEW p \in Requests, NEW q \in Requests \ {p}, TypeOK', Moves(p), NEW t \in Held(q) \ {NoToken}
  PROVE  /\ t \in DOMAIN tokens /\ t \notin Held(p) /\ t \notin Fresh
         /\ \/ tokens'[t] = tokens[t]
            \/ /\ tokens'[t].at = tokens[t].at /\ tokens'[t].gateway = tokens[t].gateway
               /\ tokens[t].status # "CONSUMED" /\ tokens'[t].status = "CANCELLED"
         /\ Placed(t) => Placed(t)'
         /\ \A e : StandsAt(t, e) => StandsAt(t, e)'
  <1>1. t \in DOMAIN tokens /\ t \notin Held(p) /\ t \notin Fresh
    BY DEF IInv, TokensApart, Fresh
  <1>2. t \notin Usable(p)
    BY <1>1, UsableHeld
  <1>3. \/ tokens'[t] = tokens[t]
        \/ /\ tokens'[t].at = tokens[t].at /\ tokens'[t].gateway = tokens[t].gateway
           /\ tokens[t].status # "CONSUMED" /\ tokens'[t].status = "CANCELLED"
    BY <1>1, <1>2 DEF Moves, OwnTokens
  <1>4. Placed(t) => Placed(t)'
    BY <1>3 DEF Moves, Placed
  <1>5. \A e : StandsAt(t, e) => StandsAt(t, e)'
    BY <1>3 DEF StandsAt
  <1> QED
    BY <1>1, <1>3, <1>4, <1>5

\* A step of one request changes nothing of what the others say of themselves,
\* whatever it does to its own tokens.
LEMMA OtherRequests ==
  ASSUME IInv, NEW p \in Requests, NEW q \in Requests \ {p}, TypeOK', Moves(p)
  PROVE  /\ RequestOK(q)' /\ Held(q)' = Held(q) /\ Usable(q)' = Usable(q)
         /\ Going(q)' <=> Going(q)
         /\ SavedOK(stack[q])' <=> SavedOK(stack[q])
         /\ Completing(q)' <=> Completing(q)
         /\ Ending(q)' <=> Ending(q)
  <1>1. /\ pc'[q] = pc[q] /\ row'[q] = row[q] /\ at'[q] = at[q]
        /\ token'[q] = token[q] /\ stack'[q] = stack[q] /\ res'[q] = res[q]
    BY DEF Moves, OwnLocals
  <1>2. StackOK(stack[q]) /\ WalkOK(q) /\ CarryOK(q)
    BY DEF IInv
  <1>3. StackOK(stack[q])'
    BY <1>1, <1>2
  <1>4. Back(q)' <=> Back(q)
    BY <1>1 DEF Back
  <1>5. WalkOK(q)'
    BY <1>1, <1>2, <1>4 DEF WalkOK, Walking
  <1>6. Held(q)' = Held(q)
    BY <1>1 DEF Held
  <1>7. Usable(q)' = Usable(q)
    BY <1>1, <1>4 DEF Usable, Resumed, Resumes
  <1>8. \A t \in Held(q) \ {NoToken} :
          /\ tokens'[t].at = tokens[t].at
          /\ tokens[t].status # "CONSUMED" => tokens'[t].status # "CONSUMED"
          /\ Placed(t) => Placed(t)'
    BY OtherTokens
  <1>9. \A t \in Held(q) : Placed(t) => Placed(t)'
    BY <1>8 DEF Placed
  <1>10. \A i \in DOMAIN stack[q] : FrameTokens(stack[q][i]) \subseteq Held(q)
    BY DEF Held, StackTokens
  <1>11. stack[q] \in Seq(Frame) /\ (\A i \in DOMAIN stack[q] : stack[q][i] \in Frame)
    <2>1. stack[q] \in Seq(Frame)
      BY DEF IInv, TypeOK
    <2> QED
      BY <2>1, ElementOfSeq, LenProperties
  <1>12. ASSUME NEW i \in DOMAIN stack[q], Resumes(stack[q], i, Back(q))
         PROVE  FrameStands(stack[q][i])'
    <2>1. FrameStands(stack[q][i])
      BY <1>2, <1>12 DEF CarryOK
    <2>2. CASE stack[q][i].call = "followFlow"
      <3>1. stack[q][i].token \in Held(q)
        BY <1>10, <2>2, OneFrame
      <3> QED
        BY <1>1, <1>8, <2>1, <2>2, <3>1 DEF FrameStands
    <2>3. CASE stack[q][i].call = "embedded"
      <3>1. stack[q][i].token \in Held(q)
        BY <1>10, <2>3, OneFrame
      <3> QED
        BY <1>1, <1>8, <2>1, <2>3, <3>1 DEF FrameStands, StandsAt
    <2>4. CASE stack[q][i].call = "fork"
      <3>1. \A k \in DOMAIN stack[q][i].rest : stack[q][i].rest[k].token \in Held(q)
        BY <1>10, <2>4, OneFrame
      <3> QED
        BY <1>1, <1>8, <2>1, <2>4, <3>1 DEF FrameStands, StandsAt
    <2> QED
      BY <1>11, <2>2, <2>3, <2>4, FrameIs
  <1>13. CarryOK(q)'
    <2>1. (pc[q] \in {"enter", "leave"} => StandsAt(token[q], at[q]))'
      <3>1. token[q] \in Held(q)
        BY DEF Held
      <3> QED
        BY <1>1, <1>2, <1>8, <3>1 DEF CarryOK, StandsAt
    <2>2. (pc[q] \in {"join", "ended", "return", "persist"} => Placed(token[q]))'
      <3>1. token[q] \in Held(q)
        BY DEF Held
      <3>2. pc[q] \in {"join", "ended", "return", "persist"} => Placed(token[q])
        BY <1>2 DEF CarryOK
      <3> QED
        BY <1>1, <1>8, <3>1, <3>2 DEF Placed, Moves
    <2>3. (pc[q] = "return" /\ stack[q] # <<>> /\ stack[q][1].call = "followFlow" => Placed(stack[q][1].token))'
      <3> SUFFICES ASSUME pc[q] = "return", stack[q] # <<>>, stack[q][1].call = "followFlow"
                   PROVE  Placed(stack[q][1].token)'
        BY <1>1
      <3>1. 1 \in DOMAIN stack[q]
        BY <1>11, EmptySeq, LenProperties
      <3>2. stack[q][1].token \in Held(q)
        BY <1>10, <3>1, OneFrame
      <3>3. Placed(stack[q][1].token)
        BY <1>2 DEF CarryOK
      <3> QED
        BY <1>1, <1>8, <3>2, <3>3 DEF Placed, Moves
    <2>4. (\A i \in DOMAIN stack[q] : Resumes(stack[q], i, Back(q)) => FrameStands(stack[q][i]))'
      <3>1. \A i \in DOMAIN stack[q] : (Resumes(stack[q], i, Back(q)) <=> Resumes(stack[q], i, Back(q))')
        BY <1>1, <1>4 DEF Resumes
      <3> QED
        BY <1>1, <1>12, <3>1
    <2>5. (\A t \in Usable(q) : tokens[t].status # "CONSUMED")'
      <3>1. \A t \in Usable(q) : t \in Held(q) \ {NoToken}
        BY UsableHeld
      <3>2. \A t \in Usable(q) : tokens[t].status # "CONSUMED"
        BY <1>2 DEF CarryOK
      <3> QED
        BY <1>7, <1>8, <3>1, <3>2
    <2> QED
      BY <2>1, <2>2, <2>3, <2>4, <2>5 DEF CarryOK
  <1>14. (Going(q)' <=> Going(q)) /\ (SavedOK(stack[q])' <=> SavedOK(stack[q])) /\ (Completing(q)' <=> Completing(q))
    BY <1>1 DEF Going, Walking, SavedOK, Completing
  <1>15. Ending(q)' <=> Ending(q)
    BY <1>1, <1>7 DEF Ending
  <1> QED
    BY <1>3, <1>5, <1>6, <1>7, <1>13, <1>14, <1>15 DEF RequestOK

\* What is left of the invariant when control is left aside
LEMMA Together ==
  ASSUME IInv, NEW p \in Requests, TypeOK', Moves(p), RequestOK(p)'
  PROVE  /\ (\A q \in Requests : StackOK(stack[q]) /\ WalkOK(q) /\ CarryOK(q))'
         /\ TokensApart' /\ ForkedByForks' /\ BranchesAccounted'
         /\ \A t \in DOMAIN tokens : tokens[t].status = "CONSUMED" => tokens'[t].status = "CONSUMED"
  <1>1. \A q \in Requests \ {p} : RequestOK(q)' /\ Held(q)' = Held(q)
    BY OtherRequests
  <1>2. (\A q \in Requests : StackOK(stack[q]) /\ WalkOK(q) /\ CarryOK(q))'
    BY <1>1 DEF RequestOK
  <1>3. /\ \A q, h \in Requests : q # h => Held(q) \cap Held(h) \subseteq {NoToken}
        /\ \A q \in Requests : Held(q) \subseteq DOMAIN tokens \cup {NoToken}
    BY DEF IInv, TokensApart
  <1>4. Held(p)' \subseteq Held(p) \cup Fresh \cup {NoToken} /\ Fresh \subseteq Held(p)'
    BY DEF Moves, OwnHands
  <1>5. TokensApart'
    <2>1. \A q \in Requests \ {p} : Held(p)' \cap Held(q)' \subseteq {NoToken}
      BY <1>1, <1>3, <1>4 DEF Fresh
    <2>2. \A q \in Requests : Held(q)' \subseteq DOMAIN tokens' \cup {NoToken}
      BY <1>1, <1>3, <1>4 DEF Fresh, Moves, OwnTokens
    <2>3. \A q, h \in Requests : q # h => Held(q)' \cap Held(h)' \subseteq {NoToken}
      BY <1>1, <1>3, <2>1
    <2> QED
      BY <2>2, <2>3 DEF TokensApart
  <1>6. ForkedByForks'
    BY DEF IInv, ForkedByForks, Moves, OwnTokens, Fresh
  <1>7. ASSUME NEW t \in DOMAIN tokens', t \notin torn', tokens'[t].status = "ACTIVE",
               \A q \in Requests : t \notin Held(q)'
        PROVE  \/ Kind[tokens'[t].at] \in {"subProcess", "fork", "inclusive"}
               \/ tokens'[t].at \in Tasks /\ open'[tokens'[t].at] # "none"
    <2>0. t # NoToken
      BY FreshTokens DEF IInv
    <2>1. t \in DOMAIN tokens \ torn
      BY <1>4, <1>7 DEF Fresh, Moves, OwnHands
    <2>2. CASE t \in Held(p)
      <3>1. Placed(t)'
        BY <1>7, <2>2 DEF Moves, OwnHands
      <3> QED
        BY <1>7, <2>0, <3>1 DEF Placed, Forks
    <2>3. CASE t \notin Held(p)
      <3>1. tokens'[t] = tokens[t]
        BY <1>7, <2>1, <2>3, UsableHeld DEF Moves, OwnTokens
      <3>2. \A q \in Requests : t \notin Held(q)
        BY <1>1, <1>7, <2>3
      <3>3. \/ Kind[tokens[t].at] \in {"subProcess", "fork", "inclusive"}
            \/ tokens[t].at \in Tasks /\ open[tokens[t].at] # "none"
        BY <1>7, <2>1, <3>1, <3>2 DEF IInv, BranchesAccounted
      <3> QED
        BY <3>1, <3>3 DEF Moves
    <2> QED
      BY <2>2, <2>3
  <1>8. BranchesAccounted'
    BY <1>7 DEF BranchesAccounted
  <1>9. ASSUME NEW t \in DOMAIN tokens, tokens[t].status = "CONSUMED" PROVE tokens'[t].status = "CONSUMED"
    <2>1. t \notin Usable(p)
      BY <1>9 DEF IInv, CarryOK
    <2> QED
      BY <1>9, <2>1 DEF Moves, OwnTokens
  <1> QED
    BY <1>2, <1>5, <1>6, <1>8, <1>9

-----------------------------------------------------------------------------
(* Control *)

Uncancelled == \A t \in DOMAIN tokens : tokens[t].status # "CANCELLED"

\* A stuck token stays stuck.
LEMMA StuckStays ==
  ASSUME IInv, NEW p \in Requests, TypeOK', Moves(p), Clean'
  PROVE  /\ Clean /\ Uncancelled' /\ (Stuck => Stuck')
  <1>1. Clean /\ Uncancelled
    BY DEF IInv, ControlKept, Moves, Uncancelled
  <1>2. Uncancelled'
    BY <1>1 DEF Uncancelled, Moves, OwnTokens, Fresh
  <1>3. ASSUME Stuck PROVE Stuck'
    <2>1. PICK t \in Live : \A q \in Requests : t \notin Usable(q)
      BY <1>3 DEF Stuck
    <2>2. t \in DOMAIN tokens /\ tokens[t].status \in {"ACTIVE", "WAITING"}
      BY <2>1 DEF Live
    <2>3. tokens'[t] = tokens[t] /\ t \in DOMAIN tokens'
      BY <2>1, <2>2 DEF Moves, OwnTokens
    <2>4. t \in Live'
      BY <2>2, <2>3 DEF Live
    <2>5. \A q \in Requests : t \notin Usable(q)'
      BY <2>1, <2>2, OtherRequests DEF Moves, OwnHands, Fresh
    <2> QED
      BY <2>4, <2>5 DEF Stuck
  <1> QED
    BY <1>1, <1>2, <1>3

\* A step that takes up no more control than there was
LEMMA ControlQuiet ==
  ASSUME IInv, NEW p \in Requests, TypeOK', Moves(p),
         pc[p] # "idle" \/ instance.status # "NONE", instance' = instance,
         OpenTasks' \subseteq OpenTasks, Going(p)' => Going(p),
         Clean' => SavedOK(stack[p])' /\ (Completing(p)' => Completing(p) /\ Ending(p)')
  PROVE  ControlKept'
  <1>1. instance.status # "NONE"
    BY DEF IInv, ControlKept
  <1> SUFFICES ASSUME Clean' PROVE
         /\ Uncancelled'
         /\ Stuck' \/ OneControl'
         /\ \A q \in Requests : SavedOK(stack[q])' /\ (Completing(q)' => CompletingOK(q)')
         /\ instance.status = "COMPLETED" => OpenTasks' = {} /\ \A q \in Requests : ~Going(q)'
    BY <1>1 DEF ControlKept, Uncancelled
  <1>2. /\ Clean
        /\ Stuck \/ OneControl
        /\ \A q \in Requests : SavedOK(stack[q]) /\ (Completing(q) => CompletingOK(q))
        /\ instance.status = "COMPLETED" => OpenTasks = {} /\ \A q \in Requests : ~Going(q)
    BY StuckStays DEF IInv, ControlKept
  <1>3. \A q \in Requests : Going(q)' => Going(q)
    BY OtherRequests
  <1>4. OneControl => OneControl'
    BY <1>3 DEF OneControl
  <1>5. ASSUME NEW q \in Requests PROVE SavedOK(stack[q])' /\ (Completing(q)' => CompletingOK(q)')
    <2>1. SavedOK(stack[q])' /\ (Completing(q)' => Completing(q) /\ Ending(q)')
      <3>1. CASE q = p
        BY <3>1
      <3>2. CASE q # p
        BY <1>2, <3>2, OtherRequests DEF CompletingOK
      <3> QED
        BY <3>1, <3>2
    <2> QED
      BY <1>2, <1>3, <2>1 DEF CompletingOK
  <1> QED
    BY <1>2, <1>3, <1>4, <1>5, StuckStays

-----------------------------------------------------------------------------
(* The steps *)

\* What the invariant says of one request.
LEMMA Types ==
  ASSUME IInv, NEW p \in Requests
  PROVE  /\ instance \in Row /\ row[p] \in Row /\ res[p] \in Results
         /\ at[p] \in Elements \cup {NoElement}
         /\ token[p] \in DOMAIN tokens \cup {NoToken} /\ token[p] \in Nat
         /\ stack[p] \in Seq(Frame)
         /\ tokens \in Seq(Token) /\ DOMAIN tokens = 1 .. Len(tokens) /\ Len(tokens) \in Nat
         /\ NoToken \notin DOMAIN tokens /\ \A t \in DOMAIN tokens : tokens[t] \in Token
         /\ StackOK(stack[p]) /\ WalkOK(p) /\ CarryOK(p)
         /\ Held(p) \subseteq DOMAIN tokens \cup {NoToken}
         /\ MaxFaults \in Nat /\ NoElement \notin Elements /\ Kind \in [Elements -> Kinds]
  <1>1. tokens \in Seq(Token)
    BY DEF IInv, TypeOK
  <1>2. /\ DOMAIN tokens = 1 .. Len(tokens) /\ Len(tokens) \in Nat
        /\ \A t \in DOMAIN tokens : tokens[t] \in Token
    BY <1>1, LenProperties, ElementOfSeq
  <1>3. /\ instance \in Row /\ row[p] \in Row /\ res[p] \in Results
        /\ at[p] \in Elements \cup {NoElement}
        /\ token[p] \in DOMAIN tokens \cup {NoToken}
        /\ stack[p] \in Seq(Frame)
    BY DEF IInv, TypeOK
  <1>4. /\ StackOK(stack[p]) /\ WalkOK(p) /\ CarryOK(p)
        /\ Held(p) \subseteq DOMAIN tokens \cup {NoToken}
    BY DEF IInv, TokensApart
  <1> QED
    BY <1>1, <1>2, <1>3, <1>4, TokensAssumption DEF TokensAssumption, NoToken

\* What the definition says of its elements.
LEMMA ElementKinds ==
  /\ \A e \in Elements : Kind[e] \in Kinds /\ Targets(e) \subseteq Elements
  /\ Tasks \subseteq Elements
  /\ \A e \in Elements : e \in Tasks <=> Kind[e] \in {"userTask", "serviceTask"}
  /\ \A e \in Elements : \A f \in Targets(e) : f \in Elements /\ (e \in Inner <=> f \in Inner)
  /\ StartEvent \in Elements \ Inner /\ Kind[StartEvent] = "startEvent"
  /\ \A e \in Elements : Kind[e] = "embedded" =>
       Body[e] \in Inner /\ Body[e] \in Elements /\ Kind[Body[e]] = "startEvent"
  <1>1. Flows \in [Elements -> Seq(Elements)]
    BY TokensAssumption DEF TokensAssumption
  <1>2. ASSUME NEW e \in Elements, NEW f \in Targets(e) PROVE f \in Elements
    <2>1. PICK i \in DOMAIN Flows[e] : f = Flows[e][i]
      BY DEF Targets
    <2>2. Flows[e] \in Seq(Elements)
      BY <1>1
    <2> QED
      BY <2>1, <2>2, ElementOfSeq, LenProperties
  <1>3. \A e \in Elements : Kind[e] \in Kinds
    BY TokensAssumption DEF TokensAssumption
  <1>4. \A e \in Elements : Kind[e] = "embedded" =>
          Body[e] \in Inner /\ Body[e] \in Elements /\ Kind[Body[e]] = "startEvent"
    BY TokensAssumption DEF TokensAssumption
  <1>5. \A e \in Elements : \A f \in Targets(e) : f \in Elements /\ (e \in Inner <=> f \in Inner)
    BY <1>2, TokensAssumption DEF TokensAssumption
  <1>6. StartEvent \in Elements \ Inner /\ Kind[StartEvent] = "startEvent"
    BY TokensAssumption DEF TokensAssumption
  <1> QED
    BY <1>2, <1>3, <1>4, <1>5, <1>6 DEF Tasks

\* A request that stops, with its tokens accounted for or torn
LEMMA Forgets ==
  ASSUME IInv, NEW p \in Requests, Forget(p), tokens' = tokens,
         instance' \in Row, open' \in [Tasks -> {"none", "open", "done"}],
         \A e \in Tasks : open[e] # "none" => open'[e] # "none",
         faults' \in 0 .. MaxFaults, UNCHANGED <<terminated, uprooted>>,
         torn \subseteq torn', torn' \subseteq DOMAIN tokens,
         \A t \in Held(p) \ {NoToken} : t \in torn' \/ Placed(t)'
  PROVE  /\ TypeOK' /\ Moves(p) /\ RequestOK(p)'
         /\ ~Going(p)' /\ ~Completing(p)' /\ SavedOK(stack[p])'
  <1>1. TypeOK
    BY DEF IInv
  <1>2. /\ pc'[p] = "idle" /\ row'[p] = [status |-> "NONE", at |-> NoElement, version |-> 0]
        /\ at'[p] = NoElement /\ token'[p] = NoToken /\ stack'[p] = <<>> /\ res'[p] = "going"
    BY <1>1 DEF Forget, Goto, TypeOK
  <1>3. OwnLocals(p)
    BY <1>1 DEF Forget, Goto, TypeOK, OwnLocals
  <1>4. row'[p] \in Row
    BY <1>2 DEF Row
  <1>5. TypeOK'
    BY <1>1, <1>4, EmptyStack DEF Forget, Goto, TypeOK, Results
  <1>6. Held(p)' = {NoToken} /\ Usable(p)' = {} /\ ~Back(p)'
    <2>1. ~Back(p)'
      BY <1>2 DEF Back
    <2>2. StackTokens(stack'[p]) = {} /\ Resumed(stack'[p], Back(p)') = {}
      BY <1>2, EmptyStack
    <2> QED
      BY <1>2, <2>1, <2>2 DEF Held, Usable
  <1>7. OwnTokens(p) /\ OwnHands(p) /\ Fresh = {}
    <2>1. Fresh = {}
      BY DEF Fresh
    <2>2. Placed(NoToken)'
      BY DEF Placed
    <2> QED
      BY <1>6, <2>1, <2>2 DEF OwnTokens, OwnHands
  <1>8. Moves(p)
    BY <1>3, <1>7 DEF Moves, Clean
  <1>9. StackOK(stack[p])'
    BY <1>2, EmptyStack
  <1>10. WalkOK(p)'
    <2>1. Apart(token[p], stack[p])'
      BY <1>2, EmptyStack
    <2> QED
      BY <1>2, <1>6, <2>1 DEF WalkOK, Walking
  <1>11. CarryOK(p)'
    BY <1>2, <1>6 DEF CarryOK
  <1>12. ~Going(p)' /\ ~Completing(p)' /\ SavedOK(stack[p])'
    BY <1>2 DEF Going, Walking, Completing, SavedOK
  <1> QED
    BY <1>5, <1>8, <1>9, <1>10, <1>11, <1>12 DEF RequestOK

\* A step that leaves the tokens alone
LEMMA TokensStay ==
  ASSUME IInv, NEW p \in Requests, OwnLocals(p), tokens' = tokens, torn' = torn,
         UNCHANGED <<terminated, uprooted>>,
         \A e \in Tasks : open[e] # "none" => open'[e] # "none",
         Held(p)' \subseteq Held(p) \cup {NoToken}, Usable(p)' \subseteq Usable(p),
         \A t \in Held(p) \ Held(p)' : t \in torn' \/ Placed(t)'
  PROVE  Moves(p)
  BY DEF Moves, OwnTokens, OwnHands, Fresh, Clean

\* What a step has to show
Kept(p) == TypeOK' /\ Moves(p) /\ RequestOK(p)' /\ ControlKept'

\* A request that carries nothing
LEMMA Empty ==
  ASSUME NEW p \in Requests, stack[p] = <<>>, token[p] = NoToken
  PROVE  Held(p) = {NoToken} /\ Usable(p) = {} /\ SavedOK(stack[p]) /\ Apart(token[p], stack[p])
  <1>1. StackTokens(stack[p]) = {} /\ Resumed(stack[p], Back(p)) = {} /\ Apart(token[p], stack[p])
    BY EmptyStack
  <1> QED
    BY <1>1 DEF Held, Usable, SavedOK

\* A request that begins, or begins to walk, carries nothing.
LEMMA Begins ==
  ASSUME IInv, NEW p \in Requests, OwnLocals(p), TypeOK', UNCHANGED <<tokens, torn, terminated, uprooted>>,
         \A e \in Tasks : open[e] # "none" => open'[e] # "none",
         stack[p] = <<>>, token[p] = NoToken, stack'[p] = <<>>, token'[p] = NoToken,
         pc'[p] \in {"inbox", "cancel", "enter", "leave"},
         row'[p].status # "NONE",
         pc'[p] \in {"inbox", "cancel"} => row'[p].status # "COMPLETED",
         pc'[p] \in {"inbox", "leave"} => at'[p] \in Tasks,
         pc'[p] = "leave" => at'[p] \notin Inner,
         pc'[p] = "enter" => at'[p] = StartEvent
  PROVE  /\ Moves(p) /\ RequestOK(p)' /\ SavedOK(stack[p])'
         /\ Held(p)' = {NoToken} /\ Usable(p)' = {}
  <1>1. Held(p) = {NoToken} /\ Usable(p) = {}
    BY Empty
  <1>2. Held(p)' = {NoToken} /\ Usable(p)' = {} /\ SavedOK(stack[p])' /\ Apart(token[p], stack[p])'
    <2>1. StackTokens(stack'[p]) = {} /\ Resumed(stack'[p], Back(p)') = {} /\ Apart(token'[p], stack'[p])
      BY EmptyStack
    <2>2. DOMAIN stack'[p] = {}
      OBVIOUS
    <2> QED
      BY <2>1, <2>2 DEF Held, Usable, SavedOK
  <1>3. Moves(p)
    BY <1>1, <1>2, TokensStay
  <1>4. StackOK(stack[p])'
    BY EmptyStack
  <1>5. WalkOK(p)'
    <2>1. pc'[p] \in {"enter", "leave"} => Reached(at'[p], Inside(stack'[p], 1))
      BY EmptyStack, ElementKinds DEF Reached
    <2>2. Alone(stack'[p], 1, token'[p])
      BY EmptyStack
    <2>3. pc'[p] \in {"enter", "leave"} => RunOK(at[p], token[p], stack[p])'
      BY <2>1, <2>2 DEF RunOK
    <2>4. pc'[p] = "leave" => Kind[at'[p]] # "endEvent"
      BY DEF Tasks
    <2> QED
      BY <1>2, <2>3, <2>4 DEF WalkOK, Walking, Back
  <1>6. CarryOK(p)'
    BY <1>2 DEF CarryOK, StandsAt
  <1> QED
    BY <1>2, <1>3, <1>4, <1>5, <1>6 DEF RequestOK

\* startWorkflow makes the instance and walks from its start event.
LEMMA StartStep ==
  ASSUME IInv, NEW p \in Requests, Start(p)
  PROVE  Kept(p)
  <1>1. TypeOK /\ WalkOK(p)
    BY DEF IInv
  <1>2. /\ pc[p] = "idle" /\ instance.status = "NONE"
        /\ instance' = [instance EXCEPT !.status = "RUNNING"]
        /\ row' = [row EXCEPT ![p] = instance']
        /\ at' = [at EXCEPT ![p] = StartEvent] /\ token' = [token EXCEPT ![p] = NoToken]
        /\ pc' = [pc EXCEPT ![p] = "enter"]
        /\ UNCHANGED <<open, tokens, stack, res, terminated, uprooted, torn, faults>>
    BY DEF Start, RunTo, Goto, history
  <1>3. instance' \in Row /\ instance'.status = "RUNNING"
    BY <1>1, <1>2 DEF TypeOK, Row
  <1>4. TypeOK'
    BY <1>1, <1>2, <1>3, ElementKinds DEF TypeOK
  <1>5. /\ stack[p] = <<>> /\ token[p] = NoToken /\ stack'[p] = <<>> /\ token'[p] = NoToken
        /\ pc'[p] = "enter" /\ row'[p] = instance' /\ at'[p] = StartEvent
    BY <1>1, <1>2 DEF WalkOK, TypeOK
  <1>6. OwnLocals(p)
    BY <1>1, <1>2 DEF OwnLocals, TypeOK
  <1>7. Moves(p) /\ RequestOK(p)' /\ SavedOK(stack[p])'
    BY <1>2, <1>3, <1>4, <1>5, <1>6, Begins
  <1>8. (\A q \in Requests : pc[q] = "idle") /\ OpenTasks = {}
    BY <1>2 DEF IInv, ControlKept
  <1>9. OpenTasks' = {}
    BY <1>2, <1>8 DEF OpenTasks
  <1>10. \A q \in Requests \ {p} : pc'[q] = "idle" /\ ~Going(q)' /\ ~Completing(q)'
    BY <1>6, <1>8 DEF OwnLocals, Going, Walking, Completing
  <1>11. ~Completing(p)'
    BY <1>3, <1>5 DEF Completing
  <1>12. OneControl'
    BY <1>9, <1>10 DEF OneControl
  <1>13. ASSUME Clean' PROVE \A q \in Requests : SavedOK(stack[q])'
    <2>1. Clean
      BY <1>13, <1>4, <1>7, StuckStays
    <2> QED
      BY <2>1, <1>4, <1>7, OtherRequests DEF IInv, ControlKept
  <1>14. ControlKept'
    BY <1>3, <1>4, <1>7, <1>10, <1>11, <1>12, <1>13, StuckStays DEF ControlKept, Uncancelled
  <1> QED
    BY <1>4, <1>7, <1>14 DEF Kept

\* A request that has read its task has written nothing yet.
LEMMA ReadTaskStep ==
  ASSUME IInv, NEW p \in Requests, NEW e \in Tasks, ReadTask(p, e)
  PROVE  Kept(p)
  <1>1. TypeOK /\ WalkOK(p)
    BY DEF IInv
  <1>2. /\ pc[p] = "idle" /\ instance.status = "RUNNING"
        /\ row' = [row EXCEPT ![p] = instance]
        /\ at' = [at EXCEPT ![p] = e]
        /\ pc' = [pc EXCEPT ![p] = "inbox"]
        /\ UNCHANGED <<instance, open, tokens, token, stack, res, terminated, uprooted, torn, faults>>
    BY DEF ReadTask, Goto, history
  <1>3. TypeOK'
    BY <1>1, <1>2, ElementKinds DEF TypeOK
  <1>4. /\ stack[p] = <<>> /\ token[p] = NoToken /\ stack'[p] = <<>> /\ token'[p] = NoToken
        /\ pc'[p] = "inbox" /\ row'[p] = instance /\ at'[p] = e
    BY <1>1, <1>2 DEF WalkOK, TypeOK
  <1>5. OwnLocals(p)
    BY <1>1, <1>2 DEF OwnLocals, TypeOK
  <1>6. Moves(p) /\ RequestOK(p)' /\ SavedOK(stack[p])'
    BY <1>2, <1>3, <1>4, <1>5, Begins
  <1>7. ~Going(p)' /\ ~Completing(p)' /\ OpenTasks' = OpenTasks
    BY <1>2, <1>4 DEF Going, Walking, Completing, OpenTasks
  <1>8. ControlKept'
    BY <1>2, <1>3, <1>6, <1>7, ControlQuiet
  <1> QED
    BY <1>3, <1>6, <1>8 DEF Kept

\* Nor has a cancel that has read the instance.
LEMMA CancelStep ==
  ASSUME IInv, NEW p \in Requests, Cancel(p)
  PROVE  Kept(p)
  <1>1. TypeOK /\ WalkOK(p)
    BY DEF IInv
  <1>2. /\ pc[p] = "idle" /\ instance.status = "RUNNING"
        /\ row' = [row EXCEPT ![p] = [instance EXCEPT !.status = "CANCELLED"]]
        /\ pc' = [pc EXCEPT ![p] = "cancel"]
        /\ UNCHANGED <<instance, open, tokens, at, token, stack, res, terminated, uprooted, torn, faults>>
    BY DEF Cancel, Goto, history
  <1>3. [instance EXCEPT !.status = "CANCELLED"] \in Row
        /\ [instance EXCEPT !.status = "CANCELLED"].status = "CANCELLED"
    BY <1>1 DEF TypeOK, Row
  <1>4. TypeOK'
    BY <1>1, <1>2, <1>3 DEF TypeOK
  <1>5. /\ stack[p] = <<>> /\ token[p] = NoToken /\ stack'[p] = <<>> /\ token'[p] = NoToken
        /\ pc'[p] = "cancel" /\ row'[p].status = "CANCELLED"
    BY <1>1, <1>2, <1>3 DEF WalkOK, TypeOK
  <1>6. OwnLocals(p)
    BY <1>1, <1>2 DEF OwnLocals, TypeOK
  <1>7. Moves(p) /\ RequestOK(p)' /\ SavedOK(stack[p])'
    BY <1>2, <1>4, <1>5, <1>6, Begins
  <1>8. ~Going(p)' /\ ~Completing(p)' /\ OpenTasks' = OpenTasks
    BY <1>2, <1>5 DEF Going, Walking, Completing, OpenTasks
  <1>9. ControlKept'
    BY <1>2, <1>4, <1>7, <1>8, ControlQuiet
  <1> QED
    BY <1>4, <1>7, <1>9 DEF Kept

\* The control that an open task keeps passes to the request that takes it.
LEMMA TakesTask ==
  ASSUME IInv, NEW p \in Requests, TypeOK', Moves(p), instance' = instance,
         NEW e \in OpenTasks, open' = [open EXCEPT ![e] = "done"],
         SavedOK(stack[p])', Clean => instance.status = "COMPLETED" \/ ~Completing(p)'
  PROVE  ControlKept'
  <1>1. instance.status # "NONE"
    BY DEF IInv, ControlKept
  <1> SUFFICES ASSUME Clean' PROVE
         /\ Uncancelled'
         /\ Stuck' \/ OneControl'
         /\ \A q \in Requests : SavedOK(stack[q])' /\ ~Completing(q)'
         /\ instance.status # "COMPLETED"
    BY <1>1 DEF ControlKept, Uncancelled
  <1>2. /\ Clean
        /\ Stuck \/ OneControl
        /\ \A q \in Requests : SavedOK(stack[q]) /\ ~Completing(q)
        /\ instance.status # "COMPLETED"
    BY StuckStays DEF IInv, ControlKept, CompletingOK
  <1>3. ASSUME OneControl PROVE OneControl'
    <2>1. \A q \in Requests : ~Going(q)
      BY <1>3 DEF OneControl
    <2>2. OpenTasks' = {}
      <3>1. open \in [Tasks -> {"none", "open", "done"}]
        BY DEF IInv, TypeOK
      <3>2. \A d \in OpenTasks : d = e
        BY <1>3 DEF OneControl
      <3> QED
        BY <3>1, <3>2 DEF OpenTasks
    <2>3. \A q \in Requests \ {p} : ~Going(q)'
      BY <2>1, OtherRequests
    <2> QED
      BY <2>2, <2>3 DEF OneControl
  <1>4. \A q \in Requests : SavedOK(stack[q])' /\ ~Completing(q)'
    BY <1>2, OtherRequests
  <1> QED
    BY <1>2, <1>3, <1>4, StuckStays

\* A request that throws drops its tokens, and they count as torn.
LEMMA Throws ==
  ASSUME IInv, NEW p \in Requests, pc[p] # "idle", Throw(p), tokens' = tokens, instance' = instance,
         open' \in [Tasks -> {"none", "open", "done"}],
         \A e \in Tasks : open[e] # "none" => open'[e] # "none",
         OpenTasks' \subseteq OpenTasks,
         faults' \in 0 .. MaxFaults, UNCHANGED <<terminated, uprooted>>
  PROVE  Kept(p)
  <1>1. Forget(p) /\ torn' = torn \cup (Held(p) \ {NoToken})
    BY DEF Throw
  <1>2. instance' \in Row /\ torn' \subseteq DOMAIN tokens
    BY <1>1, Types DEF IInv, TypeOK
  <1>3. /\ TypeOK' /\ Moves(p) /\ RequestOK(p)'
        /\ ~Going(p)' /\ ~Completing(p)' /\ SavedOK(stack[p])'
    BY <1>1, <1>2, Forgets
  <1>4. ControlKept'
    BY <1>3, ControlQuiet
  <1> QED
    BY <1>3, <1>4 DEF Kept

\* Completing the inbox row hands control from the task to the request.
LEMMA CompleteInboxStep ==
  ASSUME IInv, NEW p \in Requests, CompleteInbox(p)
  PROVE  Kept(p)
  <1>1. TypeOK /\ WalkOK(p)
    BY DEF IInv
  <1>2. /\ pc[p] = "inbox"
        /\ open' = [open EXCEPT ![at[p]] = "done"]
        /\ UNCHANGED <<instance, tokens, terminated, uprooted, faults>>
    BY DEF CompleteInbox
  <1>3. at[p] \in Tasks /\ stack[p] = <<>> /\ token[p] = NoToken
        /\ row[p].status \notin {"NONE", "COMPLETED"}
    BY <1>1, <1>2 DEF WalkOK
  <1>4. open' \in [Tasks -> {"none", "open", "done"}]
        /\ (\A e \in Tasks : open[e] # "none" => open'[e] # "none")
        /\ OpenTasks' \subseteq OpenTasks
    BY <1>1, <1>2 DEF TypeOK, OpenTasks
  <1>5. CASE Throw(p)
    <2>1. faults' \in 0 .. MaxFaults
      BY <1>1, <1>2 DEF TypeOK
    <2> QED
      BY <1>2, <1>4, <1>5, <2>1, Throws
  <1>6. CASE /\ open[at[p]] = "open" /\ at[p] \notin Inner
             /\ Goto(p, "leave")
             /\ UNCHANGED <<walk, torn>>
    <2>1. /\ pc' = [pc EXCEPT ![p] = "leave"]
          /\ UNCHANGED <<row, at, token, stack, res, torn>>
      BY <1>6 DEF Goto, walk
    <2>2. TypeOK'
      BY <1>1, <1>2, <1>4, <2>1 DEF TypeOK
    <2>3. pc'[p] = "leave" /\ OwnLocals(p)
      BY <1>1, <2>1 DEF OwnLocals, TypeOK
    <2>4. Moves(p) /\ RequestOK(p)' /\ SavedOK(stack[p])'
      BY <1>2, <1>3, <1>4, <1>6, <2>1, <2>2, <2>3, Begins
    <2>5. at[p] \in OpenTasks /\ ~Completing(p)'
      BY <1>3, <1>6, <2>1 DEF OpenTasks, Completing
    <2>6. ControlKept'
      BY <1>2, <2>2, <2>4, <2>5, TakesTask
    <2> QED
      BY <2>2, <2>4, <2>6 DEF Kept
  <1> QED
    BY <1>5, <1>6 DEF CompleteInbox

\* So does taking the job of a service task.
LEMMA RunJobStep ==
  ASSUME IInv, NEW p \in Requests, NEW e \in Tasks, RunJob(p, e)
  PROVE  Kept(p)
  <1>1. TypeOK /\ WalkOK(p)
    BY DEF IInv
  <1>2. /\ pc[p] = "idle" /\ open[e] = "open"
        /\ open' = [open EXCEPT ![e] = "done"]
        /\ UNCHANGED <<instance, tokens, token, stack, res, terminated, uprooted, torn, faults>>
    BY DEF RunJob, history
  <1>3. stack[p] = <<>> /\ token[p] = NoToken
    BY <1>1, <1>2 DEF WalkOK
  <1>4. open' \in [Tasks -> {"none", "open", "done"}]
        /\ (\A d \in Tasks : open[d] # "none" => open'[d] # "none")
        /\ OpenTasks' \subseteq OpenTasks
    BY <1>1, <1>2 DEF TypeOK, OpenTasks
  <1>5. CASE e \in Inner /\ UNCHANGED <<pc, row, at>>
    <2>1. TypeOK'
      BY <1>1, <1>2, <1>4, <1>5 DEF TypeOK
    <2>2. OwnLocals(p)
      BY <1>2, <1>5 DEF OwnLocals
    <2>3. Held(p)' = Held(p) /\ Usable(p)' = Usable(p)
      BY <1>2, <1>5 DEF Held, Usable, Back
    <2>4. Moves(p)
      BY <1>2, <1>4, <2>2, <2>3, TokensStay
    <2>5. StackOK(stack[p])'
      BY <1>2, Types
    <2>6. WalkOK(p)'
      BY <1>1, <1>2, <1>5 DEF WalkOK, Walking, Back
    <2>7. CarryOK(p)'
      BY <1>2, <1>3, <1>5, <2>3, Types DEF CarryOK
    <2>8. (Going(p)' <=> Going(p)) /\ (Completing(p)' <=> Completing(p)) /\ ~Completing(p) /\ SavedOK(stack[p])'
      BY <1>2, <1>3, <1>5 DEF Going, Walking, Completing, SavedOK
    <2>9. ControlKept'
      <3>1. CASE instance.status # "NONE"
        BY <1>2, <1>4, <2>1, <2>4, <2>8, <3>1, ControlQuiet
      <3>2. CASE instance.status = "NONE"
        <4>1. (\A q \in Requests : pc[q] = "idle") /\ OpenTasks = {}
          BY <3>2 DEF IInv, ControlKept
        <4>2. (\A q \in Requests : pc'[q] = "idle") /\ OpenTasks' = {}
          BY <4>1, <1>4, <1>5
        <4>3. \A q \in Requests : ~Going(q)' /\ ~Completing(q)'
          BY <4>2 DEF Going, Walking, Completing
        <4>4. OneControl'
          BY <4>2, <4>3 DEF OneControl
        <4>5. ASSUME Clean' PROVE Uncancelled' /\ \A q \in Requests : SavedOK(stack[q])'
          <5>1. Clean
            BY <1>2, <4>5 DEF Clean
          <5> QED
            BY <5>1, <1>2, <2>8, <2>1, <2>4, OtherRequests DEF IInv, ControlKept, Uncancelled
        <4> QED
          BY <1>2, <3>2, <4>2, <4>3, <4>4, <4>5 DEF ControlKept, Uncancelled
      <3> QED
        BY <3>1, <3>2
    <2> QED
      BY <2>1, <2>4, <2>5, <2>6, <2>7, <2>9 DEF Kept, RequestOK
  <1>6. CASE /\ e \notin Inner
             /\ row' = [row EXCEPT ![p] = instance]
             /\ at' = [at EXCEPT ![p] = e]
             /\ Goto(p, "leave")
    <2>1. TypeOK'
      BY <1>1, <1>2, <1>4, <1>6, ElementKinds DEF TypeOK, Goto
    <2>2. OwnLocals(p) /\ pc'[p] = "leave" /\ row'[p] = instance /\ at'[p] = e
      BY <1>1, <1>2, <1>6 DEF OwnLocals, Goto, TypeOK
    <2>3. e \in OpenTasks
      BY <1>2, <1>6 DEF OpenTasks
    <2>4. instance.status # "NONE"
      BY <2>3 DEF IInv, ControlKept
    <2>5. Moves(p) /\ RequestOK(p)' /\ SavedOK(stack[p])'
      BY <1>2, <1>3, <1>4, <1>6, <2>1, <2>2, <2>4, Begins
    <2>6. Clean => instance.status = "COMPLETED" \/ ~Completing(p)'
      BY <2>2 DEF Completing
    <2>7. ControlKept'
      BY <1>2, <2>1, <2>3, <2>5, <2>6, TakesTask
    <2> QED
      BY <2>1, <2>5, <2>7 DEF Kept
  <1> QED
    BY <1>5, <1>6 DEF RunJob

\* Marking changes the status of some tokens and nothing else.
LEMMA MarkedTokens ==
  ASSUME TypeOK, NEW taken, NEW s \in {"ACTIVE", "WAITING", "CONSUMED", "CANCELLED"}
  PROVE  /\ Marked(taken, s) \in Seq(Token) /\ DOMAIN Marked(taken, s) = DOMAIN tokens
         /\ \A t \in DOMAIN tokens :
              /\ Marked(taken, s)[t].gateway = tokens[t].gateway /\ Marked(taken, s)[t].born = tokens[t].born
              /\ Marked(taken, s)[t].at = tokens[t].at
              /\ t \in taken => Marked(taken, s)[t].status = s
              /\ t \notin taken => Marked(taken, s)[t] = tokens[t]
  <1>1. tokens \in Seq(Token)
    BY DEF TypeOK
  <1>2. /\ DOMAIN tokens = 1 .. Len(tokens) /\ Len(tokens) \in Nat
        /\ \A t \in DOMAIN tokens : tokens[t] \in Token
    BY <1>1, LenProperties, ElementOfSeq
  <1>3. \A t \in DOMAIN tokens :
          /\ tokens[t].gateway \in Elements /\ tokens[t].born \in Elements /\ tokens[t].at \in Elements
          /\ [tokens[t] EXCEPT !.status = s] =
               [gateway |-> tokens[t].gateway, born |-> tokens[t].born, at |-> tokens[t].at, status |-> s]
    BY <1>2 DEF Token
  <1>4. \A t \in DOMAIN tokens : [tokens[t] EXCEPT !.status = s] \in Token
    BY <1>3 DEF Token
  <1>5. Marked(taken, s) \in [1 .. Len(tokens) -> Token]
    BY <1>2, <1>4 DEF Marked
  <1>6. Marked(taken, s) \in Seq(Token)
    BY <1>2, <1>5, SeqDef
  <1> QED
    BY <1>2, <1>3, <1>6 DEF Marked

\* A cancel leaves what was consumed.
LEMMA CancelledTokens ==
  ASSUME IInv
  PROVE  /\ Cancelled \in Seq(Token) /\ DOMAIN Cancelled = DOMAIN tokens
         /\ \A t \in DOMAIN tokens :
              /\ Cancelled[t].gateway = tokens[t].gateway
              /\ \/ Cancelled[t] = tokens[t] /\ tokens[t].status \in {"CONSUMED", "CANCELLED"}
                 \/ Cancelled[t].at = tokens[t].at /\ tokens[t].status # "CONSUMED" /\ Cancelled[t].status = "CANCELLED"
  <1>1. TypeOK
    BY DEF IInv
  <1>2. \A t \in DOMAIN tokens : tokens[t].status \in {"ACTIVE", "WAITING", "CONSUMED", "CANCELLED"}
    <2>1. tokens \in Seq(Token)
      BY <1>1 DEF TypeOK
    <2>2. \A t \in DOMAIN tokens : tokens[t] \in Token
      BY <2>1, ElementOfSeq, LenProperties
    <2> QED
      BY <2>2 DEF Token
  <1> QED
    BY <1>1, <1>2, MarkedTokens DEF Cancelled, Live

\* A cancel takes all live tokens; nothing is said of the instance after.
LEMMA CancelTokensStep ==
  ASSUME IInv, NEW p \in Requests, CancelTokens(p)
  PROVE  Kept(p)
  <1>1. TypeOK /\ WalkOK(p)
    BY DEF IInv
  <1>2. /\ pc[p] = "cancel" /\ tokens' = Cancelled /\ uprooted' = TRUE
        /\ pc' = [pc EXCEPT ![p] = "persist"]
        /\ UNCHANGED <<instance, open, row, at, token, stack, res, terminated, torn, faults>>
    BY DEF CancelTokens, Goto, walk
  <1>3. TypeOK'
    BY <1>1, <1>2, CancelledTokens DEF TypeOK
  <1>4. stack[p] = <<>> /\ token[p] = NoToken /\ row[p].status # "NONE" /\ pc'[p] = "persist"
    BY <1>1, <1>2 DEF WalkOK, TypeOK
  <1>5. OwnLocals(p)
    BY <1>1, <1>2 DEF OwnLocals, TypeOK
  <1>6. ~Clean'
    BY <1>2 DEF Clean
  <1>7. OwnTokens(p) /\ Fresh = {}
    BY <1>2, <1>6, CancelledTokens DEF OwnTokens, Fresh
  <1>8. /\ StackTokens(stack[p]) = {} /\ Resumed(stack[p], Back(p)) = {} /\ Resumed(stack'[p], Back(p)') = {}
        /\ Apart(token'[p], stack'[p]) /\ StackOK(stack'[p])
    BY <1>2, <1>4, EmptyStack
  <1>9. Held(p)' = Held(p) /\ Usable(p)' = {}
    BY <1>2, <1>4, <1>8 DEF Held, Usable
  <1>10. Moves(p)
    BY <1>2, <1>5, <1>6, <1>7, <1>9 DEF Moves, OwnHands
  <1>11. WalkOK(p)'
    BY <1>2, <1>4, <1>8 DEF WalkOK, Walking, Back
  <1>12. CarryOK(p)'
    BY <1>2, <1>4, <1>9 DEF CarryOK, Placed
  <1>13. ~Going(p)' /\ OpenTasks' = OpenTasks
    BY <1>2, <1>4 DEF Going, Walking, OpenTasks
  <1>14. ControlKept'
    BY <1>2, <1>3, <1>6, <1>10, <1>13, ControlQuiet
  <1> QED
    BY <1>3, <1>8, <1>10, <1>11, <1>12, <1>14 DEF Kept, RequestOK

\* A walk ends with no call waiting and no token left to use.
LEMMA EndWalkStep ==
  ASSUME IInv, NEW p \in Requests, EndWalk(p)
  PROVE  Kept(p)
  <1>1. TypeOK /\ WalkOK(p) /\ CarryOK(p)
    BY DEF IInv
  <1>2. /\ pc[p] = "return" /\ stack[p] = <<>>
        /\ pc' = [pc EXCEPT ![p] = "persist"]
        /\ UNCHANGED <<instance, open, tokens, row, at, token, stack, res, terminated, uprooted, torn, faults>>
    BY DEF EndWalk, Goto, walk, history
  <1>3. TypeOK'
    BY <1>1, <1>2 DEF TypeOK
  <1>4. row[p].status # "NONE" /\ pc'[p] = "persist" /\ Placed(token[p])
    BY <1>1, <1>2 DEF WalkOK, CarryOK, TypeOK
  <1>5. OwnLocals(p)
    BY <1>1, <1>2 DEF OwnLocals, TypeOK
  <1>6. /\ StackTokens(stack[p]) = {} /\ Resumed(stack[p], Back(p)) = {} /\ Resumed(stack'[p], Back(p)') = {}
        /\ Apart(token'[p], stack'[p]) /\ StackOK(stack'[p])
    BY <1>2, EmptyStack
  <1>7. Held(p)' = Held(p) /\ Usable(p)' = {}
    BY <1>2, <1>4, <1>6 DEF Held, Usable
  <1>8. Moves(p)
    BY <1>2, <1>5, <1>7, TokensStay
  <1>9. WalkOK(p)'
    BY <1>2, <1>4, <1>6 DEF WalkOK, Walking, Back
  <1>10. CarryOK(p)'
    BY <1>2, <1>4, <1>7 DEF CarryOK, Placed
  <1>11. ~Going(p)' /\ OpenTasks' = OpenTasks /\ (Completing(p)' <=> Completing(p)) /\ (SavedOK(stack[p])' <=> SavedOK(stack[p]))
    BY <1>2, <1>4 DEF Going, Walking, OpenTasks, Completing, SavedOK
  <1>12. Ending(p)'
    BY <1>4, <1>7 DEF Ending
  <1>13. Clean' => SavedOK(stack[p])
    BY <1>2 DEF IInv, ControlKept, Clean
  <1>14. ControlKept'
    BY <1>2, <1>3, <1>8, <1>11, <1>12, <1>13, ControlQuiet
  <1> QED
    BY <1>3, <1>6, <1>8, <1>9, <1>10, <1>14 DEF Kept, RequestOK

\* A failure at any await is a throw.
LEMMA FailStep ==
  ASSUME IInv, NEW p \in Requests, Fail(p)
  PROVE  Kept(p)
  <1>1. /\ pc[p] # "idle" /\ faults < MaxFaults /\ faults' = faults + 1 /\ Throw(p)
        /\ UNCHANGED <<instance, open, tokens, terminated, uprooted>>
    BY DEF Fail
  <1>2. faults' \in 0 .. MaxFaults /\ open' \in [Tasks -> {"none", "open", "done"}] /\ OpenTasks' = OpenTasks
    BY <1>1, TokensAssumption DEF IInv, TypeOK, OpenTasks, TokensAssumption
  <1> QED
    BY <1>1, <1>2, Throws

\* So is an element that leads nowhere.
LEMMA NoFlowStep ==
  ASSUME IInv, NEW p \in Requests, NoFlow(p)
  PROVE  Kept(p)
  <1>1. /\ pc[p] = "leave" /\ Throw(p)
        /\ UNCHANGED <<instance, open, tokens, terminated, uprooted, faults>>
    BY DEF NoFlow
  <1>2. faults' \in 0 .. MaxFaults /\ open' \in [Tasks -> {"none", "open", "done"}] /\ OpenTasks' = OpenTasks
    BY <1>1 DEF IInv, TypeOK, OpenTasks
  <1> QED
    BY <1>1, <1>2, Throws

\* Only the version that was read is replaced, and a completed one has no task
\* open.
LEMMA PersistStep ==
  ASSUME IInv, NEW p \in Requests, Persist(p)
  PROVE  Kept(p)
  <1>1. TypeOK /\ WalkOK(p) /\ CarryOK(p)
    BY DEF IInv
  <1>2. pc[p] = "persist" /\ UNCHANGED <<open, tokens, terminated, uprooted, faults>>
    BY DEF Persist
  <1>3. /\ faults' \in 0 .. MaxFaults /\ open' \in [Tasks -> {"none", "open", "done"}]
        /\ OpenTasks' = OpenTasks /\ torn \subseteq DOMAIN tokens
    BY <1>1, <1>2 DEF TypeOK, OpenTasks
  <1>4. CASE Throw(p) /\ UNCHANGED instance
    BY <1>2, <1>3, <1>4, Throws
  <1>5. CASE instance' = [row[p] EXCEPT !.version = @ + 1] /\ Forget(p) /\ UNCHANGED torn
    <2>1. /\ instance' \in Row /\ instance'.status = row[p].status /\ row[p].status # "NONE"
      BY <1>1, <1>2, <1>5, Types DEF Row, WalkOK
    <2>2. stack[p] = <<>> /\ Placed(token[p])
      BY <1>1, <1>2 DEF WalkOK, CarryOK
    <2>3. StackTokens(stack[p]) = {}
      BY <2>2, EmptyStack
    <2>4. \A t \in Held(p) : Placed(t)'
      <3>1. \A t \in Held(p) : t = token[p]
        BY <2>3 DEF Held
      <3> QED
        BY <1>2, <2>2, <3>1 DEF Placed
    <2>5. /\ TypeOK' /\ Moves(p) /\ RequestOK(p)'
          /\ ~Going(p)' /\ ~Completing(p)' /\ SavedOK(stack[p])'
      BY <1>2, <1>3, <1>5, <2>1, <2>4, Forgets
    <2>6. ControlKept'
      <3> SUFFICES ASSUME Clean' PROVE
             /\ Uncancelled'
             /\ Stuck' \/ OneControl'
             /\ \A q \in Requests : SavedOK(stack[q])' /\ (Completing(q)' => CompletingOK(q)')
             /\ instance'.status = "COMPLETED" => OpenTasks' = {} /\ \A q \in Requests : ~Going(q)'
        BY <2>1 DEF ControlKept, Uncancelled
      <3>1. /\ Clean
            /\ Stuck \/ OneControl
            /\ \A q \in Requests : SavedOK(stack[q]) /\ (Completing(q) => CompletingOK(q))
        BY <2>5, StuckStays DEF IInv, ControlKept
      <3>2. \A q \in Requests : Going(q)' => Going(q)
        BY <2>5, OtherRequests
      <3>3. OneControl => OneControl'
        BY <1>3, <3>2 DEF OneControl
      <3>4. \A q \in Requests : SavedOK(stack[q])' /\ (Completing(q)' => CompletingOK(q)')
        BY <1>3, <2>5, <3>1, <3>2, OtherRequests DEF CompletingOK
      <3>5. ASSUME instance'.status = "COMPLETED" PROVE OpenTasks' = {} /\ \A q \in Requests : ~Going(q)'
        <4>1. CompletingOK(p)
          BY <1>2, <2>1, <3>1, <3>5 DEF Completing
        <4> QED
          BY <1>3, <2>5, <3>2, <4>1 DEF CompletingOK
      <3> QED
        BY <2>5, <3>1, <3>3, <3>4, <3>5, StuckStays
    <2> QED
      BY <2>5, <2>6 DEF Kept
  <1> QED
    BY <1>4, <1>5 DEF Persist

-----------------------------------------------------------------------------
(* Steps of a walk *)

\* FrameStands, with the tokens tk
StandsIn(tk, f) ==
    /\ f.call = "followFlow" => f.token = NoToken \/ Kind[tk[f.token].at] \in Forks
    /\ f.call = "fork" => \A k \in DOMAIN f.rest :
         \/ f.rest[k].token = NoToken
         \/ tk[f.rest[k].token].at = f.rest[k].to
         \/ Kind[tk[f.rest[k].token].at] \in Forks
    /\ f.call = "embedded" => \/ f.token = NoToken
                              \/ tk[f.token].at = f.element
                              \/ Kind[tk[f.token].at] \in Forks

\* The walk finds its tokens where it goes on.
AllStand(tk, s, back) == \A i \in DOMAIN s : Resumes(s, i, back) => StandsIn(tk, s[i])

\* FrameStands, of the tokens before the step ...
LEMMA StandsIs ==
  ASSUME NEW p, stack[p] \in Seq(Frame)
  PROVE  (\A i \in DOMAIN stack[p] : Resumes(stack[p], i, Back(p)) => FrameStands(stack[p][i]))
           <=> AllStand(tokens, stack[p], Back(p))
  <1>1. \A i \in DOMAIN stack[p] : stack[p][i] \in Frame
    BY ElementOfSeq, LenProperties
  <1>2. ASSUME NEW i \in DOMAIN stack[p] PROVE FrameStands(stack[p][i]) <=> StandsIn(tokens, stack[p][i])
    <2>1. \/ stack[p][i].call = "followFlow" \/ stack[p][i].call = "fork" \/ stack[p][i].call = "embedded"
      BY <1>1, FrameIs
    <2> QED
      BY <2>1 DEF FrameStands, StandsIn, StandsAt
  <1> QED
    BY <1>2 DEF AllStand

\* ... and of those after it.
LEMMA StandsNext ==
  ASSUME NEW p, stack'[p] \in Seq(Frame)
  PROVE  (\A i \in DOMAIN stack[p] : Resumes(stack[p], i, Back(p)) => FrameStands(stack[p][i]))'
           <=> AllStand(tokens', stack'[p], Back(p)')
  <1>1. \A i \in DOMAIN stack'[p] : stack'[p][i] \in Frame
    BY ElementOfSeq, LenProperties
  <1>2. ASSUME NEW i \in DOMAIN stack'[p] PROVE FrameStands(stack[p][i])' <=> StandsIn(tokens', stack'[p][i])
    <2>1. \/ stack'[p][i].call = "followFlow" \/ stack'[p][i].call = "fork" \/ stack'[p][i].call = "embedded"
      BY <1>1, FrameIs
    <2> QED
      BY <2>1 DEF FrameStands, StandsIn, StandsAt
  <1> QED
    BY <1>2 DEF AllStand

\* Frames stand when the top does and the rest do.
LEMMA StandOn ==
  ASSUME NEW r, NEW s, OnTop(r, s), NEW back \in BOOLEAN, NEW tk
  PROVE  AllStand(tk, r, back) <=> /\ r[1].call # "followFlow" \/ back => StandsIn(tk, r[1])
                                   /\ AllStand(tk, s, r[1].call = "fork")
  <1> USE OnTopFacts DEF OnTop
  <1>1. ASSUME AllStand(tk, r, back)
        PROVE  /\ r[1].call # "followFlow" \/ back => StandsIn(tk, r[1])
               /\ AllStand(tk, s, r[1].call = "fork")
    <2>1. r[1].call # "followFlow" \/ back => StandsIn(tk, r[1])
      BY <1>1, ResumesOn DEF AllStand
    <2>2. ASSUME NEW i \in DOMAIN s, Resumes(s, i, r[1].call = "fork") PROVE StandsIn(tk, s[i])
      <3>1. i + 1 \in DOMAIN r /\ r[i + 1] = s[i]
        OBVIOUS
      <3>2. Resumes(r, i + 1, back)
        BY <2>2, ResumesOn
      <3> QED
        BY <1>1, <3>1, <3>2 DEF AllStand
    <2> QED
      BY <2>1, <2>2 DEF AllStand
  <1>2. ASSUME r[1].call # "followFlow" \/ back => StandsIn(tk, r[1]),
               AllStand(tk, s, r[1].call = "fork"),
               NEW i \in DOMAIN r, Resumes(r, i, back)
        PROVE  StandsIn(tk, r[i])
    <2>1. CASE i = 1
      BY <1>2, <2>1, ResumesOn
    <2>2. CASE i # 1
      <3>1. PICK h \in 1 .. Len(s) : r[i] = s[h] /\ i = h + 1
        <4>1. i - 1 \in 1 .. Len(s) /\ r[i] = s[i - 1] /\ i = (i - 1) + 1
          BY <2>2
        <4> QED
          BY <4>1
      <3>2. Resumes(r, h + 1, back)
        BY <1>2, <3>1
      <3>3. Resumes(s, h, r[1].call = "fork")
        BY <3>2, ResumesOn
      <3> QED
        BY <1>2, <3>1, <3>3 DEF AllStand
    <2> QED
      BY <2>1, <2>2
  <1>3. ASSUME r[1].call # "followFlow" \/ back => StandsIn(tk, r[1]), AllStand(tk, s, r[1].call = "fork")
        PROVE  AllStand(tk, r, back)
    BY <1>2, <1>3 DEF AllStand
  <1> QED
    BY <1>1, <1>3

\* They go on standing as long as their tokens stay where they are.
LEMMA StandKept ==
  ASSUME NEW s \in Seq(Frame), NEW back \in BOOLEAN, NEW tk, NEW new, AllStand(tk, s, back),
         \A t \in Resumed(s, back) \ {NoToken} : new[t].at = tk[t].at
  PROVE  AllStand(new, s, back)
  <1> SUFFICES ASSUME NEW i \in DOMAIN s, Resumes(s, i, back) PROVE StandsIn(new, s[i])
    BY DEF AllStand
  <1>1. StandsIn(tk, s[i])
    BY DEF AllStand
  <1>2. \A t \in FrameTokens(s[i]) \ {NoToken} : new[t].at = tk[t].at
    BY DEF Resumed
  <1>3. CASE s[i].call = "fork"
    BY <1>1, <1>2, <1>3 DEF StandsIn, FrameTokens
  <1>4. CASE s[i].call # "fork"
    BY <1>1, <1>2, <1>4 DEF StandsIn, FrameTokens
  <1> QED
    BY <1>3, <1>4

\* The walk halts, and tells the call it was made by.
LEMMA Halts ==
  ASSUME IInv, NEW p \in Requests, TypeOK', OwnLocals(p), UNCHANGED <<tokens, torn, terminated, uprooted>>,
         \A e \in Tasks : open[e] # "none" => open'[e] # "none",
         Walking(p), pc'[p] = "return", stack'[p] = stack[p], token'[p] = token[p], res'[p] # "going",
         row'[p].status # "NONE",
         stack[p] # <<>> => Reached(row'[p].at, Inside(stack[p], 1)),
         Placed(token[p])'
  PROVE  /\ Moves(p) /\ RequestOK(p)'
         /\ Usable(p)' = Resumed(stack[p], FALSE) \ {NoToken}
         /\ Usable(p)' \subseteq Usable(p)
  <1> DEFINE s == stack[p]
  <1>1. s \in Seq(Frame) /\ StackOK(s) /\ WalkOK(p) /\ CarryOK(p)
    BY Types
  <1>2. (Back(p) = FALSE) /\ (Back(p)' = FALSE)
    BY DEF Walking, Back
  <1>3. Held(p)' = Held(p)
    BY DEF Held
  <1>4. Usable(p)' = Resumed(s, FALSE) \ {NoToken}
    BY <1>2 DEF Usable
  <1>5. Usable(p)' \subseteq Usable(p)
    BY <1>2, <1>4 DEF Usable
  <1>6. Moves(p)
    BY <1>3, <1>5, TokensStay
  <1>7. StackOK(stack[p])'
    BY <1>1
  <1>8. WalkOK(p)'
    BY <1>1, <1>2 DEF WalkOK, Walking
  <1>9. CarryOK(p)'
    <2>2. (stack[p] # <<>> /\ stack[p][1].call = "followFlow" => Placed(stack[p][1].token))'
      <3>1. s # <<>> /\ s[1].call = "followFlow" => s[1].token = token[p]
        BY <1>1 DEF WalkOK, RunOK, RunsOn, CarriesOn
      <3> QED
        BY <3>1 DEF Placed
    <2>3. AllStand(tokens', stack'[p], Back(p)')
      BY <1>1, <1>2, StandsIs DEF CarryOK
    <2>4. (\A i \in DOMAIN stack[p] : Resumes(stack[p], i, Back(p)) => FrameStands(stack[p][i]))'
      BY <1>1, <2>3, StandsNext
    <2>5. (\A t \in Usable(p) : tokens[t].status # "CONSUMED")'
      BY <1>1, <1>5 DEF CarryOK
    <2> QED
      BY <2>2, <2>4, <2>5 DEF CarryOK
  <1> QED
    BY <1>4, <1>5, <1>6, <1>7, <1>8, <1>9 DEF RequestOK

\* What the invariant says of a walk that is at an element.
LEMMA WalksOn ==
  ASSUME IInv, NEW p \in Requests, Walking(p)
  PROVE  /\ at[p] \in Elements /\ Reached(at[p], Inside(stack[p], 1))
         /\ RunOK(at[p], token[p], stack[p]) /\ row[p].status # "NONE"
         /\ pc[p] # "idle" /\ Going(p)
         /\ Clean /\ row[p].status = "COMPLETED" => CompletingOK(p)
         /\ Clean => SavedOK(stack[p])
         /\ pc[p] \in {"enter", "leave"} =>
              (token[p] # NoToken => token[p] \in Usable(p)) /\ StandsAt(token[p], at[p])
         /\ pc[p] \in {"join", "ended"} => Placed(token[p])
  <1>1. WalkOK(p) /\ CarryOK(p)
    BY Types
  <1>2. RunOK(at[p], token[p], stack[p]) /\ row[p].status # "NONE"
    BY <1>1 DEF WalkOK, Walking
  <1>3. Reached(at[p], Inside(stack[p], 1)) /\ at[p] \in Elements
    BY <1>2 DEF RunOK, Reached
  <1>4. Going(p) /\ pc[p] # "idle"
    BY DEF Going, Walking
  <1>5. (Clean /\ row[p].status = "COMPLETED" => CompletingOK(p)) /\ (Clean => SavedOK(stack[p]))
    BY <1>4 DEF IInv, ControlKept, Completing
  <1>6. pc[p] \in {"enter", "leave"} => (token[p] # NoToken => token[p] \in Usable(p)) /\ StandsAt(token[p], at[p])
    BY <1>1 DEF CarryOK, Usable
  <1>7. pc[p] \in {"join", "ended"} => Placed(token[p])
    BY <1>1 DEF CarryOK
  <1> QED
    BY <1>2, <1>3, <1>4, <1>5, <1>6, <1>7

\* A task that leads nowhere halts the walk that left it.
LEMMA StayAtTaskStep ==
  ASSUME IInv, NEW p \in Requests, StayAtTask(p)
  PROVE  Kept(p)
  <1>1. TypeOK /\ WalkOK(p)
    BY DEF IInv
  <1>2. /\ pc[p] = "leave" /\ at[p] \in Tasks /\ Walking(p)
        /\ res' = [res EXCEPT ![p] = Kind[at[p]]] /\ pc' = [pc EXCEPT ![p] = "return"]
        /\ UNCHANGED <<instance, open, tokens, row, at, token, stack, terminated, uprooted, torn, faults>>
    BY DEF StayAtTask, Return, Goto, history, Walking
  <1>3. Kind[at[p]] \in {"userTask", "serviceTask"}
    BY <1>2 DEF Tasks
  <1>4. TypeOK'
    BY <1>1, <1>2, <1>3 DEF TypeOK, Results
  <1>5. /\ pc'[p] = "return" /\ res'[p] = Kind[at[p]] /\ OwnLocals(p)
    BY <1>1, <1>2 DEF OwnLocals, TypeOK
  <1>6. stack[p] = <<>> /\ token[p] = NoToken
    BY <1>1, <1>2, WalksOn DEF WalkOK, RunOK
  <1>7. Placed(token[p])'
    BY <1>2, <1>6 DEF Placed
  <1>8. Moves(p) /\ RequestOK(p)'
    BY <1>2, <1>3, <1>4, <1>5, <1>6, <1>7, WalksOn, Halts
  <1>9. Clean' => SavedOK(stack[p])' /\ ~Completing(p)'
    <2>1. Clean' => Clean /\ SavedOK(stack[p]) /\ row[p].status # "COMPLETED"
      BY <1>2, <1>3, WalksOn DEF Clean, CompletingOK, Ending
    <2> QED
      BY <2>1, <1>2 DEF SavedOK, Completing
  <1>10. ControlKept'
    BY <1>2, <1>4, <1>8, <1>9, WalksOn, ControlQuiet DEF OpenTasks
  <1> QED
    BY <1>4, <1>8, <1>10 DEF Kept

\* No token counts as arrived at a join, and a join a walk comes to has a flow
\* that leads to it.
LEMMA NoneArrives ==
  ASSUME IInv, NEW e \in Elements, Kind[e] = "join", NEW d \in Elements, e \in Targets(d)
  PROVE  Cardinality(Arrived(e)) < Incoming(e)
  <1>1. Arrived(e) = {}
    BY DEF IInv, ForkedByForks, Arrived, Live, Forks
  <1> DEFINE flows == UNION {{<<c, i>> : i \in DOMAIN Flows[c]} : c \in Elements}
             in == {f \in flows : Flows[f[1]][f[2]] = e}
  <1>2. Incoming(e) = Cardinality(in)
    BY DEF Incoming
  <1>3. IsFiniteSet(flows)
    <2>1. IsFiniteSet(Elements) /\ Flows \in [Elements -> Seq(Elements)]
      BY TokensAssumption DEF TokensAssumption
    <2>2. ASSUME NEW c \in Elements PROVE IsFiniteSet({<<c, i>> : i \in DOMAIN Flows[c]})
      <3>1. DOMAIN Flows[c] = 1 .. Len(Flows[c]) /\ Len(Flows[c]) \in Nat
        BY <2>1, LenProperties
      <3>2. IsFiniteSet(DOMAIN Flows[c])
        BY <3>1, FS_Interval
      <3> DEFINE f == [i \in DOMAIN Flows[c] |-> <<c, i>>]
      <3>3. f \in Surjection(DOMAIN Flows[c], {<<c, i>> : i \in DOMAIN Flows[c]})
        BY DEF Surjection
      <3> QED
        BY <3>2, <3>3, FS_Surjection
    <2>3. IsFiniteSet({{<<c, i>> : i \in DOMAIN Flows[c]} : c \in Elements})
      <3> DEFINE f == [c \in Elements |-> {<<c, i>> : i \in DOMAIN Flows[c]}]
      <3>1. f \in Surjection(Elements, {{<<c, i>> : i \in DOMAIN Flows[c]} : c \in Elements})
        BY DEF Surjection
      <3> QED
        BY <2>1, <3>1, FS_Surjection
    <2> QED
      BY <2>2, <2>3, FS_UNION
  <1>4. in # {}
    <2>1. PICK i \in DOMAIN Flows[d] : Flows[d][i] = e
      BY DEF Targets
    <2>2. <<d, i>> \in flows
      OBVIOUS
    <2>3. <<d, i>> \in in
      BY <2>1, <2>2
    <2> QED
      BY <2>3
  <1>5. IsFiniteSet(in)
    BY <1>3, FS_Subset
  <1> QED
    BY <1>1, <1>2, <1>4, <1>5, FS_EmptySet, FS_CardinalityType

\* A join halts every walk: no token has a join as its gateway.
LEMMA CheckJoinStep ==
  ASSUME IInv, NEW p \in Requests, CheckJoin(p)
  PROVE  Kept(p) /\ res'[p] = "join" /\ tokens' = tokens
  <1>1. TypeOK /\ WalkOK(p)
    BY DEF IInv
  <1>2. pc[p] = "join" /\ Walking(p) /\ Kind[at[p]] = "join"
    BY <1>1 DEF CheckJoin, Walking, WalkOK
  <1>3. Cardinality(Arrived(at[p])) < Incoming(at[p])
    BY <1>2, WalksOn, NoneArrives DEF Reached
  <1>4. /\ Return(p, "join")
        /\ UNCHANGED <<instance, open, tokens, row, at, token, stack, terminated, uprooted, torn, faults>>
    BY <1>3 DEF CheckJoin
  <1>5. res' = [res EXCEPT ![p] = "join"] /\ pc' = [pc EXCEPT ![p] = "return"]
    BY <1>4 DEF Return, Goto
  <1>6. TypeOK'
    BY <1>1, <1>4, <1>5 DEF TypeOK, Results
  <1>7. pc'[p] = "return" /\ res'[p] = "join" /\ OwnLocals(p)
    BY <1>1, <1>4, <1>5 DEF OwnLocals, TypeOK
  <1>8. Placed(token[p])'
    BY <1>2, <1>4, WalksOn DEF Placed
  <1>9. stack[p] # <<>> => Reached(row[p].at, Inside(stack[p], 1))
    BY <1>1, <1>2 DEF WalkOK
  <1>10. Moves(p) /\ RequestOK(p)'
    BY <1>2, <1>4, <1>6, <1>7, <1>8, <1>9, WalksOn, Halts
  <1>11. Clean' => SavedOK(stack[p])' /\ ~Completing(p)'
    <2>1. Clean' => Clean /\ SavedOK(stack[p]) /\ row[p].status # "COMPLETED"
      BY <1>2, <1>4, WalksOn DEF Clean, CompletingOK, Ending
    <2> QED
      BY <2>1, <1>4 DEF SavedOK, Completing
  <1>12. ControlKept'
    BY <1>2, <1>4, <1>6, <1>10, <1>11, WalksOn, ControlQuiet DEF OpenTasks
  <1> QED
    BY <1>4, <1>6, <1>7, <1>10, <1>12 DEF Kept

\* When no token is live, control is where the walk is, and it has no token
\* that it may still use.
LEMMA NoneLive ==
  ASSUME IInv, NEW p \in Requests, Clean, Live = {}, Going(p)
  PROVE  OpenTasks = {} /\ Usable(p) = {} /\ \A q \in Requests \ {p} : ~Going(q)
  <1>1. ~Stuck
    BY DEF Stuck
  <1>2. OneControl /\ Uncancelled
    BY <1>1 DEF IInv, ControlKept, Uncancelled
  <1>3. ASSUME NEW t \in Usable(p) PROVE FALSE
    <2>1. t \in DOMAIN tokens /\ tokens[t] \in Token
      BY UsableHeld, Types
    <2>2. tokens[t].status \notin {"CONSUMED", "CANCELLED"}
      BY <1>2, <2>1, Types DEF CarryOK, Uncancelled
    <2>3. t \in Live
      BY <2>1, <2>2 DEF Live, Token
    <2> QED
      BY <2>3
  <1> QED
    BY <1>2, <1>3 DEF OneControl

\* An end event completes the instance with no live token, so with no other
\* request that goes on.
LEMMA CheckEndStep ==
  ASSUME IInv, NEW p \in Requests, CheckEnd(p)
  PROVE  Kept(p)
  <1>1. TypeOK /\ WalkOK(p)
    BY DEF IInv
  <1>2. /\ pc[p] = "ended" /\ Walking(p)
        /\ row' = IF MayComplete THEN [row EXCEPT ![p].status = "COMPLETED"] ELSE row
        /\ res' = [res EXCEPT ![p] = "completed"] /\ pc' = [pc EXCEPT ![p] = "return"]
        /\ UNCHANGED <<instance, open, tokens, at, token, stack, terminated, uprooted, torn, faults>>
    BY DEF CheckEnd, Return, Goto, history, EndResult, Walking
  <1>3. Kind[at[p]] = "endEvent" /\ row[p].at = at[p]
    BY <1>1, <1>2 DEF WalkOK
  <1>4. [row[p] EXCEPT !.status = "COMPLETED"] \in Row
        /\ [row[p] EXCEPT !.status = "COMPLETED"].at = at[p]
        /\ [row[p] EXCEPT !.status = "COMPLETED"].status = "COMPLETED"
    BY <1>3, Types DEF Row
  <1>5. /\ pc'[p] = "return" /\ res'[p] = "completed" /\ OwnLocals(p)
        /\ row'[p] = IF MayComplete THEN [row[p] EXCEPT !.status = "COMPLETED"] ELSE row[p]
    BY <1>1, <1>2 DEF OwnLocals, TypeOK
  <1>6. TypeOK'
    <2>1. row' \in [Requests -> Row]
      BY <1>1, <1>2, <1>4 DEF TypeOK
    <2> QED
      BY <1>1, <1>2, <2>1 DEF TypeOK, Results
  <1>7. row'[p].at = at[p] /\ row'[p].status # "NONE"
    BY <1>2, <1>3, <1>4, <1>5, WalksOn
  <1>8. Placed(token[p])'
    BY <1>2, WalksOn DEF Placed
  <1>9. /\ Moves(p) /\ RequestOK(p)'
        /\ Usable(p)' \subseteq Usable(p)
    BY <1>2, <1>5, <1>6, <1>7, <1>8, WalksOn, Halts
  <1>10. CASE ~MayComplete
    <2>1. Clean' => SavedOK(stack[p])' /\ (Completing(p)' => Completing(p) /\ Ending(p)')
      <3>1. Clean' => Clean /\ SavedOK(stack[p])
        BY <1>2, WalksOn DEF Clean
      <3>2. Clean /\ Completing(p) => Usable(p) = {}
        BY <1>2, WalksOn DEF Completing, CompletingOK, Ending
      <3>3. SavedOK(stack[p])' <=> SavedOK(stack[p])
        BY <1>2 DEF SavedOK
      <3>4. Completing(p)' <=> Completing(p)
        BY <1>2, <1>5, <1>10, WalksOn DEF Completing
      <3>5. Usable(p)' = {} => Ending(p)'
        BY <1>3, <1>5, <1>7 DEF Ending
      <3> QED
        BY <1>9, <3>1, <3>2, <3>3, <3>4, <3>5
    <2>2. ControlKept'
      BY <1>2, <1>6, <1>9, <2>1, WalksOn, ControlQuiet DEF OpenTasks
    <2> QED
      BY <1>6, <1>9, <2>2 DEF Kept
  <1>11. CASE MayComplete
    <2>1. Live = {}
      BY <1>11 DEF MayComplete
    <2>2. instance'.status # "NONE"
      BY <1>2, WalksOn DEF IInv, ControlKept
    <2>3. ControlKept'
      <3> SUFFICES ASSUME Clean' PROVE
             /\ Uncancelled'
             /\ Stuck' \/ OneControl'
             /\ \A q \in Requests : SavedOK(stack[q])' /\ (Completing(q)' => CompletingOK(q)')
             /\ instance'.status # "COMPLETED"
        BY <2>2 DEF ControlKept, Uncancelled
      <3>1. /\ Clean
            /\ \A q \in Requests : SavedOK(stack[q]) /\ (Completing(q) => CompletingOK(q))
            /\ Uncancelled'
        BY <1>6, <1>9, StuckStays DEF IInv, ControlKept
      <3>2. OpenTasks = {} /\ Usable(p) = {} /\ \A q \in Requests \ {p} : ~Going(q)
        BY <1>2, <2>1, <3>1, WalksOn, NoneLive
      <3>3. OpenTasks' = {} /\ \A q \in Requests \ {p} : ~Going(q)'
        BY <1>2, <1>6, <1>9, <3>2, OtherRequests DEF OpenTasks
      <3>4. OneControl'
        BY <3>3 DEF OneControl
      <3>5. CompletingOK(p)'
        BY <1>3, <1>5, <1>7, <1>9, <3>2, <3>3 DEF CompletingOK, Ending
      <3>6. \A q \in Requests \ {p} : ~Completing(q)
        BY <1>2, <3>1, WalksOn DEF CompletingOK
      <3>7. \A q \in Requests : SavedOK(stack[q])' /\ (Completing(q)' => CompletingOK(q)')
        <4>1. SavedOK(stack[p])'
          BY <1>2, <3>1 DEF SavedOK
        <4> QED
          BY <1>6, <1>9, <3>1, <3>5, <3>6, <4>1, OtherRequests
      <3>8. instance.status # "COMPLETED"
        BY <1>2, <3>1, WalksOn DEF IInv, ControlKept
      <3> QED
        BY <1>2, <3>1, <3>4, <3>7, <3>8
    <2> QED
      BY <1>6, <1>9, <2>3 DEF Kept
  <1> QED
    BY <1>10, <1>11

\* A move changes one token.
LEMMA MovedTokens ==
  ASSUME IInv, NEW t \in DOMAIN tokens \cup {NoToken}, NEW e, t # NoToken => e \in Elements,
         NEW s \in {"ACTIVE", "WAITING", "CONSUMED", "CANCELLED"}
  PROVE  /\ Moved(t, e, s) \in Seq(Token) /\ DOMAIN Moved(t, e, s) = DOMAIN tokens
         /\ t # NoToken => /\ Moved(t, e, s)[t].at = e /\ Moved(t, e, s)[t].status = s
                           /\ Moved(t, e, s)[t].gateway = tokens[t].gateway
         /\ \A u \in DOMAIN tokens : u # t => Moved(t, e, s)[u] = tokens[u]
  <1>1. /\ tokens \in Seq(Token) /\ DOMAIN tokens = 1 .. Len(tokens) /\ Len(tokens) \in Nat
        /\ NoToken \notin DOMAIN tokens /\ \A u \in DOMAIN tokens : tokens[u] \in Token
    <2>1. tokens \in Seq(Token)
      BY DEF IInv, TypeOK
    <2> QED
      BY <2>1, LenProperties, ElementOfSeq DEF NoToken
  <1>2. CASE t = NoToken
    BY <1>1, <1>2 DEF Moved
  <1>3. CASE t # NoToken
    <2> DEFINE new == [tokens[t] EXCEPT !.at = e, !.status = s]
    <2>1. t \in 1 .. Len(tokens) /\ tokens[t] \in Token
      BY <1>1, <1>3
    <2>2. new \in Token /\ new.at = e /\ new.status = s /\ new.gateway = tokens[t].gateway
      BY <1>3, <2>1 DEF Token
    <2>3. Moved(t, e, s) = [tokens EXCEPT ![t] = new]
      BY <1>3 DEF Moved
    <2> HIDE DEF new
    <2>4. [tokens EXCEPT ![t] = new] \in Seq(Token)
      BY <1>1, <2>1, <2>2, ExceptSeq
    <2> QED
      BY <1>1, <1>3, <2>1, <2>2, <2>3, <2>4
  <1> QED
    BY <1>2, <1>3

\* A step that moves or consumes the token the walk carries
LEMMA CarriedMoves ==
  ASSUME IInv, NEW p \in Requests, pc[p] \in {"enter", "leave"}, DOMAIN tokens' = DOMAIN tokens,
         token[p] # NoToken => /\ tokens'[token[p]].gateway = tokens[token[p]].gateway
                               /\ tokens'[token[p]].status # "CANCELLED",
         \A t \in DOMAIN tokens : t # token[p] => tokens'[t] = tokens[t]
  PROVE  /\ OwnTokens(p) /\ Fresh = {}
         /\ AllStand(tokens', stack[p], FALSE)
         /\ \A t \in Resumed(stack[p], FALSE) \ {NoToken} :
              t # token[p] /\ tokens'[t] = tokens[t] /\ tokens[t].status # "CONSUMED"
         /\ Usable(p) = (Resumed(stack[p], FALSE) \cup {token[p]}) \ {NoToken}
  <1>1. Walking(p) /\ (Back(p) = FALSE)
    BY DEF Walking, Back
  <1>2. /\ stack[p] \in Seq(Frame) /\ WalkOK(p) /\ CarryOK(p)
        /\ Held(p) \subseteq DOMAIN tokens \cup {NoToken}
        /\ token[p] \in DOMAIN tokens \cup {NoToken} /\ NoToken \notin DOMAIN tokens
    BY Types
  <1>3. Usable(p) = (Resumed(stack[p], FALSE) \cup {token[p]}) \ {NoToken}
    BY <1>1 DEF Usable
  <1>4. Apart(token[p], stack[p])
    BY <1>2 DEF WalkOK
  <1>5. \A t \in Resumed(stack[p], FALSE) \ {NoToken} :
          t # token[p] /\ tokens'[t] = tokens[t] /\ tokens[t].status # "CONSUMED"
    <2>1. token[p] # NoToken => token[p] \notin Resumed(stack[p], FALSE)
      BY <1>2, <1>4, ResumedApart
    <2>2. \A t \in Usable(p) : t \in DOMAIN tokens /\ tokens[t].status # "CONSUMED"
      BY <1>2, UsableHeld DEF CarryOK
    <2> QED
      BY <1>3, <2>1, <2>2
  <1>6. AllStand(tokens', stack[p], FALSE)
    <2>1. AllStand(tokens, stack[p], FALSE)
      BY <1>1, <1>2, StandsIs DEF CarryOK
    <2> QED
      BY <1>2, <1>5, <2>1, StandKept
  <1>7. OwnTokens(p) /\ Fresh = {}
    BY <1>2, <1>3 DEF OwnTokens, Fresh
  <1> QED
    BY <1>3, <1>5, <1>6, <1>7

\* MarkWaiting and Consume
LEMMA Arrives ==
  ASSUME IInv, NEW p \in Requests, TypeOK', OwnLocals(p), DOMAIN tokens' = DOMAIN tokens,
         UNCHANGED <<instance, open, row, at, token, stack, res, terminated, uprooted, torn, faults>>,
         token[p] # NoToken => /\ tokens'[token[p]].gateway = tokens[token[p]].gateway
                               /\ tokens'[token[p]].status \in {"WAITING", "CONSUMED"},
         \A t \in DOMAIN tokens : t # token[p] => tokens'[t] = tokens[t],
         pc[p] = "leave",
         (pc'[p] = "join" /\ Kind[at[p]] = "join") \/ (pc'[p] = "ended" /\ Kind[at[p]] = "endEvent")
  PROVE  Kept(p)
  <1>1. Walking(p) /\ Walking(p)' /\ Going(p) /\ (Back(p) = FALSE) /\ (Back(p)' = FALSE) /\ pc[p] # "idle"
    BY DEF Walking, Back, Going
  <1>2. stack[p] \in Seq(Frame) /\ StackOK(stack[p]) /\ WalkOK(p) /\ CarryOK(p)
    BY Types
  <1>3. /\ OwnTokens(p) /\ Fresh = {}
        /\ AllStand(tokens', stack[p], FALSE)
        /\ \A t \in Resumed(stack[p], FALSE) \ {NoToken} :
             t # token[p] /\ tokens'[t] = tokens[t] /\ tokens[t].status # "CONSUMED"
        /\ Usable(p) = (Resumed(stack[p], FALSE) \cup {token[p]}) \ {NoToken}
    BY CarriedMoves
  <1>4. Held(p)' = Held(p) /\ Usable(p)' = Resumed(stack[p], FALSE) \ {NoToken}
    BY <1>1 DEF Held, Usable
  <1>5. Moves(p)
    BY <1>3, <1>4 DEF Moves, OwnHands, Clean
  <1>6. WalkOK(p)'
    BY <1>1, <1>2 DEF WalkOK
  <1>7. CarryOK(p)'
    <2>1. Placed(token[p])'
      BY DEF Placed
    <2>2. AllStand(tokens', stack'[p], Back(p)')
      BY <1>1, <1>3
    <2>3. (\A i \in DOMAIN stack[p] : Resumes(stack[p], i, Back(p)) => FrameStands(stack[p][i]))'
      BY <1>2, <2>2, StandsNext
    <2>4. (\A t \in Usable(p) : tokens[t].status # "CONSUMED")'
      BY <1>3, <1>4
    <2> QED
      BY <2>1, <2>3, <2>4 DEF CarryOK
  <1>8. Clean' => SavedOK(stack[p])' /\ (Completing(p)' => Completing(p) /\ Ending(p)')
    <2>1. Clean' => Clean /\ SavedOK(stack[p])
      BY <1>1, WalksOn DEF Clean
    <2>2. Clean /\ Completing(p) => Usable(p) = {} /\ Kind[at[p]] = "endEvent"
      BY <1>1, WalksOn DEF Completing, CompletingOK, Ending
    <2>3. (SavedOK(stack[p])' <=> SavedOK(stack[p])) /\ (Completing(p)' <=> Completing(p))
      BY <1>1 DEF SavedOK, Completing
    <2>4. Usable(p) = {} /\ Kind[at[p]] = "endEvent" => Ending(p)'
      BY <1>3, <1>4 DEF Ending
    <2> QED
      BY <2>1, <2>2, <2>3, <2>4
  <1>9. ControlKept'
    BY <1>1, <1>5, <1>8, ControlQuiet DEF OpenTasks
  <1> QED
    BY <1>2, <1>5, <1>6, <1>7, <1>9 DEF Kept, RequestOK

\* A walk at a join lets go of its token.
LEMMA MarkWaitingStep ==
  ASSUME IInv, NEW p \in Requests, MarkWaiting(p)
  PROVE  Kept(p)
  <1>1. TypeOK
    BY DEF IInv
  <1>2. /\ pc[p] = "leave" /\ Kind[at[p]] = "join"
        /\ pc' = [pc EXCEPT ![p] = "join"]
        /\ UNCHANGED <<instance, open, row, at, token, stack, res, terminated, uprooted, torn, faults>>
    BY DEF MarkWaiting, Goto, walk, history
  <1>3. tokens' = Moved(token[p], tokens[token[p]].born, "WAITING")
    BY DEF MarkWaiting
  <1>4. token[p] \in DOMAIN tokens \cup {NoToken}
        /\ (token[p] # NoToken => tokens[token[p]].born \in Elements)
    BY Types DEF Token
  <1>5. /\ tokens' \in Seq(Token) /\ DOMAIN tokens' = DOMAIN tokens
        /\ token[p] # NoToken => /\ tokens'[token[p]].gateway = tokens[token[p]].gateway
                                 /\ tokens'[token[p]].status \in {"WAITING", "CONSUMED"}
        /\ \A t \in DOMAIN tokens : t # token[p] => tokens'[t] = tokens[t]
    BY <1>4, <1>3, MovedTokens
  <1>6. TypeOK'
    BY <1>1, <1>2, <1>5 DEF TypeOK
  <1>7. pc'[p] = "join" /\ OwnLocals(p)
    BY <1>1, <1>2 DEF OwnLocals, TypeOK
  <1>8. (pc'[p] = "join" /\ Kind[at[p]] = "join") \/ (pc'[p] = "ended" /\ Kind[at[p]] = "endEvent")
    BY <1>2, <1>7
  <1> QED
    BY <1>2, <1>5, <1>6, <1>7, <1>8, Arrives

\* Consuming at an end event is the last use of a token.
LEMMA ConsumeStep ==
  ASSUME IInv, NEW p \in Requests, Consume(p)
  PROVE  Kept(p)
  <1>1. TypeOK
    BY DEF IInv
  <1>2. /\ pc[p] = "leave" /\ Kind[at[p]] = "endEvent"
        /\ tokens' = Marked({token[p]}, "CONSUMED")
        /\ pc' = [pc EXCEPT ![p] = "ended"]
        /\ UNCHANGED <<instance, open, row, at, token, stack, res, terminated, uprooted, torn, faults>>
    BY DEF Consume, Goto, walk, history
  <1>3. token[p] \in DOMAIN tokens \cup {NoToken}
    BY Types
  <1>4. /\ tokens' \in Seq(Token) /\ DOMAIN tokens' = DOMAIN tokens
        /\ token[p] # NoToken => /\ tokens'[token[p]].gateway = tokens[token[p]].gateway
                                 /\ tokens'[token[p]].status = "CONSUMED"
        /\ \A t \in DOMAIN tokens : t # token[p] => tokens'[t] = tokens[t]
    BY <1>1, <1>2, <1>3, MarkedTokens
  <1>5. TypeOK'
    BY <1>1, <1>2, <1>4 DEF TypeOK
  <1>6. pc'[p] = "ended" /\ OwnLocals(p)
    BY <1>1, <1>2 DEF OwnLocals, TypeOK
  <1> QED
    BY <1>2, <1>4, <1>5, <1>6, Arrives

\* The copies saved on a stack are those of its top and of the rest.
LEMMA SavedOn ==
  ASSUME NEW r, NEW s, OnTop(r, s)
  PROVE  SavedOK(r) <=> /\ r[1].call = "embedded" \/ (r[1].call = "fork" /\ r[1].res # "going") => r[1].row.status # "COMPLETED"
                        /\ SavedOK(s)
  <1> USE OnTopFacts DEF OnTop
  <1>1. ASSUME SavedOK(r), NEW i \in DOMAIN s
        PROVE  s[i].call = "embedded" \/ (s[i].call = "fork" /\ s[i].res # "going") => s[i].row.status # "COMPLETED"
    <2>1. i + 1 \in DOMAIN r /\ r[i + 1] = s[i]
      OBVIOUS
    <2> QED
      BY <1>1, <2>1 DEF SavedOK
  <1>2. ASSUME SavedOK(r)
        PROVE  r[1].call = "embedded" \/ (r[1].call = "fork" /\ r[1].res # "going") => r[1].row.status # "COMPLETED"
    BY <1>2 DEF SavedOK
  <1>3. ASSUME r[1].call = "embedded" \/ (r[1].call = "fork" /\ r[1].res # "going") => r[1].row.status # "COMPLETED",
               SavedOK(s), NEW i \in DOMAIN r
        PROVE  r[i].call = "embedded" \/ (r[i].call = "fork" /\ r[i].res # "going") => r[i].row.status # "COMPLETED"
    BY <1>3 DEF SavedOK
  <1> QED
    BY <1>1, <1>2, <1>3 DEF SavedOK

\* The walk goes on: it enters an element, or leaves one once more.
LEMMA GoesOn ==
  ASSUME IInv, NEW p \in Requests, TypeOK', Moves(p), pc'[p] \in {"enter", "leave"},
         row'[p].status # "NONE",
         StackOK(stack'[p]), RunOK(at'[p], token'[p], stack'[p]), Apart(token'[p], stack'[p]),
         StandsAt(token[p], at[p])', AllStand(tokens', stack'[p], FALSE),
         \A t \in Usable(p)' : tokens'[t].status # "CONSUMED",
         pc'[p] = "leave" => /\ at'[p] \notin Tasks
                             /\ Kind[at'[p]] = "endEvent" => row'[p].at = at'[p]
                             /\ stack'[p] # <<>> => Reached(row'[p].at, Inside(stack'[p], 1))
  PROVE  RequestOK(p)'
  <1>1. Back(p)' = FALSE
    BY DEF Back
  <1>2. WalkOK(p)'
    BY <1>1 DEF WalkOK
  <1>3. stack'[p] \in Seq(Frame)
    BY DEF TypeOK
  <1>4. (\A i \in DOMAIN stack[p] : Resumes(stack[p], i, Back(p)) => FrameStands(stack[p][i]))'
    BY <1>1, <1>3, StandsNext
  <1>5. CarryOK(p)'
    BY <1>4 DEF CarryOK
  <1> QED
    BY <1>2, <1>5 DEF RequestOK

\* followFlow moves its token along and calls runToHalt.
LEMMA FollowStep ==
  ASSUME IInv, NEW p \in Requests, Follow(p)
  PROVE  Kept(p)
  <1>1. TypeOK
    BY DEF IInv
  <1> DEFINE s == stack[p]
             t == token[p]
  <1>2. pc[p] = "leave" /\ Kind[at[p]] \in Followed /\ Walking(p)
    BY DEF Follow, Walking
  <1>3. PICK f \in Targets(at[p]) :
          /\ tokens' = Moved(t, f, "ACTIVE")
          /\ Push(p, [call |-> "followFlow", element |-> f, token |-> t, again |-> FALSE])
          /\ RunTo(p, f, t)
    BY DEF Follow
  <1>4. UNCHANGED <<instance, open, row, res, terminated, uprooted, torn, faults>>
    BY DEF Follow, history
  <1> DEFINE ff == [call |-> "followFlow", element |-> f, token |-> t, again |-> FALSE]
             r == <<ff>> \o s
  <1>5. /\ pc' = [pc EXCEPT ![p] = "enter"] /\ at' = [at EXCEPT ![p] = f]
        /\ token' = [token EXCEPT ![p] = t] /\ stack' = [stack EXCEPT ![p] = r]
    BY <1>3 DEF Push, RunTo, Goto
  <1>6. f \in Elements /\ (at[p] \in Inner <=> f \in Inner) /\ at[p] \in Elements
    BY <1>2, WalksOn, ElementKinds
  <1>7. ff \in Frame
    BY <1>6, Types DEF Frame
  <1>8. OnTop(r, s) /\ r[1] = ff
    BY <1>7, PushAt, Types
  <1>9. /\ ff.call = "followFlow" /\ ff.element = f /\ ff.token = t /\ FrameTokens(ff) = {t}
    BY DEF FrameTokens
  <1>10. /\ tokens' \in Seq(Token) /\ DOMAIN tokens' = DOMAIN tokens
         /\ t # NoToken => /\ tokens'[t].at = f /\ tokens'[t].status = "ACTIVE"
                           /\ tokens'[t].gateway = tokens[t].gateway
         /\ \A u \in DOMAIN tokens : u # t => tokens'[u] = tokens[u]
    BY <1>3, <1>6, Types, MovedTokens
  <1>11. /\ OwnTokens(p) /\ Fresh = {}
         /\ AllStand(tokens', s, FALSE)
         /\ \A u \in Resumed(s, FALSE) \ {NoToken} :
              u # t /\ tokens'[u] = tokens[u] /\ tokens[u].status # "CONSUMED"
         /\ Usable(p) = (Resumed(s, FALSE) \cup {t}) \ {NoToken}
    BY <1>2, <1>10, CarriedMoves
  <1> HIDE DEF ff, r
  <1>12. /\ pc'[p] = "enter" /\ at'[p] = f /\ token'[p] = t /\ stack'[p] = r /\ OwnLocals(p)
    BY <1>1, <1>4, <1>5 DEF OwnLocals, TypeOK
  <1>13. TypeOK'
    <2>1. r \in Seq(Frame)
      BY <1>8 DEF OnTop
    <2> QED
      BY <1>1, <1>4, <1>5, <1>6, <1>10, <2>1 DEF TypeOK
  <1>14. RunOK(at[p], t, s) /\ StackOK(s) /\ Apart(t, s)
    BY <1>2, Types, WalksOn DEF WalkOK
  <1>15. StackOK(r)
    <2>1. Reached(f, Inside(s, 1))
      BY <1>6, <1>14 DEF RunOK, Reached
    <2>2. s # <<>> => FrameOn(ff, s[1])
      BY <1>9, <1>14 DEF RunOK, RunsOn, FrameOn
    <2>3. Fits(ff, s)
      BY <1>9, <1>14, <2>1, <2>2 DEF Fits, RunOK
    <2> QED
      BY <1>8, <1>14, <2>3, StackOn
  <1>16. RunOK(f, t, r)
    <2>1. Inside(r, 1) <=> Inside(s, 1)
      BY <1>8, <1>9, InsideOn
    <2>2. Reached(f, Inside(r, 1))
      BY <1>6, <1>14, <2>1 DEF RunOK, Reached
    <2>3. Alone(r, 1, t)
      BY <1>8, <1>9, <1>14, AloneOn DEF RunOK
    <2>4. RunsOn(f, t, r[1])
      BY <1>8, <1>9 DEF RunsOn, CarriesOn
    <2> QED
      BY <1>8, <2>2, <2>3, <2>4, OnTopFacts DEF RunOK
  <1>17. Apart(t, r)
    BY <1>8, <1>9, <1>14, ApartOn
  <1>18. AllStand(tokens', r, FALSE)
    BY <1>8, <1>9, <1>11, StandOn
  <1>19. Resumed(r, FALSE) = Resumed(s, FALSE) /\ StackTokens(r) = {t} \cup StackTokens(s)
    <2>1. Resumed(r, FALSE) = Resumed(s, FALSE)
      BY <1>8, <1>9, ResumedOver
    <2>2. StackTokens(r) = {t} \cup StackTokens(s)
      BY <1>8, <1>9, StackTokensOn
    <2> QED
      BY <2>1, <2>2
  <1>20. Held(p)' = Held(p) /\ Usable(p)' = Usable(p)
    <2>1. Back(p)' = FALSE
      BY <1>12 DEF Back
    <2> QED
      BY <1>11, <1>12, <1>19, <2>1 DEF Held, Usable
  <1>21. Moves(p)
    BY <1>4, <1>11, <1>12, <1>20 DEF Moves, OwnHands, Clean
  <1>22. RequestOK(p)'
    <2>1. StandsAt(token[p], at[p])'
      BY <1>10, <1>12 DEF StandsAt
    <2>2. \A u \in Usable(p)' : tokens'[u].status # "CONSUMED"
      BY <1>10, <1>11, <1>20
    <2>3. row'[p].status # "NONE"
      BY <1>2, <1>4, WalksOn
    <2> QED
      BY <1>12, <1>13, <1>15, <1>16, <1>17, <1>18, <1>21, <2>1, <2>2, <2>3, GoesOn
  <1>23. Clean' => SavedOK(stack[p])' /\ ~Completing(p)'
    <2>1. Clean' => Clean
      BY <1>4 DEF Clean
    <2>2. Clean => SavedOK(r)
      BY <1>2, <1>8, <1>9, SavedOn, WalksOn
    <2>3. Clean => row[p].status # "COMPLETED"
      BY <1>2, WalksOn DEF CompletingOK, Ending, Followed
    <2> QED
      BY <1>4, <1>12, <2>1, <2>2, <2>3 DEF Completing
  <1>24. ControlKept'
    BY <1>2, <1>4, <1>13, <1>21, <1>23, WalksOn, ControlQuiet DEF OpenTasks
  <1> QED
    BY <1>13, <1>21, <1>22, <1>24 DEF Kept

\* terminateAll takes all live tokens and says so in the history.
LEMMA TerminateStep ==
  ASSUME IInv, NEW p \in Requests, Terminate(p)
  PROVE  Kept(p)
  <1>1. TypeOK
    BY DEF IInv
  <1> DEFINE s == stack[p]
  <1>2. /\ pc[p] = "leave" /\ Walking(p)
        /\ row' = [row EXCEPT ![p].status = "COMPLETED"]
        /\ res' = [res EXCEPT ![p] = "completed"] /\ pc' = [pc EXCEPT ![p] = "return"]
        /\ terminated' = TRUE
        /\ UNCHANGED <<instance, open, at, token, stack, uprooted, torn, faults>>
    BY DEF Terminate, Return, Goto, Walking
  <1>3. /\ tokens' \in Seq(Token) /\ DOMAIN tokens' = DOMAIN tokens
        /\ \A t \in DOMAIN tokens :
             /\ tokens'[t].gateway = tokens[t].gateway
             /\ \/ tokens'[t] = tokens[t] /\ tokens[t].status \in {"CONSUMED", "CANCELLED"}
                \/ tokens'[t].at = tokens[t].at /\ tokens[t].status # "CONSUMED" /\ tokens'[t].status = "CANCELLED"
    BY CancelledTokens DEF Terminate
  <1>4. [row[p] EXCEPT !.status = "COMPLETED"] \in Row
        /\ [row[p] EXCEPT !.status = "COMPLETED"].at = row[p].at
        /\ [row[p] EXCEPT !.status = "COMPLETED"].status = "COMPLETED"
    BY Types DEF Row
  <1>5. /\ pc'[p] = "return" /\ res'[p] = "completed" /\ OwnLocals(p)
        /\ row'[p].at = row[p].at /\ row'[p].status = "COMPLETED"
    BY <1>1, <1>2, <1>4 DEF OwnLocals, TypeOK
  <1>6. TypeOK'
    <2>1. row' \in [Requests -> Row]
      BY <1>1, <1>2, <1>4 DEF TypeOK
    <2> QED
      BY <1>1, <1>2, <1>3, <2>1 DEF TypeOK, Results
  <1>7. s \in Seq(Frame) /\ StackOK(s) /\ WalkOK(p) /\ CarryOK(p) /\ Held(p) \subseteq DOMAIN tokens \cup {NoToken}
    BY Types
  <1>8. ~Clean'
    BY <1>2 DEF Clean
  <1>9. OwnTokens(p) /\ Fresh = {}
    BY <1>3, <1>8 DEF OwnTokens, Fresh
  <1>10. (Back(p) = FALSE) /\ (Back(p)' = FALSE)
    BY <1>2, <1>5 DEF Back
  <1>11. Held(p)' = Held(p) /\ Usable(p)' \subseteq Usable(p)
    BY <1>2, <1>5, <1>10 DEF Held, Usable
  <1>12. Moves(p)
    BY <1>2, <1>5, <1>8, <1>9, <1>11 DEF Moves, OwnHands
  <1>13. WalkOK(p)'
    BY <1>2, <1>5, <1>7, <1>10 DEF WalkOK, Walking
  <1>14. \A t \in Held(p) : Placed(t)'
    BY <1>3, <1>7 DEF Placed
  <1>15. CarryOK(p)'
    <2>1. token[p] \in Held(p) /\ \A i \in DOMAIN s : FrameTokens(s[i]) \subseteq Held(p)
      BY DEF Held, StackTokens
    <2>2. Placed(token[p])'
      BY <1>2, <1>14, <2>1 DEF Placed
    <2>3. (stack[p] # <<>> /\ stack[p][1].call = "followFlow" => Placed(stack[p][1].token))'
      <3> SUFFICES ASSUME s # <<>>, s[1].call = "followFlow" PROVE Placed(stack[p][1].token)'
        BY <1>2
      <3>1. s[1].token \in Held(p)
        BY <1>7, <2>1, PopAt, OneFrame, EmptySeq, LenProperties
      <3> QED
        BY <1>2, <1>14, <3>1 DEF Placed
    <2>4. AllStand(tokens, s, FALSE)
      BY <1>7, <1>10, StandsIs DEF CarryOK
    <2>5. \A t \in Resumed(s, FALSE) \ {NoToken} : t \in DOMAIN tokens /\ tokens'[t].at = tokens[t].at
      <3>1. Resumed(s, FALSE) \subseteq Held(p)
        BY DEF Held, Resumed, StackTokens
      <3> QED
        BY <1>3, <1>7, <3>1
    <2>6. AllStand(tokens', stack'[p], Back(p)')
      BY <1>2, <1>7, <1>10, <2>4, <2>5, StandKept
    <2>7. (\A i \in DOMAIN stack[p] : Resumes(stack[p], i, Back(p)) => FrameStands(stack[p][i]))'
      BY <1>2, <1>7, <2>6, StandsNext
    <2>8. (\A t \in Usable(p) : tokens[t].status # "CONSUMED")'
      BY <1>3, <1>7, <1>11, UsableHeld DEF CarryOK
    <2> QED
      BY <1>5, <2>2, <2>3, <2>7, <2>8 DEF CarryOK
  <1>16. Going(p) /\ OpenTasks' = OpenTasks /\ pc[p] # "idle"
    BY <1>2, WalksOn DEF OpenTasks
  <1>17. ControlKept'
    BY <1>2, <1>6, <1>8, <1>12, <1>16, ControlQuiet
  <1> QED
    BY <1>2, <1>6, <1>7, <1>12, <1>13, <1>15, <1>17 DEF Kept, RequestOK

\* The walk passes an element.
LEMMA Passes ==
  ASSUME IInv, NEW p \in Requests, pc[p] = "enter", at[p] \notin Tasks,
         row' = [row EXCEPT ![p].at = at[p]], Goto(p, "leave"),
         UNCHANGED <<instance, open, tokens, at, token, stack, res, terminated, uprooted, torn, faults>>
  PROVE  Kept(p)
  <1>1. TypeOK /\ Walking(p)
    BY DEF IInv, Walking
  <1>2. at[p] \in Elements
    BY <1>1, WalksOn
  <1>3. [row[p] EXCEPT !.at = at[p]] \in Row
        /\ [row[p] EXCEPT !.at = at[p]].at = at[p]
        /\ [row[p] EXCEPT !.at = at[p]].status = row[p].status
    BY <1>2, Types DEF Row
  <1>4. /\ pc'[p] = "leave" /\ OwnLocals(p)
        /\ row'[p].at = at[p] /\ row'[p].status = row[p].status
    BY <1>1, <1>3 DEF OwnLocals, TypeOK, Goto
  <1>5. TypeOK'
    <2>1. row' \in [Requests -> Row]
      BY <1>1, <1>3 DEF TypeOK
    <2> QED
      BY <1>1, <2>1 DEF TypeOK, Goto
  <1>6. (Back(p) = FALSE) /\ (Back(p)' = FALSE)
    BY <1>4 DEF Back
  <1>7. Held(p)' = Held(p) /\ Usable(p)' = Usable(p)
    BY <1>4, <1>6 DEF Held, Usable
  <1>8. Moves(p)
    BY <1>4, <1>7, TokensStay
  <1>9. RequestOK(p)'
    <2>1. /\ stack[p] \in Seq(Frame) /\ StackOK(stack[p]) /\ WalkOK(p) /\ CarryOK(p)
      BY Types
    <2>2. RunOK(at[p], token[p], stack[p]) /\ row[p].status # "NONE" /\ StandsAt(token[p], at[p])
      BY <1>1, WalksOn
    <2>3. StandsAt(token[p], at[p])'
      BY <2>2 DEF StandsAt
    <2>4. AllStand(tokens', stack'[p], FALSE)
      BY <1>6, <2>1, StandsIs DEF CarryOK
    <2>5. \A t \in Usable(p)' : tokens'[t].status # "CONSUMED"
      BY <1>7, <2>1 DEF CarryOK
    <2>6. Apart(token'[p], stack'[p])
      BY <2>1 DEF WalkOK
    <2>7. Reached(row'[p].at, Inside(stack'[p], 1))
      BY <1>4, <2>2 DEF RunOK
    <2> QED
      BY <1>4, <1>5, <1>8, <2>1, <2>2, <2>3, <2>4, <2>5, <2>6, <2>7, GoesOn
  <1>10. Clean' => SavedOK(stack[p])' /\ (Completing(p)' => Completing(p) /\ Ending(p)')
    <2>1. Clean' => Clean /\ SavedOK(stack[p])
      BY <1>1, WalksOn DEF Clean
    <2>2. Completing(p)' <=> Completing(p)
      BY <1>4 DEF Completing
    <2>3. Clean /\ Completing(p) => Ending(p)
      BY <1>1, WalksOn DEF Completing, CompletingOK
    <2>4. Ending(p) => Ending(p)'
      BY <1>4, <1>7 DEF Ending
    <2> QED
      BY <2>1, <2>2, <2>3, <2>4
  <1>11. ControlKept'
    BY <1>1, <1>5, <1>8, <1>10, WalksOn, ControlQuiet DEF OpenTasks
  <1> QED
    BY <1>5, <1>8, <1>9, <1>11 DEF Kept

\* What halts the walk as it is entered: a sub-process or a task
LEMMA HaltsAt ==
  ASSUME IInv, NEW p \in Requests, pc[p] = "enter",
         row' = [row EXCEPT ![p].at = at[p]],
         NEW r \in Results \ {"going", "completed"}, Return(p, r),
         open' \in [Tasks -> {"none", "open", "done"}],
         \A e \in Tasks : open[e] # "none" => open'[e] # "none",
         Kind[at[p]] = "subProcess" \/ (at[p] \in Tasks /\ open'[at[p]] # "none"),
         UNCHANGED <<instance, tokens, at, token, stack, terminated, uprooted, torn, faults>>
  PROVE  /\ TypeOK' /\ Moves(p) /\ RequestOK(p)'
         /\ Usable(p)' = Resumed(stack[p], FALSE) \ {NoToken}
         /\ Clean' => SavedOK(stack[p])' /\ ~Completing(p)'
         /\ pc'[p] = "return" /\ res'[p] = r
  <1>1. TypeOK /\ Walking(p) /\ at[p] \in Elements
    BY WalksOn DEF IInv, Walking
  <1>2. [row[p] EXCEPT !.at = at[p]] \in Row
        /\ [row[p] EXCEPT !.at = at[p]].at = at[p]
        /\ [row[p] EXCEPT !.at = at[p]].status = row[p].status
    BY <1>1, Types DEF Row
  <1>3. /\ pc'[p] = "return" /\ res'[p] = r /\ OwnLocals(p)
        /\ row'[p].at = at[p] /\ row'[p].status = row[p].status
    BY <1>1, <1>2 DEF OwnLocals, TypeOK, Return, Goto
  <1>4. TypeOK'
    <2>1. row' \in [Requests -> Row]
      BY <1>1, <1>2 DEF TypeOK
    <2> QED
      BY <1>1, <2>1 DEF TypeOK, Return, Goto
  <1>5. Placed(token[p])'
    <2>1. StandsAt(token[p], at[p])
      BY <1>1, WalksOn
    <2> QED
      BY <2>1 DEF StandsAt, Placed
  <1>6. Reached(row'[p].at, Inside(stack[p], 1)) /\ row'[p].status # "NONE"
    BY <1>1, <1>3, WalksOn
  <1>7. /\ Moves(p) /\ RequestOK(p)'
        /\ Usable(p)' = Resumed(stack[p], FALSE) \ {NoToken}
    BY <1>1, <1>3, <1>4, <1>5, <1>6, Halts
  <1>8. Clean' => SavedOK(stack[p])' /\ ~Completing(p)'
    <2>1. Clean' => Clean /\ SavedOK(stack[p])
      BY <1>1, WalksOn DEF Clean
    <2>2. Kind[at[p]] # "endEvent"
      BY DEF Tasks
    <2>3. Clean => row[p].status # "COMPLETED"
      BY <1>1, <2>2, WalksOn DEF CompletingOK, Ending
    <2> QED
      BY <1>3, <2>1, <2>3 DEF Completing
  <1> QED
    BY <1>3, <1>4, <1>7, <1>8

\* A task is entered: the walk waits for it, and with a token the token does.
LEMMA EnterTaskStep ==
  ASSUME IInv, NEW p \in Requests, pc[p] = "enter", at[p] \in Tasks,
         open' = [open EXCEPT ![at[p]] = IF @ = "none" THEN "open" ELSE @],
         row' = [row EXCEPT ![p].at = at[p]], Return(p, Kind[at[p]]),
         UNCHANGED <<instance, tokens, at, token, stack, terminated, uprooted, torn, faults>>
  PROVE  Kept(p)
  <1> DEFINE e == at[p]
             s == stack[p]
  <1>1. TypeOK /\ Walking(p)
    BY DEF IInv, Walking
  <1>2. Kind[e] \in Results \ {"going", "completed"}
    BY DEF Tasks, Results
  <1>3. /\ open' \in [Tasks -> {"none", "open", "done"}] /\ open'[e] # "none"
        /\ \A d \in Tasks : open[d] # "none" => open'[d] # "none"
        /\ OpenTasks' \subseteq OpenTasks \cup {e}
        /\ e \in Inner \/ open[e] # "none" => OpenTasks' \subseteq OpenTasks
    BY <1>1 DEF TypeOK, OpenTasks
  <1>4. /\ TypeOK' /\ Moves(p) /\ RequestOK(p)'
        /\ Usable(p)' = Resumed(s, FALSE) \ {NoToken}
        /\ Clean' => SavedOK(stack[p])' /\ ~Completing(p)'
        /\ pc'[p] = "return" /\ res'[p] = Kind[e]
    BY <1>2, <1>3, HaltsAt
  <1>5. CASE e \in Inner
    <2>1. ControlKept'
      BY <1>1, <1>3, <1>4, <1>5, WalksOn, ControlQuiet
    <2> QED
      BY <1>4, <2>1 DEF Kept
  <1>6. CASE e \notin Inner
    <2>1. instance'.status # "NONE"
      BY <1>1, WalksOn DEF IInv, ControlKept
    <2> SUFFICES ASSUME Clean' PROVE
           /\ Uncancelled'
           /\ Stuck' \/ OneControl'
           /\ \A q \in Requests : SavedOK(stack[q])' /\ ~Completing(q)'
           /\ instance'.status # "COMPLETED"
      BY <1>4, <2>1 DEF ControlKept, Uncancelled, Kept
    <2>2. /\ Clean /\ Uncancelled' /\ (Stuck => Stuck') /\ (Stuck \/ OneControl) /\ Uncancelled
          /\ \A q \in Requests : SavedOK(stack[q]) /\ (Completing(q) => CompletingOK(q))
          /\ instance.status # "COMPLETED" /\ Going(p)
      BY <1>1, <1>4, WalksOn, StuckStays DEF IInv, ControlKept, Uncancelled
    <2>3. \A q \in Requests : SavedOK(stack[q])' /\ ~Completing(q)'
      BY <1>4, <2>2, OtherRequests DEF CompletingOK
    <2>4. CASE token[p] = NoToken
      <3>1. ASSUME NEW i \in DOMAIN s PROVE s[i].call = "followFlow"
        <4>1. ~Inside(s, 1) /\ Alone(s, 1, NoToken)
          BY <1>1, <1>6, <2>4, WalksOn DEF RunOK, Reached
        <4>2. s \in Seq(Frame)
          BY Types
        <4>3. i >= 1 /\ s[i] \in Frame
          BY <4>2, ElementOfSeq, LenProperties
        <4> QED
          BY <4>1, <4>3, FrameIs DEF Alone, Inside
      <3>2. ~Going(p)'
        BY <1>2, <1>4, <3>1 DEF Going, Walking
      <3>3. OneControl => OneControl'
        <4>1. OneControl => OpenTasks = {} /\ \A q \in Requests \ {p} : ~Going(q)'
          BY <1>4, <2>2, OtherRequests DEF OneControl
        <4> QED
          BY <1>3, <3>2, <4>1 DEF OneControl
      <3> QED
        BY <2>2, <2>3, <3>3
    <2>5. CASE token[p] # NoToken
      <3> DEFINE t == token[p]
      <3>1. t \in Usable(p) /\ t \in DOMAIN tokens /\ tokens[t] \in Token
        BY <1>1, <2>5, WalksOn, Types
      <3>2. tokens[t].status \notin {"CONSUMED", "CANCELLED"}
        BY <2>2, <3>1, Types DEF CarryOK, Uncancelled
      <3>3. t \in Live'
        BY <3>1, <3>2 DEF Live, Token
      <3>4. t \notin Resumed(s, FALSE)
        BY <2>5, Types, ResumedApart DEF WalkOK
      <3>5. ASSUME NEW q \in Requests \ {p} PROVE t \notin Usable(q)'
        <4>1. t \in Held(p)
          BY DEF Held
        <4>2. t \notin Held(q)
          BY <2>5, <4>1 DEF IInv, TokensApart
        <4> QED
          BY <1>4, <4>2, OtherRequests, UsableHeld
      <3>6. \A q \in Requests : t \notin Usable(q)'
        BY <1>4, <3>4, <3>5
      <3>7. Stuck'
        BY <3>3, <3>6 DEF Stuck
      <3> QED
        BY <2>2, <2>3, <3>7
    <2> QED
      BY <2>4, <2>5
  <1> QED
    BY <1>5, <1>6

\* A sub-process by definition id halts the walk.
LEMMA EnterSubProcessStep ==
  ASSUME IInv, NEW p \in Requests, pc[p] = "enter", Kind[at[p]] = "subProcess",
         row' = [row EXCEPT ![p].at = at[p]], Return(p, "subProcess"),
         UNCHANGED <<instance, open, tokens, at, token, stack, terminated, uprooted, torn, faults>>
  PROVE  Kept(p)
  <1>1. TypeOK /\ Walking(p)
    BY DEF IInv, Walking
  <1>2. open' \in [Tasks -> {"none", "open", "done"}] /\ OpenTasks' = OpenTasks
        /\ "subProcess" \in Results \ {"going", "completed"}
    BY <1>1 DEF TypeOK, OpenTasks, Results
  <1>3. /\ TypeOK' /\ Moves(p) /\ RequestOK(p)'
        /\ Clean' => SavedOK(stack[p])' /\ ~Completing(p)'
    BY <1>2, HaltsAt
  <1>4. ControlKept'
    BY <1>1, <1>2, <1>3, WalksOn, ControlQuiet
  <1> QED
    BY <1>3, <1>4 DEF Kept

\* An embedded sub-process is entered: its walk starts on a frame that keeps
\* the token and the instance.
LEMMA EnterEmbeddedStep ==
  ASSUME IInv, NEW p \in Requests, pc[p] = "enter", Kind[at[p]] = "embedded",
         row' = [row EXCEPT ![p].at = at[p]],
         Push(p, [call |-> "embedded", element |-> at[p], token |-> token[p], row |-> row'[p]]),
         RunTo(p, Body[at[p]], NoToken),
         UNCHANGED <<instance, open, tokens, res, terminated, uprooted, torn, faults>>
  PROVE  Kept(p)
  <1> DEFINE s == stack[p]
             e == at[p]
             b == Body[at[p]]
             f == [call |-> "embedded", element |-> at[p], token |-> token[p], row |-> row'[p]]
             r == <<f>> \o s
  <1>1. TypeOK /\ Walking(p) /\ (Back(p) = FALSE)
    BY DEF IInv, Walking, Back
  <1>2. /\ RunOK(e, token[p], s) /\ Reached(e, Inside(s, 1)) /\ e \in Elements
        /\ row[p].status # "NONE" /\ StandsAt(token[p], e)
    BY <1>1, WalksOn
  <1>3. /\ s \in Seq(Frame) /\ StackOK(s) /\ WalkOK(p) /\ CarryOK(p)
        /\ token[p] \in DOMAIN tokens \cup {NoToken} /\ token[p] \in Nat
    BY Types
  <1>4. b \in Elements /\ b \in Inner /\ Kind[b] = "startEvent"
    BY <1>2, ElementKinds
  <1>5. [row[p] EXCEPT !.at = e] \in Row
        /\ [row[p] EXCEPT !.at = e].at = e
        /\ [row[p] EXCEPT !.at = e].status = row[p].status
    BY <1>2, Types DEF Row
  <1>6. row'[p] \in Row /\ row'[p].at = e /\ row'[p].status = row[p].status
    BY <1>1, <1>5 DEF TypeOK
  <1>7. f \in Frame
    BY <1>2, <1>3, <1>6 DEF Frame
  <1>8. OnTop(r, s) /\ r[1] = f
    BY <1>3, <1>7, PushAt
  <1>9. /\ f.call = "embedded" /\ f.element = e /\ f.token = token[p] /\ f.row = row'[p]
        /\ FrameTokens(f) = {token[p]}
    BY DEF FrameTokens
  <1>10. /\ pc' = [pc EXCEPT ![p] = "enter"] /\ at' = [at EXCEPT ![p] = b]
         /\ token' = [token EXCEPT ![p] = NoToken] /\ stack' = [stack EXCEPT ![p] = r]
    BY DEF Push, RunTo, Goto
  <1> HIDE DEF f, r, b
  <1>11. /\ pc'[p] = "enter" /\ at'[p] = b /\ token'[p] = NoToken /\ stack'[p] = r /\ OwnLocals(p)
    BY <1>1, <1>10 DEF OwnLocals, TypeOK
  <1>12. TypeOK'
    <2>1. r \in Seq(Frame)
      BY <1>8 DEF OnTop
    <2>2. row' \in [Requests -> Row]
      BY <1>1, <1>5 DEF TypeOK
    <2> QED
      BY <1>1, <1>4, <1>10, <2>1, <2>2 DEF TypeOK
  <1>13. StackOK(r)
    <2>1. s # <<>> => FrameOn(f, s[1])
      BY <1>2, <1>9 DEF RunOK, FrameOn
    <2>2. Apart(token[p], s)
      BY <1>3 DEF WalkOK
    <2>3. Fits(f, s)
      BY <1>2, <1>6, <1>9, <2>1, <2>2 DEF Fits, RunOK
    <2> QED
      BY <1>3, <1>8, <2>3, StackOn
  <1>14. RunOK(b, NoToken, r)
    <2>1. Inside(r, 1)
      BY <1>8, <1>9, InsideOn
    <2>2. Reached(b, Inside(r, 1))
      BY <1>4, <2>1 DEF Reached
    <2>3. Alone(r, 1, NoToken)
      BY <1>8, <1>9, AloneOn
    <2>4. RunsOn(b, NoToken, r[1])
      BY <1>8, <1>9 DEF RunsOn, CarriesOn
    <2> QED
      BY <1>8, <2>2, <2>3, <2>4, OnTopFacts DEF RunOK
  <1>15. Apart(NoToken, r)
    BY DEF Apart
  <1>16. AllStand(tokens', r, FALSE)
    <2>1. AllStand(tokens, s, FALSE)
      BY <1>1, <1>3, StandsIs DEF CarryOK
    <2>2. StandsIn(tokens, f)
      BY <1>2, <1>9 DEF StandsIn, StandsAt
    <2>3. (f.call = "fork") = FALSE
      BY <1>9
    <2>4. AllStand(tokens, r, FALSE)
      BY <1>8, <2>1, <2>2, <2>3, StandOn
    <2> QED
      BY <2>4
  <1>17. Resumed(r, FALSE) = {token[p]} \cup Resumed(s, FALSE) /\ StackTokens(r) = {token[p]} \cup StackTokens(s)
    <2>1. Resumed(r, FALSE) = {token[p]} \cup Resumed(s, FALSE)
      BY <1>8, <1>9, ResumedOver
    <2>2. StackTokens(r) = {token[p]} \cup StackTokens(s)
      BY <1>8, <1>9, StackTokensOn
    <2> QED
      BY <2>1, <2>2
  <1>18. Held(p)' = Held(p) \cup {NoToken} /\ Usable(p)' = Usable(p)
    <2>1. Back(p)' = FALSE
      BY <1>11 DEF Back
    <2>2. Held(p)' = Held(p) \cup {NoToken}
      BY <1>11, <1>17 DEF Held
    <2>3. Usable(p)' = Usable(p)
      BY <1>1, <1>11, <1>17, <2>1 DEF Usable
    <2> QED
      BY <2>2, <2>3
  <1>19. Moves(p)
    BY <1>11, <1>18, TokensStay
  <1>20. RequestOK(p)'
    <2>1. StandsAt(token[p], at[p])'
      BY <1>11 DEF StandsAt
    <2>2. \A u \in Usable(p)' : tokens'[u].status # "CONSUMED"
      BY <1>3, <1>18 DEF CarryOK
    <2> QED
      BY <1>2, <1>6, <1>11, <1>12, <1>13, <1>14, <1>15, <1>16, <1>19, <2>1, <2>2, GoesOn
  <1>21. Clean' => SavedOK(stack[p])' /\ ~Completing(p)'
    <2>1. Clean' => Clean
      BY DEF Clean
    <2>2. Clean => row[p].status # "COMPLETED" /\ SavedOK(s)
      BY <1>1, WalksOn DEF CompletingOK, Ending
    <2>3. Clean => SavedOK(r)
      BY <1>6, <1>8, <1>9, <2>2, SavedOn
    <2> QED
      BY <1>6, <1>11, <2>1, <2>2, <2>3 DEF Completing
  <1>22. ControlKept'
    BY <1>1, <1>12, <1>19, <1>21, WalksOn, ControlQuiet DEF OpenTasks
  <1> QED
    BY <1>12, <1>19, <1>20, <1>22 DEF Kept

\* enterElement, by the kind of the element.
LEMMA EnterStep ==
  ASSUME IInv, NEW p \in Requests, Enter(p)
  PROVE  Kept(p)
  <1> DEFINE e == at[p]
  <1>1. /\ pc[p] = "enter"
        /\ UNCHANGED <<instance, tokens, terminated, uprooted, faults>>
    BY DEF Enter
  <1>2. CASE /\ Kind[e] \in Passed \/ (Kind[e] = "subProcess" /\ row[p].status # "RUNNING")
             /\ row' = [row EXCEPT ![p].at = e]
             /\ Goto(p, "leave")
             /\ UNCHANGED <<open, at, token, stack, res, torn>>
    <2>1. e \notin Tasks
      BY <1>2 DEF Tasks, Passed
    <2> QED
      BY <1>1, <1>2, <2>1, Passes
  <1>3. CASE /\ e \in Tasks
             /\ open' = [open EXCEPT ![e] = IF @ = "none" THEN "open" ELSE @]
             /\ row' = [row EXCEPT ![p].at = e]
             /\ Return(p, Kind[e])
             /\ UNCHANGED <<at, token, stack, torn>>
    BY <1>1, <1>3, EnterTaskStep
  <1>4. CASE /\ Throw(p)
             /\ UNCHANGED open
    <2>1. faults' \in 0 .. MaxFaults /\ open' \in [Tasks -> {"none", "open", "done"}] /\ OpenTasks' = OpenTasks
      BY <1>1, <1>4 DEF IInv, TypeOK, OpenTasks
    <2> QED
      BY <1>1, <1>4, <2>1, Throws
  <1>5. CASE /\ Kind[e] = "subProcess"
             /\ row' = [row EXCEPT ![p].at = e]
             /\ Return(p, "subProcess")
             /\ UNCHANGED <<open, at, token, stack, torn>>
    BY <1>1, <1>5, EnterSubProcessStep
  <1>6. CASE /\ Kind[e] = "embedded"
             /\ row' = [row EXCEPT ![p].at = e]
             /\ Push(p, [call |-> "embedded", element |-> e, token |-> token[p], row |-> [row EXCEPT ![p].at = e][p]])
             /\ RunTo(p, Body[e], NoToken)
             /\ UNCHANGED <<open, res, torn>>
    BY <1>1, <1>6, EnterEmbeddedStep
  <1> QED
    BY <1>2, <1>3, <1>4, <1>5, <1>6 DEF Enter

-----------------------------------------------------------------------------
(* Results that come back *)

\* What goes on when a call returns with a result that lets it
ResumedAll(s) == Resumed(s, TRUE)
StandAll(tk, s) == AllStand(tk, s, TRUE)

\* What resumes, resumes after a fork.
LEMMA ResumedLess ==
  ASSUME NEW s, NEW back \in BOOLEAN
  PROVE  Resumed(s, back) \subseteq ResumedAll(s)
  BY DEF Resumed, Resumes, ResumedAll

\* What resumes below a fork ...
LEMMA ResumedFork ==
  ASSUME NEW r, NEW s, OnTop(r, s), r[1].call = "fork", NEW back \in BOOLEAN
  PROVE  Resumed(r, back) = FrameTokens(r[1]) \cup ResumedAll(s)
  <1> DEFINE first == {t \in FrameTokens(r[1]) : r[1].call # "followFlow" \/ back}
             fork == r[1].call = "fork"
  <1>1. Resumed(r, back) = first \cup Resumed(s, fork)
    BY ResumedOn
  <1>2. first = FrameTokens(r[1]) /\ (fork = TRUE)
    OBVIOUS
  <1> HIDE DEF first, fork
  <1>3. Resumed(s, fork) = Resumed(s, TRUE)
    BY <1>2
  <1> QED
    BY <1>1, <1>2, <1>3 DEF ResumedAll

\* ... below a followFlow whose result came back ...
LEMMA ResumedFlow ==
  ASSUME NEW r, NEW s, OnTop(r, s), r[1].call = "followFlow", NEW back \in BOOLEAN, back = TRUE
  PROVE  Resumed(r, back) = FrameTokens(r[1]) \cup Resumed(s, FALSE)
  <1> DEFINE first == {t \in FrameTokens(r[1]) : r[1].call # "followFlow" \/ back}
             fork == r[1].call = "fork"
  <1>1. Resumed(r, back) = first \cup Resumed(s, fork)
    BY ResumedOn
  <1>2. first = FrameTokens(r[1]) /\ (fork = FALSE)
    OBVIOUS
  <1> HIDE DEF first, fork
  <1> QED
    BY <1>1, <1>2

\* ... and below an embedded definition.
LEMMA ResumedEmbedded ==
  ASSUME NEW r, NEW s, OnTop(r, s), r[1].call = "embedded", NEW back \in BOOLEAN
  PROVE  Resumed(r, back) = FrameTokens(r[1]) \cup Resumed(s, FALSE)
  <1> DEFINE first == {t \in FrameTokens(r[1]) : r[1].call # "followFlow" \/ back}
             fork == r[1].call = "fork"
  <1>1. Resumed(r, back) = first \cup Resumed(s, fork)
    BY ResumedOn
  <1>2. first = FrameTokens(r[1]) /\ (fork = FALSE)
    OBVIOUS
  <1> HIDE DEF first, fork
  <1> QED
    BY <1>1, <1>2

\* All that resumes below a fork stands.
LEMMA StandBack ==
  ASSUME NEW r, NEW s, OnTop(r, s), r[1].call = "fork", NEW back \in BOOLEAN, NEW tk
  PROVE  AllStand(tk, r, back) <=> StandsIn(tk, r[1]) /\ StandAll(tk, s)
  <1> DEFINE fork == r[1].call = "fork"
  <1>1. AllStand(tk, r, back) <=> /\ r[1].call # "followFlow" \/ back => StandsIn(tk, r[1])
                                  /\ AllStand(tk, s, fork)
    BY StandOn
  <1>2. fork = TRUE
    OBVIOUS
  <1> HIDE DEF fork
  <1>3. AllStand(tk, s, fork) <=> StandAll(tk, s)
    <2>1. AllStand(tk, s, fork) = AllStand(tk, s, TRUE)
      BY <1>2
    <2> QED
      BY <2>1 DEF StandAll
  <1> QED
    BY <1>1, <1>3

\* What stands after a fork, stands.
LEMMA StandAllLess ==
  ASSUME NEW s, NEW tk, NEW back \in BOOLEAN, StandAll(tk, s)
  PROVE  AllStand(tk, s, back)
  BY DEF StandAll, AllStand, Resumes

\* A request to which a call returned: its stack, the first frame of it, the rest
LEMMA Returns ==
  ASSUME IInv, NEW p \in Requests, pc[p] = "return", stack[p] # <<>>
  PROVE  LET s == stack[p]
             r == Tail(stack[p])
             f == s[1]
         IN
         /\ s \in Seq(Frame) /\ r \in Seq(Frame) /\ OnTop(s, r) /\ f \in Frame /\ Top(p) = f
         /\ StackOK(r) /\ Fits(f, r) /\ StackOK(s)
         /\ Held(p) = {token[p]} \cup FrameTokens(f) \cup StackTokens(r)
         /\ Usable(p) = Resumed(s, Back(p)) \ {NoToken}
         /\ \A t \in Usable(p) : tokens[t].status # "CONSUMED"
         /\ Placed(token[p]) /\ (f.call = "followFlow" => Placed(f.token))
         /\ row[p].status # "NONE" /\ Reached(row[p].at, Inside(s, 1)) /\ row[p].at \in Elements
         /\ Apart(token[p], s)
         /\ AllStand(tokens, s, Back(p))
         /\ Back(p) \in BOOLEAN /\ (Back(p) = (res[p] = "going"))
         /\ Clean => SavedOK(s) /\ SavedOK(r)
         /\ Clean /\ row[p].status = "COMPLETED" =>
              Usable(p) = {} /\ Kind[row[p].at] = "endEvent" /\ res[p] \in {"going", "completed"}
  <1> DEFINE s == stack[p]
             r == Tail(stack[p])
             f == s[1]
  <1>1. s \in Seq(Frame) /\ StackOK(s) /\ WalkOK(p) /\ CarryOK(p)
    BY Types
  <1>2. r \in Seq(Frame) /\ OnTop(s, r) /\ f \in Frame /\ Top(p) = f
    BY <1>1, PopAt DEF OnTop, Top
  <1>3. StackOK(r) /\ Fits(f, r)
    BY <1>1, <1>2, StackOn
  <1>4. Held(p) = {token[p]} \cup FrameTokens(f) \cup StackTokens(r)
    BY <1>2, StackTokensOn DEF Held
  <1>5. Usable(p) = Resumed(s, Back(p)) \ {NoToken} /\ \A t \in Usable(p) : tokens[t].status # "CONSUMED"
    BY <1>1 DEF Usable, CarryOK
  <1>6. /\ Placed(token[p]) /\ (f.call = "followFlow" => Placed(f.token))
        /\ row[p].status # "NONE" /\ Reached(row[p].at, Inside(s, 1)) /\ Apart(token[p], s)
    BY <1>1 DEF WalkOK, CarryOK
  <1>7. AllStand(tokens, s, Back(p))
    BY <1>1, StandsIs DEF CarryOK
  <1>8. Clean => SavedOK(s) /\ SavedOK(r)
    BY <1>2, SavedOn DEF IInv, ControlKept
  <1>9. Clean /\ row[p].status = "COMPLETED" =>
          Usable(p) = {} /\ Kind[row[p].at] = "endEvent" /\ res[p] \in {"going", "completed"}
    BY DEF IInv, ControlKept, Completing, CompletingOK, Ending
  <1>10. Back(p) \in BOOLEAN /\ (Back(p) = (res[p] = "going")) /\ row[p].at \in Elements
    BY <1>6 DEF Back, Reached
  <1> QED
    BY <1>1, <1>2, <1>3, <1>4, <1>5, <1>6, <1>7, <1>8, <1>9, <1>10

\* followFlow returns a halt as it is, and a completed instance as one.
LEMMA ReturnHaltStep ==
  ASSUME IInv, NEW p \in Requests, ReturnHalt(p)
  PROVE  Kept(p)
  <1> DEFINE s == stack[p]
             r == Tail(stack[p])
             f == s[1]
  <1>1. TypeOK
    BY DEF IInv
  <1>2. /\ pc[p] = "return" /\ s # <<>> /\ Top(p).call = "followFlow"
        /\ stack' = [stack EXCEPT ![p] = r]
        /\ res' = [res EXCEPT ![p] = IF @ = "going" THEN "completed" ELSE @]
        /\ UNCHANGED <<instance, open, tokens, pc, row, at, token, terminated, uprooted, torn, faults>>
    BY DEF ReturnHalt, Pop, history
  <1>3. /\ s \in Seq(Frame) /\ r \in Seq(Frame) /\ OnTop(s, r) /\ f.call = "followFlow"
        /\ StackOK(r) /\ Fits(f, r)
        /\ Held(p) = {token[p]} \cup FrameTokens(f) \cup StackTokens(r)
        /\ Usable(p) = Resumed(s, Back(p)) \ {NoToken}
        /\ \A t \in Usable(p) : tokens[t].status # "CONSUMED"
        /\ Placed(token[p]) /\ Placed(f.token)
        /\ row[p].status # "NONE" /\ Reached(row[p].at, Inside(s, 1))
        /\ Apart(token[p], s)
        /\ AllStand(tokens, s, Back(p)) /\ Back(p) \in BOOLEAN
        /\ Clean => SavedOK(r)
        /\ Clean /\ row[p].status = "COMPLETED" =>
             Usable(p) = {} /\ Kind[row[p].at] = "endEvent" /\ res[p] \in {"going", "completed"}
    BY <1>2, Returns
  <1> HIDE DEF r, f
  <1>4. /\ pc'[p] = "return" /\ stack'[p] = r /\ OwnLocals(p)
        /\ res'[p] # "going" /\ (res[p] # "going" => res'[p] = res[p]) /\ (res[p] = "going" => res'[p] = "completed")
    BY <1>1, <1>2 DEF OwnLocals, TypeOK
  <1>5. TypeOK'
    BY <1>1, <1>2, <1>3 DEF TypeOK, Results
  <1>6. Back(p)' = FALSE
    BY <1>4 DEF Back
  <1>7. Usable(p)' = Resumed(r, FALSE) \ {NoToken} /\ Usable(p)' \subseteq Usable(p)
    <2>1. Resumed(s, FALSE) \subseteq Resumed(s, Back(p))
      BY <1>3, ResumedGrows
    <2>2. Resumed(s, FALSE) = Resumed(r, FALSE)
      BY <1>3, ResumedOver DEF f
    <2>3. Usable(p)' = Resumed(r, FALSE) \ {NoToken}
      BY <1>4, <1>6 DEF Usable
    <2> QED
      BY <1>3, <2>1, <2>2, <2>3
  <1>8. Held(p)' = {token[p]} \cup StackTokens(r) /\ FrameTokens(f) = {f.token}
    BY <1>2, <1>3, <1>4 DEF Held, FrameTokens
  <1>9. Moves(p)
    <2>1. \A t : Placed(t) => Placed(t)'
      BY <1>2 DEF Placed
    <2> QED
      BY <1>2, <1>3, <1>4, <1>7, <1>8, <2>1, TokensStay
  <1>10. WalkOK(p)'
    <2>1. Reached(row[p].at, Inside(r, 1))
      BY <1>3, InsideOn DEF f, Reached
    <2>2. Apart(token[p], r)
      BY <1>3, ApartOn DEF f
    <2> QED
      BY <1>2, <1>3, <1>4, <1>6, <2>1, <2>2 DEF WalkOK, Walking
  <1>11. CarryOK(p)'
    <2>1. r # <<>> /\ r[1].call = "followFlow" => r[1].token = f.token
      BY <1>3 DEF Fits, FrameOn, CarriesOn
    <2>2. (stack[p] # <<>> /\ stack[p][1].call = "followFlow" => Placed(stack[p][1].token))'
      BY <1>2, <1>3, <1>4, <2>1 DEF Placed
    <2>3. (f.call = "fork") = FALSE
      BY <1>3
    <2>4. AllStand(tokens, r, FALSE)
      BY <1>3, <2>3, StandOn DEF f
    <2>5. AllStand(tokens', stack'[p], Back(p)')
      BY <1>2, <1>4, <1>6, <2>4
    <2>6. (\A i \in DOMAIN stack[p] : Resumes(stack[p], i, Back(p)) => FrameStands(stack[p][i]))'
      BY <1>3, <1>4, <2>5, StandsNext
    <2>7. (\A t \in Usable(p) : tokens[t].status # "CONSUMED")'
      BY <1>2, <1>3, <1>7
    <2>8. Placed(token[p])'
      BY <1>2, <1>3 DEF Placed
    <2> QED
      BY <1>4, <2>2, <2>6, <2>7, <2>8 DEF CarryOK
  <1>12. RequestOK(p)'
    BY <1>3, <1>4, <1>10, <1>11 DEF RequestOK
  <1>13. Going(p)' => Going(p)
    <2>1. ASSUME NEW i \in DOMAIN r, r[i].call # "followFlow" PROVE Going(p)
      <3>1. i + 1 \in DOMAIN s /\ s[i + 1] = r[i]
        BY <1>3 DEF OnTop
      <3> QED
        BY <1>2, <2>1, <3>1 DEF Going
    <2>2. res'[p] \in {"going", "completed"} => res[p] \in {"going", "completed"}
      BY <1>4
    <2> QED
      BY <1>2, <1>4, <2>1, <2>2 DEF Going, Walking
  <1>14. Clean' => SavedOK(stack[p])' /\ (Completing(p)' => Completing(p) /\ Ending(p)')
    <2>1. Clean' => Clean
      BY <1>2 DEF Clean
    <2>2. Completing(p)' <=> Completing(p)
      BY <1>2 DEF Completing
    <2>3. Clean /\ Completing(p) => Ending(p)'
      BY <1>2, <1>3, <1>4, <1>7 DEF Completing, Ending
    <2> QED
      BY <1>3, <1>4, <2>1, <2>2, <2>3
  <1>15. ControlKept'
    BY <1>2, <1>5, <1>9, <1>13, <1>14, ControlQuiet DEF OpenTasks
  <1> QED
    BY <1>5, <1>9, <1>12, <1>15 DEF Kept

\* followFlow goes on with a result that lets it, at the element of frame g.
LEMMA FlowGoesOn ==
  ASSUME IInv, NEW p \in Requests, pc[p] = "return", stack[p] # <<>>, Top(p).call = "followFlow", res[p] = "going",
         NEW g \in Frame, g.call = "followFlow", g.token = Top(p).token,
         Reached(g.element, Inside(Tail(stack[p]), 1)),
         stack' = [stack EXCEPT ![p] = <<g>> \o Tail(@)],
         at' = [at EXCEPT ![p] = g.element], token' = [token EXCEPT ![p] = g.token],
         NEW l \in {"enter", "leave"}, pc' = [pc EXCEPT ![p] = l],
         l = "leave" => Kind[g.element] \in Forks /\ row[p].status # "COMPLETED",
         l = "enter" => g.element = row[p].at,
         UNCHANGED <<instance, open, tokens, row, res, terminated, uprooted, torn, faults>>
  PROVE  Kept(p)
  <1> DEFINE s == stack[p]
             r == Tail(stack[p])
             f == s[1]
             n == <<g>> \o r
  <1>1. TypeOK
    BY DEF IInv
  <1>2. /\ s \in Seq(Frame) /\ r \in Seq(Frame) /\ OnTop(s, r) /\ f.call = "followFlow" /\ f = Top(p) /\ f \in Frame
        /\ StackOK(r) /\ Fits(f, r)
        /\ Held(p) = {token[p]} \cup FrameTokens(f) \cup StackTokens(r)
        /\ Usable(p) = Resumed(s, Back(p)) \ {NoToken}
        /\ \A t \in Usable(p) : tokens[t].status # "CONSUMED"
        /\ Placed(token[p])
        /\ row[p].status # "NONE" /\ Reached(row[p].at, Inside(s, 1))
        /\ AllStand(tokens, s, Back(p)) /\ (Back(p) = TRUE)
        /\ Clean => SavedOK(s) /\ SavedOK(r)
        /\ Clean /\ row[p].status = "COMPLETED" =>
             Usable(p) = {} /\ Kind[row[p].at] = "endEvent" /\ res[p] \in {"going", "completed"}
    BY Returns
  <1>3. OnTop(n, r) /\ n[1] = g
    BY <1>2, PushAt
  <1> HIDE DEF r, f, n
  <1>4. g.element \in Elements /\ g.token \in DOMAIN tokens \cup {NoToken} /\ FrameTokens(g) = {g.token} /\ FrameTokens(f) = {g.token}
    <2>1. FrameTokens(g) = {g.token} /\ FrameTokens(f) = {g.token}
      BY <1>2 DEF FrameTokens
    <2> QED
      BY <1>2, <2>1, Types DEF Reached
  <1>5. stack'[p] = n /\ at'[p] = g.element /\ token'[p] = g.token /\ pc'[p] = l /\ OwnLocals(p)
    BY <1>1 DEF TypeOK, OwnLocals, n, r
  <1>6. TypeOK'
    <2>1. n \in Seq(Frame) /\ stack' = [stack EXCEPT ![p] = n]
      BY <1>3 DEF OnTop, n, r
    <2> QED
      BY <1>1, <1>4, <2>1 DEF TypeOK
  <1>7. StackOK(n)
    <2>1. r # <<>> => FrameOn(g, r[1])
      BY <1>2 DEF Fits, FrameOn
    <2>2. Fits(g, r)
      BY <1>2, <2>1 DEF Fits, r
    <2> QED
      BY <1>2, <1>3, <2>2, StackOn
  <1>8. (Inside(n, 1) <=> Inside(r, 1)) /\ (Inside(s, 1) <=> Inside(r, 1))
    BY <1>2, <1>3, InsideOn DEF f
  <1>9. RunOK(g.element, g.token, n)
    <2>1. Reached(g.element, Inside(n, 1))
      BY <1>8 DEF Reached, r
    <2>2. Alone(n, 1, g.token)
      BY <1>2, <1>3, AloneOn DEF Fits
    <2>3. RunsOn(g.element, g.token, n[1])
      BY <1>3 DEF RunsOn, CarriesOn
    <2> QED
      BY <1>3, <2>1, <2>2, <2>3, OnTopFacts DEF RunOK
  <1>10. Apart(g.token, n)
    BY <1>2, <1>3, ApartOn DEF Fits
  <1>11. StandsIn(tokens, f) /\ AllStand(tokens, r, FALSE)
    <2>1. (f.call = "fork") = FALSE
      BY <1>2
    <2> QED
      BY <1>2, <2>1, StandOn DEF f
  <1>12. StandsAt(token[p], at[p])'
    BY <1>2, <1>5, <1>11 DEF StandsIn, StandsAt
  <1>13. AllStand(tokens', stack'[p], FALSE)
    <2>1. (g.call = "fork") = FALSE
      OBVIOUS
    <2>2. AllStand(tokens, n, FALSE)
      BY <1>3, <1>11, <2>1, StandOn
    <2> QED
      BY <1>5, <2>2
  <1>14. Usable(p)' = Usable(p)
    <2>1. Resumed(s, Back(p)) = {g.token} \cup Resumed(r, FALSE)
      <3>1. OnTop(s, r) /\ s[1].call = "followFlow" /\ FrameTokens(s[1]) = {g.token} /\ (Back(p) = TRUE) /\ Back(p) \in BOOLEAN
        BY <1>2, <1>4 DEF f
      <3>2. Resumed(s, Back(p)) = FrameTokens(s[1]) \cup Resumed(r, FALSE)
        BY <3>1, ResumedFlow
      <3> QED
        BY <3>1, <3>2
    <2>2. Resumed(n, FALSE) = Resumed(r, FALSE)
      BY <1>3, ResumedOver
    <2>3. Back(p)' = FALSE
      BY <1>5 DEF Back
    <2>4. Usable(p)' = (Resumed(n, FALSE) \cup {g.token}) \ {NoToken}
      BY <1>5, <2>3 DEF Usable
    <2> QED
      BY <1>2, <2>1, <2>2, <2>4
  <1>15. Held(p)' = {g.token} \cup StackTokens(r)
    <2>1. StackTokens(n) = {g.token} \cup StackTokens(r)
      BY <1>3, <1>4, StackTokensOn
    <2> QED
      BY <1>5, <2>1 DEF Held
  <1>16. Moves(p)
    <2>1. \A t \in Held(p) \ Held(p)' : Placed(t)'
      <3>1. \A t \in Held(p) \ Held(p)' : t = token[p]
        BY <1>2, <1>4, <1>15
      <3> QED
        BY <1>2, <3>1 DEF Placed
    <2>2. Held(p)' \subseteq Held(p)
      BY <1>2, <1>4, <1>15
    <2> QED
      BY <1>5, <1>14, <2>1, <2>2, TokensStay
  <1>17. RequestOK(p)'
    <2>1. \A u \in Usable(p)' : tokens'[u].status # "CONSUMED"
      BY <1>2, <1>14
    <2>2. l = "leave" => g.element \notin Tasks /\ Kind[g.element] # "endEvent"
      BY DEF Forks, Tasks
    <2>3. Reached(row'[p].at, Inside(stack'[p], 1))
      BY <1>2, <1>5, <1>8 DEF Reached
    <2> QED
      BY <1>2, <1>5, <1>6, <1>7, <1>9, <1>10, <1>12, <1>13, <1>16, <2>1, <2>2, <2>3, GoesOn
  <1>18. Clean' => SavedOK(stack[p])' /\ (Completing(p)' => Completing(p) /\ Ending(p)')
    <2>1. Clean' => Clean
      BY DEF Clean
    <2>2. Clean => SavedOK(n)
      BY <1>2, <1>3, SavedOn
    <2>3. Completing(p)' <=> Completing(p)
      BY <1>5 DEF Completing
    <2>4. Clean /\ Completing(p) => Ending(p)'
      BY <1>2, <1>5, <1>14 DEF Completing, Ending
    <2> QED
      BY <1>5, <2>1, <2>2, <2>3, <2>4
  <1>19. ControlKept'
    <2>1. Going(p)
      BY DEF Going
    <2> QED
      BY <1>6, <1>16, <1>18, <2>1, ControlQuiet DEF OpenTasks
  <1> QED
    BY <1>6, <1>16, <1>17, <1>19 DEF Kept

\* A fork whose branches all ended is left a second time with its own token.
LEMMA LeaveAgainStep ==
  ASSUME IInv, NEW p \in Requests, LeaveAgain(p)
  PROVE  Kept(p)
  <1> DEFINE g == [Top(p) EXCEPT !.again = TRUE]
  <1>1. /\ pc[p] = "return" /\ stack[p] # <<>> /\ Top(p).call = "followFlow"
        /\ res[p] = "going" /\ row[p].status # "COMPLETED"
        /\ stack' = [stack EXCEPT ![p] = <<g>> \o Tail(@)]
        /\ at' = [at EXCEPT ![p] = Top(p).element]
        /\ token' = [token EXCEPT ![p] = Top(p).token]
        /\ pc' = [pc EXCEPT ![p] = "leave"]
        /\ UNCHANGED <<instance, open, tokens, row, res, terminated, uprooted, torn, faults>>
    BY DEF LeaveAgain, Goto, history
  <1>2. Top(p) \in Frame /\ Fits(Top(p), Tail(stack[p])) /\ Top(p) = stack[p][1]
    BY <1>1, Returns
  <1>3. Top(p) \in [call: {"followFlow"}, element: Elements, token: Nat, again: BOOLEAN]
    BY <1>1, <1>2 DEF Frame
  <1>4. g \in Frame /\ g.call = "followFlow" /\ g.token = Top(p).token /\ g.element = Top(p).element
    BY <1>3 DEF Frame
  <1> HIDE DEF g
  <1>5. Reached(g.element, Inside(Tail(stack[p]), 1))
    BY <1>1, <1>2, <1>4 DEF Fits
  <1>6. Kind[g.element] \in Forks
    <2>1. WalkOK(p)
      BY Types
    <2> QED
      BY <1>1, <1>2, <1>4, <2>1 DEF WalkOK, Back
  <1> QED
    BY <1>1, <1>4, <1>5, <1>6, FlowGoesOn

\* followFlow goes on where the instance is, with the token it has.
LEMMA GoOnStep ==
  ASSUME IInv, NEW p \in Requests, GoOn(p)
  PROVE  Kept(p)
  <1> DEFINE g == [Top(p) EXCEPT !.again = FALSE, !.element = row[p].at]
  <1>1. /\ pc[p] = "return" /\ stack[p] # <<>> /\ Top(p).call = "followFlow" /\ res[p] = "going"
        /\ stack' = [stack EXCEPT ![p] = <<g>> \o Tail(@)]
        /\ at' = [at EXCEPT ![p] = row[p].at]
        /\ token' = [token EXCEPT ![p] = Top(p).token]
        /\ pc' = [pc EXCEPT ![p] = "enter"]
        /\ UNCHANGED <<instance, open, tokens, row, res, terminated, uprooted, torn, faults>>
    BY DEF GoOn, RunTo, Goto, history, NextElement
  <1>2. /\ Top(p) \in Frame /\ Top(p) = stack[p][1] /\ OnTop(stack[p], Tail(stack[p]))
        /\ Reached(row[p].at, Inside(stack[p], 1)) /\ row[p].at \in Elements
    BY <1>1, Returns
  <1>3. Top(p) \in [call: {"followFlow"}, element: Elements, token: Nat, again: BOOLEAN]
    BY <1>1, <1>2 DEF Frame
  <1>4. g \in Frame /\ g.call = "followFlow" /\ g.token = Top(p).token /\ g.element = row[p].at
    BY <1>2, <1>3 DEF Frame
  <1> HIDE DEF g
  <1>5. Reached(g.element, Inside(Tail(stack[p]), 1))
    BY <1>1, <1>2, <1>4, InsideOn DEF Reached
  <1> QED
    BY <1>1, <1>4, <1>5, FlowGoesOn

\* The frame of a fork, with the result of a branch
LEMMA Collected ==
  ASSUME IInv, NEW p \in Requests, pc[p] = "return", stack[p] # <<>>, Top(p).call = "fork",
         NEW g, g = IF res[p] \notin {"going", "completed"}
                    THEN [Top(p) EXCEPT !.res = res[p], !.row = row[p]] ELSE Top(p)
  PROVE  /\ g \in [call: {"fork"}, rest: Seq(Branch), res: Results, row: Row]
         /\ g.rest = Top(p).rest /\ g.res # "completed"
         /\ g.res # "going" => Reached(g.row.at, Inside(Tail(stack[p]), 1))
         /\ g.row.status # "NONE"
         /\ g.res # "going" /\ Clean => g.row.status # "COMPLETED"
         /\ g.res = "going" => res[p] \in {"going", "completed"}
  <1> DEFINE f == Top(p)
  <1>1. /\ f \in Frame /\ f = stack[p][1] /\ Fits(f, Tail(stack[p])) /\ OnTop(stack[p], Tail(stack[p]))
        /\ row[p].status # "NONE" /\ Reached(row[p].at, Inside(stack[p], 1))
        /\ Clean => SavedOK(stack[p])
        /\ Clean /\ row[p].status = "COMPLETED" => res[p] \in {"going", "completed"}
    BY Returns
  <1>2. f \in [call: {"fork"}, rest: Seq(Branch), res: Results, row: Row]
    BY <1>1 DEF Frame
  <1>3. /\ f.res # "completed" /\ f.row.status # "NONE"
        /\ f.res # "going" => Reached(f.row.at, Inside(Tail(stack[p]), 1))
    BY <1>1 DEF Fits
  <1>4. f.res # "going" /\ Clean => f.row.status # "COMPLETED"
    BY <1>1, SavedOn
  <1>5. Reached(row[p].at, Inside(Tail(stack[p]), 1))
    BY <1>1, InsideOn DEF Reached
  <1>6. row[p] \in Row /\ res[p] \in Results
    BY Types
  <1> HIDE DEF f
  <1>7. CASE res[p] \notin {"going", "completed"}
    <2>1. /\ g \in [call: {"fork"}, rest: Seq(Branch), res: Results, row: Row]
          /\ g.rest = f.rest /\ g.res = res[p] /\ g.row = row[p]
      BY <1>2, <1>6, <1>7 DEF f
    <2> QED
      BY <1>1, <1>5, <1>7, <2>1 DEF f
  <1>8. CASE res[p] \in {"going", "completed"}
    <2>1. g = f
      BY <1>8 DEF f
    <2> QED
      BY <1>2, <1>3, <1>4, <1>8, <2>1 DEF f
  <1> QED
    BY <1>7, <1>8

\* The next branch of a fork begins.
LEMMA CollectNext ==
  ASSUME IInv, NEW p \in Requests, pc[p] = "return", stack[p] # <<>>, Top(p).call = "fork",
         NEW g, g = IF res[p] \notin {"going", "completed"}
                    THEN [Top(p) EXCEPT !.res = res[p], !.row = row[p]] ELSE Top(p),
         g.rest # <<>>,
         stack' = [stack EXCEPT ![p] = <<[g EXCEPT !.rest = Tail(g.rest)]>> \o Tail(@)],
         RunTo(p, Head(g.rest).to, Head(g.rest).token),
         UNCHANGED <<instance, open, tokens, row, res, terminated, uprooted, torn, faults>>
  PROVE  Kept(p)
  <1> DEFINE s == stack[p]
             r == Tail(stack[p])
             f == s[1]
             h == [g EXCEPT !.rest = Tail(g.rest)]
             b == Head(g.rest)
             n == <<h>> \o r
  <1>1. TypeOK
    BY DEF IInv
  <1>2. /\ s \in Seq(Frame) /\ r \in Seq(Frame) /\ OnTop(s, r) /\ f.call = "fork" /\ f = Top(p)
        /\ StackOK(r) /\ Fits(f, r)
        /\ Held(p) = {token[p]} \cup FrameTokens(f) \cup StackTokens(r)
        /\ Usable(p) = Resumed(s, Back(p)) \ {NoToken}
        /\ \A t \in Usable(p) : tokens[t].status # "CONSUMED"
        /\ Placed(token[p]) /\ row[p].status # "NONE"
        /\ AllStand(tokens, s, Back(p)) /\ Back(p) \in BOOLEAN
        /\ Clean => SavedOK(r)
        /\ Clean /\ row[p].status = "COMPLETED" => Usable(p) = {}
    BY Returns
  <1>3. /\ g \in [call: {"fork"}, rest: Seq(Branch), res: Results, row: Row]
        /\ g.rest = f.rest /\ g.res # "completed"
        /\ g.res # "going" => Reached(g.row.at, Inside(r, 1))
        /\ g.row.status # "NONE"
        /\ g.res # "going" /\ Clean => g.row.status # "COMPLETED"
    BY <1>2, Collected
  <1>4. /\ g.rest \in Seq(Branch) /\ Tail(g.rest) \in Seq(Branch) /\ b = g.rest[1] /\ b \in Branch
        /\ DOMAIN g.rest = 1 .. Len(g.rest) /\ Len(g.rest) \in Nat \ {0}
        /\ DOMAIN Tail(g.rest) = 1 .. Len(g.rest) - 1
        /\ \A k \in DOMAIN Tail(g.rest) : k + 1 \in DOMAIN g.rest /\ Tail(g.rest)[k] = g.rest[k + 1]
    <2>1. g.rest \in Seq(Branch)
      BY <1>3
    <2>2. /\ Tail(g.rest) \in Seq(Branch) /\ Len(Tail(g.rest)) = Len(g.rest) - 1
          /\ \A k \in 1 .. Len(Tail(g.rest)) : Tail(g.rest)[k] = g.rest[k + 1]
      BY <2>1, HeadTailProperties
    <2>3. Len(g.rest) \in Nat \ {0} /\ DOMAIN g.rest = 1 .. Len(g.rest)
      BY <2>1, EmptySeq, LenProperties
    <2>4. DOMAIN Tail(g.rest) = 1 .. Len(g.rest) - 1
      BY <2>2, LenProperties
    <2>5. b = g.rest[1] /\ b \in Branch
      BY <2>1, <2>3, ElementOfSeq
    <2>6. \A k \in DOMAIN Tail(g.rest) : k + 1 \in DOMAIN g.rest
      BY <2>3, <2>4
    <2> QED
      BY <2>1, <2>2, <2>3, <2>4, <2>5, <2>6
  <1>5. /\ h \in Frame /\ h.call = "fork" /\ h.rest = Tail(g.rest) /\ h.res = g.res /\ h.row = g.row
    <2>1. h \in [call: {"fork"}, rest: Seq(Branch), res: Results, row: Row]
      BY <1>3, <1>4
    <2> QED
      BY <1>3, <2>1 DEF Frame
  <1>6. OnTop(n, r) /\ n[1] = h
    BY <1>2, <1>5, PushAt
  <1>7. /\ stack' = [stack EXCEPT ![p] = n] /\ pc' = [pc EXCEPT ![p] = "enter"]
        /\ at' = [at EXCEPT ![p] = b.to] /\ token' = [token EXCEPT ![p] = b.token]
    BY DEF RunTo, Goto
  <1> HIDE DEF r, f, h, n, b
  <1>8. /\ stack'[p] = n /\ pc'[p] = "enter" /\ at'[p] = b.to /\ token'[p] = b.token /\ OwnLocals(p)
    BY <1>1, <1>7 DEF TypeOK, OwnLocals
  <1>9. /\ \A k \in DOMAIN f.rest :
             /\ f.rest[k].token # NoToken /\ Reached(f.rest[k].to, Inside(r, 1))
             /\ \A l \in DOMAIN f.rest : f.rest[k].token = f.rest[l].token => k = l
        /\ FrameTokens(f) \cap StackTokens(r) \subseteq {NoToken}
        /\ r # <<>> => FrameOn(f, r[1])
    BY <1>2 DEF Fits
  <1>10. /\ FrameTokens(f) = {b.token} \cup FrameTokens(h) /\ b.token \notin FrameTokens(h)
         /\ b.token # NoToken /\ b.to \in Elements /\ b.token \notin StackTokens(r)
         /\ Reached(b.to, Inside(r, 1))
    <2>1. FrameTokens(f) = {f.rest[k].token : k \in DOMAIN f.rest}
          /\ FrameTokens(h) = {h.rest[k].token : k \in DOMAIN h.rest}
      BY <1>2, <1>5 DEF FrameTokens
    <2>2. 1 \in DOMAIN f.rest /\ b = f.rest[1]
      BY <1>3, <1>4
    <2>3. \A k \in DOMAIN h.rest : k + 1 \in DOMAIN f.rest /\ h.rest[k] = f.rest[k + 1] /\ k + 1 # 1
      BY <1>3, <1>4, <1>5
    <2>4. \A k \in DOMAIN f.rest : k = 1 \/ (k - 1 \in DOMAIN h.rest /\ h.rest[k - 1] = f.rest[k])
      BY <1>3, <1>4, <1>5
    <2>5. FrameTokens(h) \subseteq FrameTokens(f)
      BY <2>1, <2>3
    <2>6. FrameTokens(f) \subseteq {b.token} \cup FrameTokens(h)
      BY <2>1, <2>2, <2>4
    <2>7. b.token \in FrameTokens(f) /\ b.token \notin FrameTokens(h)
      BY <1>9, <2>1, <2>2, <2>3
    <2>8. b.token # NoToken /\ Reached(b.to, Inside(r, 1))
      BY <1>9, <2>2
    <2> QED
      BY <1>9, <2>5, <2>6, <2>7, <2>8 DEF Reached
  <1>11. b.token \in DOMAIN tokens
    BY <1>2, <1>10, Types
  <1>12. TypeOK'
    <2>1. stack' \in [Requests -> Seq(Frame)]
      BY <1>1, <1>6, <1>7 DEF OnTop, TypeOK
    <2>2. /\ pc' \in [Requests -> {"idle", "inbox", "cancel", "enter", "leave", "join",
                                   "ended", "return", "persist"}]
          /\ at' \in [Requests -> Elements \cup {NoElement}]
          /\ token' \in [Requests -> DOMAIN tokens' \cup {NoToken}]
      BY <1>1, <1>7, <1>10, <1>11 DEF TypeOK
    <2> QED
      BY <1>1, <2>1, <2>2 DEF TypeOK
  <1>13. StackOK(n)
    <2>1. r # <<>> => FrameOn(h, r[1])
      BY <1>2, <1>5, <1>9 DEF FrameOn
    <2>2. \A k \in DOMAIN h.rest :
            /\ h.rest[k].token # NoToken /\ Reached(h.rest[k].to, Inside(r, 1))
            /\ \A l \in DOMAIN h.rest : h.rest[k].token = h.rest[l].token => k = l
      <3>1. \A k \in DOMAIN h.rest : k + 1 \in DOMAIN f.rest /\ h.rest[k] = f.rest[k + 1] /\ k \in Nat
        BY <1>3, <1>4, <1>5
      <3> QED
        BY <1>9, <3>1
    <2>3. FrameTokens(h) \cap StackTokens(r) \subseteq {NoToken}
      BY <1>9, <1>10
    <2>4. Fits(h, r)
      BY <1>3, <1>5, <2>1, <2>2, <2>3 DEF Fits
    <2> QED
      BY <1>2, <1>6, <2>4, StackOn
  <1>14. RunOK(b.to, b.token, n)
    <2>1. Reached(b.to, Inside(n, 1))
      BY <1>5, <1>6, <1>10, InsideOn DEF Reached
    <2>2. Alone(n, 1, b.token)
      BY <1>10 DEF Alone
    <2>3. RunsOn(b.to, b.token, n[1])
      BY <1>5, <1>6, <1>10 DEF RunsOn, CarriesOn
    <2> QED
      BY <1>6, <2>1, <2>2, <2>3, OnTopFacts DEF RunOK
  <1>15. Apart(b.token, n)
    BY <1>5, <1>6, <1>10, ApartOn
  <1>16. StandsIn(tokens, f) /\ StandAll(tokens, r)
    <2>1. OnTop(s, r) /\ s[1].call = "fork" /\ AllStand(tokens, s, Back(p)) /\ Back(p) \in BOOLEAN
      BY <1>2 DEF f
    <2>2. StandsIn(tokens, s[1]) /\ StandAll(tokens, r)
      BY <2>1, StandBack
    <2> QED
      BY <2>2 DEF f
  <1>17. StandsAt(token[p], at[p])'
    <2>1. 1 \in DOMAIN f.rest /\ b = f.rest[1]
      BY <1>3, <1>4
    <2>2. StandsAt(b.token, b.to)
      BY <1>2, <1>16, <2>1 DEF StandsIn, StandsAt
    <2> QED
      BY <1>8, <2>2 DEF StandsAt
  <1>18. AllStand(tokens', stack'[p], FALSE)
    <2>1. StandsIn(tokens, h)
      <3>1. \A k \in DOMAIN h.rest : k + 1 \in DOMAIN f.rest /\ h.rest[k] = f.rest[k + 1]
        BY <1>3, <1>4, <1>5
      <3>2. \A k \in DOMAIN f.rest : \/ f.rest[k].token = NoToken
                                      \/ tokens[f.rest[k].token].at = f.rest[k].to
                                      \/ Kind[tokens[f.rest[k].token].at] \in Forks
        BY <1>2, <1>16 DEF StandsIn
      <3>3. \A k \in DOMAIN h.rest : \/ h.rest[k].token = NoToken
                                      \/ tokens[h.rest[k].token].at = h.rest[k].to
                                      \/ Kind[tokens[h.rest[k].token].at] \in Forks
        BY <3>1, <3>2
      <3> QED
        BY <1>5, <3>3 DEF StandsIn
    <2>2. AllStand(tokens, n, FALSE)
      BY <1>5, <1>6, <1>16, <2>1, StandBack
    <2> QED
      BY <1>8, <2>2
  <1>19. Usable(p)' = Usable(p)
    <2>1. Resumed(s, Back(p)) = FrameTokens(f) \cup ResumedAll(r)
      <3>1. OnTop(s, r) /\ s[1].call = "fork" /\ FrameTokens(s[1]) = FrameTokens(f)
        BY <1>2 DEF f
      <3> QED
        BY <1>2, <3>1, ResumedFork
    <2>2. Resumed(n, FALSE) = FrameTokens(h) \cup ResumedAll(r)
      BY <1>5, <1>6, ResumedFork
    <2>3. Back(p)' = FALSE
      BY <1>8 DEF Back
    <2>4. Usable(p)' = (Resumed(n, FALSE) \cup {b.token}) \ {NoToken}
      BY <1>8, <2>3 DEF Usable
    <2> QED
      BY <1>2, <1>10, <2>1, <2>2, <2>4
  <1>20. Held(p)' = FrameTokens(f) \cup StackTokens(r)
    <2>1. StackTokens(n) = FrameTokens(h) \cup StackTokens(r)
      BY <1>6, StackTokensOn
    <2> QED
      BY <1>8, <1>10, <2>1 DEF Held
  <1>21. Moves(p)
    <2>1. \A t \in Held(p) \ Held(p)' : Placed(t)'
      <3>1. \A t \in Held(p) \ Held(p)' : t = token[p]
        BY <1>2, <1>20
      <3> QED
        BY <1>2, <3>1 DEF Placed
    <2>2. Held(p)' \subseteq Held(p)
      BY <1>2, <1>20
    <2> QED
      BY <1>8, <1>19, <2>1, <2>2, TokensStay
  <1>22. RequestOK(p)'
    <2>1. \A u \in Usable(p)' : tokens'[u].status # "CONSUMED"
      BY <1>2, <1>19
    <2> QED
      BY <1>2, <1>8, <1>12, <1>13, <1>14, <1>15, <1>17, <1>18, <1>21, <2>1, GoesOn
  <1>23. Clean' => SavedOK(stack[p])' /\ ~Completing(p)'
    <2>1. Clean' => Clean
      BY DEF Clean
    <2>2. Clean => SavedOK(n)
      BY <1>2, <1>3, <1>5, <1>6, SavedOn
    <2>3. b.token \in Usable(p)
      BY <1>8, <1>10, <1>19 DEF Usable
    <2> QED
      BY <1>2, <1>8, <2>1, <2>2, <2>3 DEF Completing
  <1>24. ControlKept'
    <2>1. 1 \in DOMAIN s /\ s[1].call # "followFlow"
      BY <1>2 DEF OnTop, f
    <2>2. Going(p)
      BY <2>1 DEF Going
    <2> QED
      BY <1>12, <1>21, <1>23, <2>2, ControlQuiet DEF OpenTasks
  <1> QED
    BY <1>12, <1>21, <1>22, <1>24 DEF Kept

\* All branches of a fork came back.
LEMMA CollectLast ==
  ASSUME IInv, NEW p \in Requests, pc[p] = "return", stack[p] # <<>>, Top(p).call = "fork",
         NEW g, g = IF res[p] \notin {"going", "completed"}
                    THEN [Top(p) EXCEPT !.res = res[p], !.row = row[p]] ELSE Top(p),
         g.rest = <<>>, Pop(p),
         res' = [res EXCEPT ![p] = g.res],
         g.res = "going" => row' = row, g.res # "going" => row' = [row EXCEPT ![p] = g.row],
         UNCHANGED <<instance, open, tokens, pc, at, token, terminated, uprooted, torn, faults>>
  PROVE  Kept(p)
  <1> DEFINE s == stack[p]
             r == Tail(stack[p])
             f == s[1]
  <1>1. TypeOK
    BY DEF IInv
  <1>2. /\ s \in Seq(Frame) /\ r \in Seq(Frame) /\ OnTop(s, r) /\ f.call = "fork" /\ f = Top(p)
        /\ StackOK(r) /\ Fits(f, r)
        /\ Held(p) = {token[p]} \cup FrameTokens(f) \cup StackTokens(r)
        /\ Usable(p) = Resumed(s, Back(p)) \ {NoToken}
        /\ \A t \in Usable(p) : tokens[t].status # "CONSUMED"
        /\ Placed(token[p]) /\ row[p].status # "NONE" /\ Reached(row[p].at, Inside(s, 1))
        /\ Apart(token[p], s)
        /\ AllStand(tokens, s, Back(p)) /\ Back(p) \in BOOLEAN
        /\ Clean => SavedOK(r)
        /\ Clean /\ row[p].status = "COMPLETED" =>
             Usable(p) = {} /\ Kind[row[p].at] = "endEvent" /\ res[p] \in {"going", "completed"}
    BY Returns
  <1>3. /\ g.row \in Row /\ g.res \in Results
        /\ g.rest = f.rest /\ g.res # "completed"
        /\ g.res # "going" => Reached(g.row.at, Inside(r, 1))
        /\ g.row.status # "NONE"
        /\ g.res # "going" /\ Clean => g.row.status # "COMPLETED"
        /\ g.res = "going" => res[p] \in {"going", "completed"}
    <2>1. /\ g \in [call: {"fork"}, rest: Seq(Branch), res: Results, row: Row]
          /\ g.rest = Top(p).rest /\ g.res # "completed"
          /\ g.res # "going" => Reached(g.row.at, Inside(r, 1))
          /\ g.row.status # "NONE"
          /\ g.res # "going" /\ Clean => g.row.status # "COMPLETED"
          /\ g.res = "going" => res[p] \in {"going", "completed"}
      BY Collected
    <2>2. f = Top(p)
      BY <1>2
    <2> HIDE DEF f, r
    <2> QED
      BY <2>1, <2>2
  <1>4. stack' = [stack EXCEPT ![p] = r]
    BY DEF Pop
  <1> HIDE DEF r, f
  <1>5. /\ pc'[p] = "return" /\ stack'[p] = r /\ res'[p] = g.res /\ OwnLocals(p)
        /\ g.res = "going" => row'[p] = row[p]
        /\ g.res # "going" => row'[p] = g.row
    BY <1>1, <1>4 DEF OwnLocals, TypeOK
  <1>6. TypeOK'
    <2>1. row' \in [Requests -> Row] /\ res' \in [Requests -> Results]
      BY <1>1, <1>3 DEF TypeOK
    <2> QED
      BY <1>1, <1>2, <1>4, <2>1 DEF TypeOK
  <1>7. FrameTokens(f) = {}
    <2>1. DOMAIN f.rest = {}
      BY <1>3
    <2> QED
      BY <1>2, <2>1 DEF FrameTokens
  <1>8. Back(p)' \in BOOLEAN /\ (Back(p)' = (g.res = "going"))
    BY <1>5 DEF Back
  <1>9. Usable(p)' = Resumed(r, Back(p)') \ {NoToken} /\ Usable(p)' \subseteq Usable(p)
    <2>1. Resumed(r, Back(p)') \subseteq ResumedAll(r)
      BY <1>8, ResumedLess
    <2>2. Resumed(s, Back(p)) = ResumedAll(r)
      <3>1. OnTop(s, r) /\ s[1].call = "fork" /\ FrameTokens(s[1]) = {}
        BY <1>2, <1>7 DEF f
      <3>2. Resumed(s, Back(p)) = FrameTokens(s[1]) \cup ResumedAll(r)
        BY <1>2, <3>1, ResumedFork
      <3> QED
        BY <3>1, <3>2
    <2>3. Usable(p)' = Resumed(r, Back(p)') \ {NoToken}
      BY <1>5 DEF Usable
    <2> QED
      BY <1>2, <2>1, <2>2, <2>3
  <1>10. Held(p)' = Held(p)
    BY <1>2, <1>5, <1>7 DEF Held
  <1>11. Moves(p)
    BY <1>5, <1>9, <1>10, TokensStay
  <1>12. WalkOK(p)'
    <2>1. Reached(row[p].at, Inside(r, 1))
      BY <1>2, InsideOn DEF f, Reached
    <2>2. Reached(row'[p].at, Inside(r, 1)) /\ row'[p].status # "NONE"
      BY <1>2, <1>3, <1>5, <2>1
    <2>3. Apart(token[p], r)
      <3>1. token[p] = NoToken \/ token[p] \notin StackTokens(r)
        BY <1>2, ApartOn DEF f
      <3> QED
        BY <3>1 DEF Apart, StackTokens
    <2>4. r # <<>> /\ r[1].call = "followFlow" => Kind[r[1].element] \in Forks
      BY <1>2 DEF Fits, FrameOn
    <2> QED
      BY <1>5, <2>2, <2>3, <2>4 DEF WalkOK, Walking
  <1>13. StandAll(tokens, r)
    <2>1. OnTop(s, r) /\ s[1].call = "fork" /\ AllStand(tokens, s, Back(p)) /\ Back(p) \in BOOLEAN
      BY <1>2 DEF f
    <2> QED
      BY <2>1, StandBack
  <1>14. CarryOK(p)'
    <2>1. r # <<>> /\ r[1].call = "followFlow" => Placed(r[1].token)
      <3>1. ASSUME r # <<>>, r[1].call = "followFlow" PROVE Placed(r[1].token)
        <4>1. 1 \in DOMAIN r
          BY <1>2, <3>1, EmptySeq, LenProperties
        <4>2. StandsIn(tokens, r[1])
          BY <1>13, <4>1 DEF StandAll, AllStand, Resumes
        <4> QED
          BY <3>1, <4>2 DEF StandsIn, Placed
      <3> QED
        BY <3>1
    <2>2. (stack[p] # <<>> /\ stack[p][1].call = "followFlow" => Placed(stack[p][1].token))'
      BY <1>5, <2>1 DEF Placed
    <2>3. AllStand(tokens', stack'[p], Back(p)')
      BY <1>5, <1>8, <1>13, StandAllLess
    <2>4. (\A i \in DOMAIN stack[p] : Resumes(stack[p], i, Back(p)) => FrameStands(stack[p][i]))'
      BY <1>2, <1>5, <2>3, StandsNext
    <2>5. (\A t \in Usable(p) : tokens[t].status # "CONSUMED")'
      BY <1>2, <1>9
    <2>6. Placed(token[p])'
      BY <1>2 DEF Placed
    <2> QED
      BY <1>5, <2>2, <2>4, <2>5, <2>6 DEF CarryOK
  <1>15. RequestOK(p)'
    BY <1>2, <1>5, <1>12, <1>14 DEF RequestOK
  <1>16. Clean' => SavedOK(stack[p])' /\ (Completing(p)' => Completing(p) /\ Ending(p)')
    <2>1. Clean' => Clean
      BY DEF Clean
    <2>2. ASSUME Clean, Completing(p)' PROVE Completing(p) /\ Ending(p)'
      <3>1. g.res = "going" /\ row'[p] = row[p] /\ row[p].status = "COMPLETED"
        BY <1>3, <1>5, <2>2 DEF Completing
      <3> QED
        BY <1>2, <1>5, <1>9, <2>2, <3>1 DEF Completing, Ending
    <2> QED
      BY <1>2, <1>5, <2>1, <2>2
  <1>17. ControlKept'
    <2>1. 1 \in DOMAIN s /\ s[1].call # "followFlow"
      BY <1>2 DEF OnTop, f
    <2>2. Going(p)
      BY <2>1 DEF Going
    <2> QED
      BY <1>6, <1>11, <1>16, <2>2, ControlQuiet DEF OpenTasks
  <1> QED
    BY <1>6, <1>11, <1>15, <1>17 DEF Kept

\* A fork runs its next branch, or returns the last halt.
LEMMA CollectStep ==
  ASSUME IInv, NEW p \in Requests, Collect(p)
  PROVE  Kept(p)
  <1> DEFINE g == IF res[p] \notin {"going", "completed"}
                  THEN [Top(p) EXCEPT !.res = res[p], !.row = row[p]] ELSE Top(p)
  <1>1. /\ pc[p] = "return" /\ stack[p] # <<>> /\ Top(p).call = "fork"
        /\ UNCHANGED <<instance, open, tokens, terminated, uprooted, torn, faults>>
    BY DEF Collect, history
  <1>2. CASE /\ g.rest # <<>>
             /\ stack' = [stack EXCEPT ![p] = <<[g EXCEPT !.rest = Tail(g.rest)]>> \o Tail(@)]
             /\ RunTo(p, Head(g.rest).to, Head(g.rest).token)
             /\ UNCHANGED <<row, res>>
    <2> HIDE DEF g
    <2>1. g = IF res[p] \notin {"going", "completed"}
              THEN [Top(p) EXCEPT !.res = res[p], !.row = row[p]] ELSE Top(p)
      BY DEF g
    <2> QED
      BY <1>1, <1>2, <2>1, CollectNext
  <1>3. CASE /\ g.rest = <<>>
             /\ Pop(p)
             /\ res' = [res EXCEPT ![p] = g.res]
             /\ row' = IF g.res = "going" THEN row ELSE [row EXCEPT ![p] = g.row]
             /\ UNCHANGED <<pc, at, token>>
    <2> HIDE DEF g
    <2>1. g = IF res[p] \notin {"going", "completed"}
              THEN [Top(p) EXCEPT !.res = res[p], !.row = row[p]] ELSE Top(p)
      BY DEF g
    <2>2. UNCHANGED <<instance, open, tokens, pc, at, token, terminated, uprooted, torn, faults>>
      BY <1>1, <1>3
    <2>3. /\ pc[p] = "return" /\ stack[p] # <<>> /\ Top(p).call = "fork" /\ g.rest = <<>> /\ Pop(p)
          /\ res' = [res EXCEPT ![p] = g.res]
          /\ g.res = "going" => row' = row
          /\ g.res # "going" => row' = [row EXCEPT ![p] = g.row]
      BY <1>1, <1>3
    <2> QED
      BY <2>1, <2>2, <2>3, CollectLast
  <1> QED
    BY <1>2, <1>3 DEF Collect, BranchesLeft

\* An embedded definition hands back the token it was entered with.
LEMMA LeaveEmbeddedStep ==
  ASSUME IInv, NEW p \in Requests, LeaveEmbedded(p)
  PROVE  Kept(p)
  <1> DEFINE s == stack[p]
             r == Tail(stack[p])
             f == s[1]
  <1>1. TypeOK
    BY DEF IInv
  <1>2. /\ pc[p] = "return" /\ s # <<>> /\ Top(p).call = "embedded"
        /\ row' = [row EXCEPT ![p] = Top(p).row]
        /\ at' = [at EXCEPT ![p] = Top(p).element]
        /\ token' = [token EXCEPT ![p] = Top(p).token]
        /\ stack' = [stack EXCEPT ![p] = r]
        /\ pc' = [pc EXCEPT ![p] = "leave"]
        /\ UNCHANGED <<instance, open, tokens, res, terminated, uprooted, torn, faults>>
    BY DEF LeaveEmbedded, Pop, Goto, history
  <1>3. /\ s \in Seq(Frame) /\ r \in Seq(Frame) /\ OnTop(s, r) /\ f.call = "embedded" /\ f \in Frame /\ f = Top(p)
        /\ StackOK(r) /\ Fits(f, r)
        /\ Held(p) = {token[p]} \cup FrameTokens(f) \cup StackTokens(r)
        /\ Usable(p) = Resumed(s, Back(p)) \ {NoToken}
        /\ \A t \in Usable(p) : tokens[t].status # "CONSUMED"
        /\ Placed(token[p]) /\ AllStand(tokens, s, Back(p)) /\ Back(p) \in BOOLEAN
        /\ Clean => SavedOK(s) /\ SavedOK(r)
    BY <1>2, Returns
  <1>4. f.element \in Elements /\ f.token \in Nat /\ f.row \in Row /\ FrameTokens(f) = {f.token}
    BY <1>3, FrameIs DEF FrameTokens
  <1>5. /\ Kind[f.element] = "embedded" /\ Reached(f.element, Inside(r, 1))
        /\ f.row.at = f.element /\ f.row.status # "NONE"
        /\ r = <<>> => f.token = NoToken
        /\ r # <<>> => RunsOn(f.element, f.token, r[1])
        /\ Alone(r, 1, f.token) /\ Apart(f.token, r)
    BY <1>3 DEF Fits, FrameOn
  <1>6. Clean => f.row.status # "COMPLETED"
    <2>1. OnTop(s, r) /\ s[1].call = "embedded"
      BY <1>3
    <2> QED
      BY <1>3, <2>1, SavedOn
  <1>7. StandsIn(tokens, f) /\ AllStand(tokens, r, FALSE)
    <2>1. OnTop(s, r) /\ s[1].call # "followFlow" /\ ((s[1].call = "fork") = FALSE)
      BY <1>3
    <2> QED
      BY <1>3, <2>1, StandOn
  <1>8. Resumed(s, Back(p)) = {f.token} \cup Resumed(r, FALSE)
    <2>1. OnTop(s, r) /\ s[1].call = "embedded" /\ FrameTokens(s[1]) = {f.token}
      BY <1>3, <1>4
    <2>2. Back(p) \in BOOLEAN
      BY <1>3
    <2>3. Resumed(s, Back(p)) = FrameTokens(s[1]) \cup Resumed(r, FALSE)
      BY <2>1, <2>2, ResumedEmbedded
    <2> QED
      BY <2>1, <2>3
  <1> HIDE DEF r, f
  <1>9. /\ pc'[p] = "leave" /\ at'[p] = f.element /\ token'[p] = f.token /\ stack'[p] = r
        /\ row'[p] = f.row /\ OwnLocals(p)
    BY <1>1, <1>2, <1>3 DEF OwnLocals, TypeOK
  <1>10. f.token \in DOMAIN tokens \cup {NoToken}
    BY <1>3, <1>4, Types
  <1>11. TypeOK'
    BY <1>1, <1>2, <1>3, <1>4, <1>10 DEF TypeOK
  <1>12. Held(p)' = {f.token} \cup StackTokens(r)
    BY <1>9 DEF Held
  <1>13. Usable(p)' = Usable(p)
    <2>1. Back(p)' = FALSE
      BY <1>9 DEF Back
    <2>2. Usable(p)' = (Resumed(r, FALSE) \cup {f.token}) \ {NoToken}
      BY <1>9, <2>1 DEF Usable
    <2> QED
      BY <1>3, <1>8, <2>2
  <1>14. Moves(p)
    <2>1. \A t \in Held(p) \ Held(p)' : Placed(t)'
      <3>1. \A t \in Held(p) \ Held(p)' : t = token[p]
        BY <1>3, <1>4, <1>12
      <3> QED
        BY <1>2, <1>3, <3>1 DEF Placed
    <2>2. Held(p)' \subseteq Held(p)
      BY <1>3, <1>4, <1>12
    <2> QED
      BY <1>2, <1>9, <1>13, <2>1, <2>2, TokensStay
  <1>15. RequestOK(p)'
    <2>1. RunOK(f.element, f.token, r)
      BY <1>5 DEF RunOK
    <2>2. StandsAt(f.token, f.element)
      BY <1>3, <1>7 DEF StandsIn, StandsAt
    <2>3. StandsAt(token[p], at[p])'
      BY <1>2, <1>9, <2>2 DEF StandsAt
    <2>4. AllStand(tokens', r, FALSE)
      BY <1>2, <1>7
    <2>5. \A u \in Usable(p)' : tokens'[u].status # "CONSUMED"
      BY <1>2, <1>3, <1>13
    <2>6. f.element \notin Tasks /\ Kind[f.element] # "endEvent"
      BY <1>5 DEF Tasks
    <2> QED
      BY <1>3, <1>5, <1>9, <1>11, <1>14, <2>1, <2>3, <2>4, <2>5, <2>6, GoesOn
  <1>16. Clean' => SavedOK(stack[p])' /\ ~Completing(p)'
    BY <1>2, <1>3, <1>6, <1>9 DEF Clean, Completing
  <1>17. ControlKept'
    <2>1. 1 \in DOMAIN s /\ s[1].call # "followFlow"
      BY <1>3 DEF OnTop, f
    <2>2. Going(p)
      BY <1>2, <2>1 DEF Going
    <2> QED
      BY <1>2, <1>11, <1>14, <1>16, <2>2, ControlQuiet DEF OpenTasks
  <1> QED
    BY <1>11, <1>14, <1>15, <1>17 DEF Kept

-----------------------------------------------------------------------------
(* Forks *)

\* A fork takes some of the flows that leave it.
LEMMA SplitsTake ==
  ASSUME NEW e \in Elements, Kind[e] \in Forks, Targets(e) # {}, NEW targets \in Splits(e)
  PROVE  /\ targets \in Seq(Elements) /\ Len(targets) \in Nat \ {0} /\ DOMAIN targets = 1 .. Len(targets)
         /\ \A i \in DOMAIN targets : targets[i] \in Targets(e)
  <1>1. Flows[e] \in Seq(Elements)
    BY TokensAssumption DEF TokensAssumption
  <1>2. DOMAIN Flows[e] = 1 .. Len(Flows[e]) /\ Len(Flows[e]) \in Nat /\ \A i \in DOMAIN Flows[e] : Flows[e][i] \in Elements
    BY <1>1, LenProperties, ElementOfSeq
  <1>3. CASE Kind[e] = "fork"
    <2>1. targets = Flows[e]
      BY <1>3 DEF Splits
    <2>2. DOMAIN Flows[e] # {}
      BY DEF Targets
    <2> QED
      BY <1>1, <1>2, <2>1, <2>2 DEF Targets
  <1>4. CASE Kind[e] # "fork"
    <2>1. PICK n \in 1 .. Len(Flows[e]) : \E f \in Picks(n, Len(Flows[e])) : targets = [i \in 1 .. n |-> Flows[e][f[i]]]
      BY <1>4 DEF Splits
    <2>2. PICK f \in Picks(n, Len(Flows[e])) : targets = [i \in 1 .. n |-> Flows[e][f[i]]]
      BY <2>1
    <2>3. f \in [1 .. n -> 1 .. Len(Flows[e])] /\ n \in Nat \ {0}
      BY <1>2 DEF Picks
    <2>4. \A i \in 1 .. n : f[i] \in DOMAIN Flows[e] /\ targets[i] = Flows[e][f[i]]
      BY <1>2, <2>2, <2>3
    <2>5. targets \in [1 .. n -> Elements]
      BY <1>2, <2>2, <2>4
    <2>6. targets \in Seq(Elements) /\ Len(targets) = n /\ DOMAIN targets = 1 .. n
      BY <2>3, <2>5, SeqDef, LenProperties
    <2> QED
      BY <2>3, <2>4, <2>6 DEF Targets
  <1> QED
    BY <1>3, <1>4

\* A new fork adds the followFlow below it to what resumes, and nothing else.
LEMMA ResumedAllLess ==
  ASSUME NEW s, NEW t \in ResumedAll(s)
  PROVE  t \in Resumed(s, FALSE) \/ (1 \in DOMAIN s /\ s[1].call = "followFlow" /\ t \in FrameTokens(s[1]))
  <1>1. PICK i \in DOMAIN s : t \in FrameTokens(s[i]) /\ Resumes(s, i, TRUE)
    BY DEF ResumedAll, Resumed
  <1>2. Resumes(s, i, FALSE) \/ (i = 1 /\ s[i].call = "followFlow")
    BY <1>1 DEF Resumes
  <1> QED
    BY <1>1, <1>2 DEF Resumed

\* A fork put on a stack finds it standing.
LEMMA StandAllKept ==
  ASSUME NEW s, NEW tk, NEW new, AllStand(tk, s, FALSE),
         1 \in DOMAIN s /\ s[1].call = "followFlow" => StandsIn(tk, s[1]),
         \A t \in StackTokens(s) \ {NoToken} : new[t].at = tk[t].at
  PROVE  StandAll(new, s)
  <1> SUFFICES ASSUME NEW i \in DOMAIN s, Resumes(s, i, TRUE) PROVE StandsIn(new, s[i])
    BY DEF StandAll, AllStand
  <1>1. Resumes(s, i, FALSE) \/ (i = 1 /\ s[i].call = "followFlow")
    BY DEF Resumes
  <1>2. StandsIn(tk, s[i])
    BY <1>1 DEF AllStand
  <1>3. \A t \in FrameTokens(s[i]) \ {NoToken} : new[t].at = tk[t].at
    BY DEF StackTokens
  <1>4. CASE s[i].call = "fork"
    BY <1>2, <1>3, <1>4 DEF StandsIn, FrameTokens
  <1>5. CASE s[i].call # "fork"
    BY <1>2, <1>3, <1>5 DEF StandsIn, FrameTokens
  <1> QED
    BY <1>4, <1>5

\* The tokens a fork makes, and its branches
Made(e, targets) ==
    [i \in DOMAIN targets |-> [gateway |-> e, born |-> targets[i], at |-> targets[i], status |-> "ACTIVE"]]

\* The tokens a fork makes, and the branches that carry them.
LEMMA Forked ==
  ASSUME IInv, NEW e \in Elements, Kind[e] \in Forks, NEW targets \in Seq(Elements),
         Len(targets) \in Nat \ {0}, DOMAIN targets = 1 .. Len(targets)
  PROVE  LET new == tokens \o Made(e, targets)
             branches == Branches(targets, Len(tokens))
             rest == Tail(branches)
         IN
         /\ new \in Seq(Token) /\ DOMAIN new = 1 .. Len(tokens) + Len(targets)
         /\ \A t \in DOMAIN tokens : new[t] = tokens[t]
         /\ \A i \in DOMAIN targets : /\ new[Len(tokens) + i].gateway = e
                                     /\ new[Len(tokens) + i].at = targets[i]
                                     /\ new[Len(tokens) + i].status = "ACTIVE"
         /\ Head(branches).to = targets[1] /\ Head(branches).token = Len(tokens) + 1
         /\ rest \in Seq(Branch) /\ DOMAIN rest = 1 .. Len(targets) - 1
         /\ \A k \in DOMAIN rest : /\ k + 1 \in DOMAIN targets
                                  /\ rest[k].to = targets[k + 1] /\ rest[k].token = Len(tokens) + (k + 1)
  <1> DEFINE fresh == [i \in DOMAIN targets |->
                         [gateway |-> e, born |-> targets[i], at |-> targets[i], status |-> "ACTIVE"]]
             n == Len(tokens)
             m == Len(targets)
             new == tokens \o Made(e, targets)
             branches == Branches(targets, n)
             rest == Tail(branches)
  <1>1. tokens \in Seq(Token) /\ n \in Nat /\ DOMAIN tokens = 1 .. n
    BY LenProperties DEF IInv, TypeOK
  <1>2. \A i \in 1 .. m : targets[i] \in Elements
    BY ElementOfSeq
  <1>3. fresh \in Seq(Token) /\ Len(fresh) = m
    <2>1. fresh \in [1 .. m -> Token]
      BY <1>2 DEF Token
    <2>2. fresh \in Seq(Token) /\ DOMAIN fresh = 1 .. m
      BY <2>1, SeqDef
    <2> QED
      BY <2>2, LenProperties
  <1>4. \A i \in 1 .. m : fresh[i].gateway = e /\ fresh[i].at = targets[i] /\ fresh[i].status = "ACTIVE"
    OBVIOUS
  <1>5. new = tokens \o fresh
    BY DEF Made
  <1> HIDE DEF fresh, n, m, new, branches, rest
  <1>6. /\ new \in Seq(Token) /\ Len(new) = n + m
        /\ \A i \in 1 .. n + m : new[i] = IF i <= n THEN tokens[i] ELSE fresh[i - n]
    <2>1. /\ tokens \o fresh \in Seq(Token)
          /\ Len(tokens \o fresh) = Len(tokens) + Len(fresh)
          /\ \A i \in 1 .. Len(tokens) + Len(fresh) :
               (tokens \o fresh)[i] = IF i <= Len(tokens) THEN tokens[i] ELSE fresh[i - Len(tokens)]
      BY <1>1, <1>3, ConcatProperties
    <2>2. n = Len(tokens)
      BY DEF n
    <2> QED
      BY <1>3, <1>5, <2>1, <2>2
  <1>7. DOMAIN new = 1 .. n + m
    BY <1>6, LenProperties
  <1>8. \A t \in DOMAIN tokens : new[t] = tokens[t]
    BY <1>1, <1>6 DEF m
  <1>9. \A i \in 1 .. m : new[n + i].gateway = e /\ new[n + i].at = targets[i] /\ new[n + i].status = "ACTIVE"
    <2>1. ASSUME NEW i \in 1 .. m PROVE n + i \in 1 .. n + m /\ ~(n + i <= n) /\ (n + i) - n = i
      BY <1>1 DEF m
    <2>2. \A i \in 1 .. m : new[n + i] = fresh[i]
      BY <1>6, <2>1
    <2> QED
      BY <1>4, <2>2
  <1>10. /\ branches \in Seq(Branch) /\ DOMAIN branches = 1 .. m /\ Len(branches) = m
         /\ \A i \in 1 .. m : branches[i] = [to |-> targets[i], token |-> n + i]
    <2>1. branches = [i \in 1 .. m |-> [to |-> targets[i], token |-> n + i]]
      BY DEF Branches, branches, n, m
    <2>2. branches \in [1 .. m -> Branch]
      BY <1>1, <1>2, <2>1 DEF Branch, m
    <2>3. branches \in Seq(Branch) /\ DOMAIN branches = 1 .. m
      BY <2>2, SeqDef DEF m
    <2>4. Len(branches) = m
      BY <2>3, LenProperties DEF m
    <2> QED
      BY <2>1, <2>3, <2>4
  <1>11. branches # <<>> /\ 1 \in 1 .. m
    BY <1>10, EmptySeq DEF m
  <1>12. Head(branches).to = targets[1] /\ Head(branches).token = n + 1
    <2>1. Head(branches) = branches[1]
      BY <1>10, <1>11, HeadTailProperties
    <2> QED
      BY <1>10, <1>11, <2>1
  <1>13. /\ rest \in Seq(Branch) /\ Len(rest) = m - 1
         /\ \A k \in 1 .. Len(rest) : rest[k] = branches[k + 1]
    BY <1>10, <1>11, HeadTailProperties DEF rest
  <1>14. DOMAIN rest = 1 .. m - 1
    BY <1>13, LenProperties
  <1>15. \A k \in DOMAIN rest : k + 1 \in DOMAIN targets /\ rest[k].to = targets[k + 1] /\ rest[k].token = n + (k + 1)
    <2>1. ASSUME NEW k \in 1 .. m - 1 PROVE k + 1 \in 1 .. m
      BY DEF m
    <2>2. \A k \in DOMAIN rest : k + 1 \in 1 .. m /\ rest[k] = branches[k + 1]
      BY <1>13, <1>14, <2>1
    <2>3. \A k \in DOMAIN rest : rest[k].to = targets[k + 1] /\ rest[k].token = n + (k + 1)
      BY <1>10, <2>2
    <2> QED
      BY <2>2, <2>3 DEF m
  <1> QED
    BY <1>6, <1>7, <1>8, <1>9, <1>12, <1>13, <1>14, <1>15 DEF n, m, new, branches, rest

\* A fork lets go of the token it was reached with and carries new ones.
LEMMA ForkStep ==
  ASSUME IInv, NEW p \in Requests, Fork(p)
  PROVE  Kept(p)
  <1> DEFINE s == stack[p]
             e == at[p]
             n == Len(tokens)
  <1>1. TypeOK
    BY DEF IInv
  <1>2. /\ pc[p] = "leave" /\ Kind[e] \in Forks /\ Targets(e) # {} /\ Walking(p) /\ (Back(p) = FALSE)
        /\ UNCHANGED <<instance, open, row, res, terminated, uprooted, torn, faults>>
    BY DEF Fork, Walking, Back, history
  <1>3. PICK targets \in Splits(e) :
          /\ tokens' = tokens \o [i \in DOMAIN targets |->
               [gateway |-> e, born |-> targets[i], at |-> targets[i], status |-> "ACTIVE"]]
          /\ Push(p, [call |-> "fork", rest |-> Tail(Branches(targets, n)), res |-> "going", row |-> row[p]])
          /\ RunTo(p, Head(Branches(targets, n)).to, Head(Branches(targets, n)).token)
    BY DEF Fork
  <1> DEFINE branches == Branches(targets, n)
             b == Head(branches)
             rest == Tail(branches)
             f == [call |-> "fork", rest |-> rest, res |-> "going", row |-> row[p]]
             r == <<f>> \o s
             m == Len(targets)
  <1>4. /\ e \in Elements /\ RunOK(e, token[p], s) /\ Reached(e, Inside(s, 1))
        /\ row[p].status # "NONE" /\ StandsAt(token[p], e) /\ Going(p)
        /\ token[p] # NoToken => token[p] \in Usable(p)
    BY <1>2, WalksOn
  <1>5. /\ s \in Seq(Frame) /\ StackOK(s) /\ WalkOK(p) /\ CarryOK(p)
        /\ row[p] \in Row /\ n \in Nat /\ DOMAIN tokens = 1 .. n
        /\ Held(p) \subseteq DOMAIN tokens \cup {NoToken}
    BY Types
  <1>6. /\ targets \in Seq(Elements) /\ m \in Nat \ {0} /\ DOMAIN targets = 1 .. m
        /\ \A i \in DOMAIN targets : targets[i] \in Targets(e)
    BY <1>2, <1>4, SplitsTake
  <1>7. /\ tokens' \in Seq(Token) /\ DOMAIN tokens' = 1 .. n + m
        /\ \A t \in DOMAIN tokens : tokens'[t] = tokens[t]
        /\ \A i \in 1 .. m : /\ tokens'[n + i].gateway = e /\ tokens'[n + i].at = targets[i]
                             /\ tokens'[n + i].status = "ACTIVE"
        /\ b.to = targets[1] /\ b.token = n + 1
        /\ rest \in Seq(Branch) /\ DOMAIN rest = 1 .. m - 1
        /\ \A k \in DOMAIN rest : k + 1 \in 1 .. m /\ rest[k].to = targets[k + 1] /\ rest[k].token = n + (k + 1)
    <2>1. tokens' = tokens \o Made(e, targets)
      BY <1>3 DEF Made
    <2>2. LET new == tokens \o Made(e, targets)
              bs == Branches(targets, Len(tokens))
              rs == Tail(bs)
          IN
          /\ new \in Seq(Token) /\ DOMAIN new = 1 .. Len(tokens) + Len(targets)
          /\ \A t \in DOMAIN tokens : new[t] = tokens[t]
          /\ \A i \in DOMAIN targets : /\ new[Len(tokens) + i].gateway = e
                                      /\ new[Len(tokens) + i].at = targets[i]
                                      /\ new[Len(tokens) + i].status = "ACTIVE"
          /\ Head(bs).to = targets[1] /\ Head(bs).token = Len(tokens) + 1
          /\ rs \in Seq(Branch) /\ DOMAIN rs = 1 .. Len(targets) - 1
          /\ \A k \in DOMAIN rs : /\ k + 1 \in DOMAIN targets
                                 /\ rs[k].to = targets[k + 1] /\ rs[k].token = Len(tokens) + (k + 1)
      BY <1>2, <1>4, <1>6, Forked
    <2> QED
      BY <1>6, <2>1, <2>2
  <1>8. /\ pc' = [pc EXCEPT ![p] = "enter"] /\ at' = [at EXCEPT ![p] = targets[1]]
        /\ token' = [token EXCEPT ![p] = n + 1] /\ stack' = [stack EXCEPT ![p] = r]
    <2>1. /\ Push(p, [call |-> "fork", rest |-> rest, res |-> "going", row |-> row[p]])
          /\ RunTo(p, b.to, b.token)
      BY <1>3
    <2> HIDE DEF rest, b
    <2> QED
      BY <1>7, <2>1 DEF Push, RunTo, Goto
  <1> HIDE DEF branches, b, rest
  <1>9. f \in Frame
    <2>1. f \in [call: {"fork"}, rest: Seq(Branch), res: Results, row: Row]
      BY <1>5, <1>7 DEF Results
    <2> QED
      BY <2>1 DEF Frame
  <1>10. OnTop(r, s) /\ r[1] = f
    BY <1>5, <1>9, PushAt
  <1>11. f.call = "fork" /\ f.rest = rest /\ f.res = "going" /\ f.row = row[p]
    OBVIOUS
  <1> HIDE DEF f, r, n, m
  <1>12. /\ pc'[p] = "enter" /\ at'[p] = targets[1] /\ token'[p] = n + 1 /\ stack'[p] = r /\ OwnLocals(p)
    BY <1>1, <1>2, <1>8 DEF OwnLocals, TypeOK
  <1>13. \A i \in 1 .. m : /\ n + i \in DOMAIN tokens' /\ n + i \notin DOMAIN tokens /\ n + i # NoToken
                           /\ targets[i] \in Elements /\ Reached(targets[i], Inside(s, 1))
    <2>1. \A i \in 1 .. m : targets[i] \in Elements /\ (e \in Inner <=> targets[i] \in Inner) /\ targets[i] \in Targets(e)
      BY <1>4, <1>6, ElementKinds
    <2>2. \A i \in 1 .. m : Reached(targets[i], Inside(s, 1))
      BY <1>4, <2>1 DEF Reached
    <2>3. \A i \in 1 .. m : n + i \in DOMAIN tokens' /\ n + i \notin DOMAIN tokens /\ n + i # NoToken
      BY <1>5, <1>6, <1>7 DEF NoToken
    <2> QED
      BY <2>1, <2>2, <2>3
  <1>14. /\ FrameTokens(f) = {n + (k + 1) : k \in DOMAIN rest}
         /\ 1 \in 1 .. m /\ n + 1 \notin FrameTokens(f)
         /\ \A i \in 1 .. m : n + i \in {n + 1} \cup FrameTokens(f)
    <2>1. FrameTokens(f) = {rest[k].token : k \in DOMAIN rest}
      BY <1>11 DEF FrameTokens
    <2>2. FrameTokens(f) = {n + (k + 1) : k \in DOMAIN rest}
      BY <1>7, <2>1
    <2>3. 1 \in 1 .. m /\ n + 1 \notin FrameTokens(f)
      BY <1>5, <1>6, <1>7, <2>2
    <2>4. ASSUME NEW i \in 1 .. m, i # 1 PROVE n + i \in FrameTokens(f)
      <3>1. i - 1 \in DOMAIN rest /\ i = (i - 1) + 1
        BY <1>6, <1>7, <2>4
      <3> QED
        BY <2>2, <3>1
    <2> QED
      BY <2>2, <2>3, <2>4
  <1>15. Fresh = {n + 1} \cup FrameTokens(f)
    <2>1. \A t \in Fresh : t - n \in 1 .. m /\ t = n + (t - n)
      BY <1>5, <1>6, <1>7 DEF Fresh
    <2>2. Fresh \subseteq {n + 1} \cup FrameTokens(f)
      BY <1>14, <2>1
    <2>3. \A k \in DOMAIN rest : n + (k + 1) \in Fresh
      BY <1>7, <1>13 DEF Fresh
    <2>4. n + 1 \in Fresh
      BY <1>13, <1>14 DEF Fresh
    <2> QED
      BY <1>14, <2>2, <2>3, <2>4
  <1>16. TypeOK'
    <2>1. stack' \in [Requests -> Seq(Frame)] /\ at' \in [Requests -> Elements \cup {NoElement}]
      BY <1>1, <1>8, <1>10, <1>13, <1>14 DEF TypeOK, OnTop
    <2>2. DOMAIN tokens \subseteq DOMAIN tokens'
      BY <1>5, <1>6, <1>7
    <2>3. token' \in [Requests -> DOMAIN tokens' \cup {NoToken}]
      BY <1>1, <1>8, <1>13, <1>14, <2>2 DEF TypeOK
    <2>4. pc' \in [Requests -> {"idle", "inbox", "cancel", "enter", "leave", "join",
                                "ended", "return", "persist"}]
      BY <1>1, <1>8 DEF TypeOK
    <2> QED
      BY <1>1, <1>2, <1>7, <2>1, <2>2, <2>3, <2>4 DEF TypeOK
  <1>17. StackTokens(s) \subseteq Held(p) /\ StackTokens(s) \cap Fresh = {} /\ NoToken \notin Fresh
    <2>1. StackTokens(s) \subseteq Held(p)
      BY DEF Held
    <2>2. NoToken \notin Fresh
      BY <1>13, <1>14, <1>15, <1>7
    <2> QED
      BY <1>5, <2>1, <2>2 DEF Fresh
  <1>18. StackOK(r)
    <2>1. s # <<>> => FrameOn(f, s[1])
      BY <1>2, <1>4, <1>11 DEF RunOK, RunsOn, FrameOn
    <2>2. \A k \in DOMAIN rest :
            /\ rest[k].token # NoToken /\ Reached(rest[k].to, Inside(s, 1))
            /\ \A l \in DOMAIN rest : rest[k].token = rest[l].token => k = l
      <3>1. \A k \in DOMAIN rest : rest[k].token # NoToken /\ Reached(rest[k].to, Inside(s, 1))
        BY <1>7, <1>13
      <3>2. \A k, l \in DOMAIN rest : n + (k + 1) = n + (l + 1) => k = l
        BY <1>5, <1>6, <1>7
      <3>3. \A k \in DOMAIN rest : rest[k].token = n + (k + 1)
        BY <1>7
      <3> QED
        BY <3>1, <3>2, <3>3
    <2>3. FrameTokens(f) \cap StackTokens(s) \subseteq {NoToken}
      BY <1>15, <1>17
    <2>4. Fits(f, s)
      BY <1>4, <1>11, <2>1, <2>2, <2>3 DEF Fits
    <2> QED
      BY <1>5, <1>10, <2>4, StackOn
  <1>19. RunOK(targets[1], n + 1, r)
    <2>1. Reached(targets[1], Inside(r, 1))
      BY <1>10, <1>11, <1>13, <1>14, InsideOn DEF Reached
    <2>2. n + 1 # NoToken /\ Alone(r, 1, n + 1)
      BY <1>13, <1>14 DEF Alone
    <2>3. RunsOn(targets[1], n + 1, r[1])
      BY <1>10, <1>11, <2>2 DEF RunsOn, CarriesOn
    <2> QED
      BY <1>10, <2>1, <2>2, <2>3, OnTopFacts DEF RunOK
  <1>20. Apart(n + 1, r)
    <2>1. n + 1 \notin FrameTokens(f) \cup StackTokens(s)
      BY <1>14, <1>15, <1>17
    <2> QED
      BY <1>10, <1>11, <2>1, ApartOn
  <1>21. StandsAt(token[p], at[p])'
    BY <1>7, <1>12, <1>14 DEF StandsAt
  <1>22. AllStand(tokens', r, FALSE)
    <2>1. StandsIn(tokens', f)
      <3>1. \A k \in DOMAIN rest : tokens'[rest[k].token].at = rest[k].to
        BY <1>7
      <3> QED
        BY <1>11, <3>1 DEF StandsIn
    <2>2. AllStand(tokens, s, FALSE)
      BY <1>2, <1>5, StandsIs DEF CarryOK
    <2>3. 1 \in DOMAIN s /\ s[1].call = "followFlow" => StandsIn(tokens, s[1])
      <3>1. ASSUME 1 \in DOMAIN s, s[1].call = "followFlow" PROVE StandsIn(tokens, s[1])
        <4>1. s # <<>>
          BY <3>1
        <4>2. s[1].token = token[p]
          BY <1>4, <3>1, <4>1 DEF RunOK, RunsOn, CarriesOn
        <4> QED
          BY <1>2, <1>4, <3>1, <4>2 DEF StandsIn, StandsAt
      <3> QED
        BY <3>1
    <2>4. \A t \in StackTokens(s) \ {NoToken} : tokens'[t].at = tokens[t].at
      BY <1>5, <1>7, <1>17
    <2>5. StandAll(tokens', s)
      BY <2>2, <2>3, <2>4, StandAllKept
    <2> QED
      BY <1>10, <1>11, <2>1, <2>5, StandBack
  <1>23. Held(p)' = Fresh \cup StackTokens(s)
    <2>1. StackTokens(r) = FrameTokens(f) \cup StackTokens(s)
      BY <1>10, StackTokensOn
    <2> QED
      BY <1>12, <1>15, <2>1 DEF Held
  <1>24. Usable(p)' \subseteq Usable(p) \cup Fresh
    <2>1. Resumed(r, FALSE) = FrameTokens(f) \cup ResumedAll(s)
      BY <1>10, <1>11, ResumedFork
    <2>2. Back(p)' = FALSE
      BY <1>12 DEF Back
    <2>3. Usable(p)' = (Resumed(r, FALSE) \cup {n + 1}) \ {NoToken}
      BY <1>12, <2>2 DEF Usable
    <2>4. Usable(p) = (Resumed(s, FALSE) \cup {token[p]}) \ {NoToken}
      BY <1>2 DEF Usable
    <2>5. ASSUME NEW t \in ResumedAll(s) PROVE t \in Resumed(s, FALSE) \cup {token[p]}
      <3>1. CASE t \in Resumed(s, FALSE)
        BY <3>1
      <3>2. CASE 1 \in DOMAIN s /\ s[1].call = "followFlow" /\ t \in FrameTokens(s[1])
        <4>1. s # <<>>
          BY <3>2
        <4>2. t = token[p]
          BY <1>4, <3>2, <4>1 DEF RunOK, RunsOn, CarriesOn, FrameTokens
        <4> QED
          BY <4>2
      <3> QED
        BY <3>1, <3>2, ResumedAllLess
    <2> QED
      BY <1>15, <2>1, <2>3, <2>4, <2>5
  <1>25. Moves(p)
    <2>1. \A t \in DOMAIN tokens : tokens'[t] = tokens[t]
      BY <1>7
    <2>2. \A t \in Fresh : tokens'[t].gateway = e /\ tokens'[t].status = "ACTIVE"
      <3>1. \A t \in Fresh : t - n \in 1 .. m /\ t = n + (t - n)
        BY <1>5, <1>6, <1>7 DEF Fresh
      <3>2. \A i \in 1 .. m : tokens'[n + i].gateway = e /\ tokens'[n + i].status = "ACTIVE"
        BY <1>7
      <3> QED
        BY <3>1, <3>2
    <2>3. DOMAIN tokens \subseteq DOMAIN tokens'
      BY <1>5, <1>6, <1>7
    <2>4. OwnTokens(p)
      BY <1>2, <2>1, <2>2, <2>3 DEF OwnTokens
    <2>5. \A t \in Held(p) \ Held(p)' : Placed(t)'
      <3>1. \A t \in Held(p) \ Held(p)' : t = token[p]
        BY <1>23 DEF Held
      <3>2. token[p] # NoToken => token[p] \in DOMAIN tokens /\ Kind[tokens[token[p]].at] \in Forks
        BY <1>1, <1>2, <1>4 DEF StandsAt, TypeOK
      <3> QED
        BY <1>7, <3>1, <3>2 DEF Placed
    <2>6. OwnHands(p)
      BY <1>2, <1>17, <1>23, <1>24, <2>5 DEF OwnHands
    <2> QED
      BY <1>2, <1>12, <2>4, <2>6 DEF Moves, Clean
  <1>26. RequestOK(p)'
    <2>1. \A u \in Usable(p)' : tokens'[u].status # "CONSUMED"
      <3>1. \A u \in Usable(p) : tokens'[u].status # "CONSUMED"
        <4>1. \A u \in Usable(p) : u \in DOMAIN tokens /\ tokens[u].status # "CONSUMED"
          BY <1>5, UsableHeld DEF CarryOK
        <4> QED
          BY <1>7, <4>1
      <3>2. \A u \in Fresh : tokens'[u].status # "CONSUMED"
        <4>1. \A t \in Fresh : t - n \in 1 .. m /\ t = n + (t - n)
          BY <1>5, <1>6, <1>7 DEF Fresh
        <4>2. \A i \in 1 .. m : tokens'[n + i].status = "ACTIVE"
          BY <1>7
        <4> QED
          BY <4>1, <4>2
      <3> QED
        BY <1>24, <3>1, <3>2
    <2> QED
      BY <1>2, <1>4, <1>12, <1>16, <1>18, <1>19, <1>20, <1>21, <1>22, <1>25, <2>1, GoesOn
  <1>27. Clean' => SavedOK(stack[p])' /\ ~Completing(p)'
    <2>1. Clean' => Clean
      BY <1>2 DEF Clean
    <2>2. Clean => SavedOK(r)
      BY <1>2, <1>10, <1>11, SavedOn, WalksOn
    <2>3. Clean => row[p].status # "COMPLETED"
      BY <1>2, WalksOn DEF CompletingOK, Ending, Forks
    <2> QED
      BY <1>2, <1>12, <2>1, <2>2, <2>3 DEF Completing
  <1>28. ControlKept'
    BY <1>2, <1>4, <1>16, <1>25, <1>27, ControlQuiet DEF OpenTasks
  <1> QED
    BY <1>16, <1>25, <1>26, <1>28 DEF Kept

-----------------------------------------------------------------------------
(* The invariant *)

\* The invariant holds at first ...
LEMMA InitInv ==
  ASSUME Init
  PROVE  IInv
  <1>1. tokens = <<>> /\ DOMAIN tokens = {} /\ tokens \in Seq(Token)
    BY DEF Init
  <1>2. instance \in Row /\ instance.status = "NONE"
    BY DEF Init, Row
  <1>3. TypeOK
    <2>1. open \in [Tasks -> {"none", "open", "done"}] /\ torn \subseteq DOMAIN tokens /\ faults \in 0 .. MaxFaults
      BY TokensAssumption DEF Init, TokensAssumption
    <2>2. /\ pc \in [Requests -> {"idle", "inbox", "cancel", "enter", "leave", "join", "ended", "return", "persist"}]
          /\ row \in [Requests -> Row] /\ at \in [Requests -> Elements \cup {NoElement}]
          /\ token \in [Requests -> DOMAIN tokens \cup {NoToken}] /\ res \in [Requests -> Results]
          /\ terminated \in BOOLEAN /\ uprooted \in BOOLEAN
      BY <1>2 DEF Init, Results
    <2>3. stack \in [Requests -> Seq(Frame)]
      BY EmptyStack DEF Init
    <2> QED
      BY <1>1, <1>2, <2>1, <2>2, <2>3 DEF TypeOK
  <1>4. ASSUME NEW p \in Requests
        PROVE  /\ pc[p] = "idle" /\ stack[p] = <<>> /\ token[p] = NoToken /\ row[p].status = "NONE" /\ res[p] = "going"
               /\ Held(p) = {NoToken} /\ Usable(p) = {} /\ SavedOK(stack[p]) /\ Apart(token[p], stack[p])
    <2>1. pc[p] = "idle" /\ stack[p] = <<>> /\ token[p] = NoToken /\ row[p].status = "NONE" /\ res[p] = "going"
      BY <1>2 DEF Init
    <2> QED
      BY <2>1, Empty
  <1>5. ASSUME NEW p \in Requests PROVE StackOK(stack[p]) /\ WalkOK(p) /\ CarryOK(p)
    <2>1. StackOK(stack[p])
      BY <1>4, EmptyStack
    <2>2. WalkOK(p)
      BY <1>4 DEF WalkOK, Walking, Back
    <2>3. CarryOK(p)
      BY <1>4 DEF CarryOK
    <2> QED
      BY <2>1, <2>2, <2>3
  <1>6. TokensApart /\ ForkedByForks /\ BranchesAccounted
    BY <1>1, <1>4 DEF TokensApart, ForkedByForks, BranchesAccounted
  <1>7. ControlKept
    <2>1. OpenTasks = {}
      BY DEF Init, OpenTasks
    <2>2. \A p \in Requests : ~Going(p) /\ ~Completing(p)
      BY <1>4 DEF Going, Walking, Completing
    <2>3. OneControl
      BY <2>1, <2>2 DEF OneControl
    <2> QED
      BY <1>1, <1>2, <1>4, <2>1, <2>2, <2>3 DEF ControlKept
  <1> QED
    BY <1>3, <1>5, <1>6, <1>7 DEF IInv

\* Every step is one of some request and keeps what its lemma says.
LEMMA NextKept ==
  ASSUME IInv, Next
  PROVE  \E p \in Requests : Kept(p)
  <1>1. ASSUME NEW p \in Requests, NEW e \in Tasks, ReadTask(p, e) \/ RunJob(p, e) PROVE Kept(p)
    BY <1>1, ReadTaskStep, RunJobStep
  <1>2. ASSUME NEW p \in Requests, Start(p) \/ Cancel(p) \/ Fail(p) PROVE Kept(p)
    BY <1>2, StartStep, CancelStep, FailStep
  <1>3. ASSUME NEW p \in Requests, Proceed(p) PROVE Kept(p)
    <2>1. CASE CompleteInbox(p) \/ CancelTokens(p) \/ Enter(p) \/ Follow(p) \/ StayAtTask(p) \/ NoFlow(p) \/ Fork(p)
      BY <2>1, CompleteInboxStep, CancelTokensStep, EnterStep, FollowStep, StayAtTaskStep, NoFlowStep, ForkStep
    <2>2. CASE MarkWaiting(p) \/ CheckJoin(p) \/ Consume(p) \/ CheckEnd(p) \/ Terminate(p)
      BY <2>2, MarkWaitingStep, CheckJoinStep, ConsumeStep, CheckEndStep, TerminateStep
    <2>3. CASE ReturnHalt(p) \/ LeaveAgain(p) \/ GoOn(p) \/ Collect(p) \/ LeaveEmbedded(p) \/ EndWalk(p) \/ Persist(p)
      BY <2>3, ReturnHaltStep, LeaveAgainStep, GoOnStep, CollectStep, LeaveEmbeddedStep, EndWalkStep, PersistStep
    <2> QED
      BY <1>3, <2>1, <2>2, <2>3 DEF Proceed
  <1> QED
    BY <1>1, <1>2, <1>3 DEF Next

\* ... and every step keeps it, and leaves consumed tokens consumed.
LEMMA NextInv ==
  ASSUME IInv, [Next]_vars
  PROVE  /\ IInv'
         /\ [\A t \in DOMAIN tokens : tokens[t].status = "CONSUMED" => tokens'[t].status = "CONSUMED"]_vars
  <1>1. CASE Next
    <2>1. PICK p \in Requests : Kept(p)
      BY <1>1, NextKept
    <2>2. TypeOK' /\ Moves(p) /\ RequestOK(p)' /\ ControlKept'
      BY <2>1 DEF Kept
    <2>3. /\ (\A q \in Requests : StackOK(stack[q]) /\ WalkOK(q) /\ CarryOK(q))'
          /\ TokensApart' /\ ForkedByForks' /\ BranchesAccounted'
          /\ \A t \in DOMAIN tokens : tokens[t].status = "CONSUMED" => tokens'[t].status = "CONSUMED"
      BY <2>2, Together
    <2> QED
      BY <2>2, <2>3 DEF IInv
  <1>2. CASE UNCHANGED vars
    <2>1. UNCHANGED <<instance, open, tokens, pc, row, at, token, stack, res, terminated, uprooted, torn, faults>>
      BY <1>2 DEF vars, walk, history
    <2>2. (\A p \in Requests : StackOK(stack[p]) /\ WalkOK(p) /\ CarryOK(p))'
      <3> SUFFICES ASSUME NEW p \in Requests PROVE StackOK(stack[p])' /\ WalkOK(p)' /\ CarryOK(p)'
        OBVIOUS
      <3>1. StackOK(stack[p]) /\ WalkOK(p) /\ CarryOK(p)
        BY DEF IInv
      <3>2. (Back(p)' <=> Back(p)) /\ Back(p) \in BOOLEAN /\ Back(p)' \in BOOLEAN
        BY <2>1 DEF Back
      <3>3. Usable(p)' = Usable(p)
        BY <2>1, <3>2 DEF Usable
      <3>4. WalkOK(p)'
        BY <2>1, <3>1, <3>2 DEF WalkOK, Walking
      <3>5. CarryOK(p)'
        BY <2>1, <3>1, <3>2, <3>3 DEF CarryOK, StandsAt, Placed, FrameStands
      <3> QED
        BY <2>1, <3>1, <3>4, <3>5
    <2>3. TypeOK' /\ TokensApart' /\ ForkedByForks' /\ BranchesAccounted'
      BY <2>1 DEF IInv, TypeOK, TokensApart, Held, ForkedByForks, BranchesAccounted
    <2>4. ControlKept'
      <3>1. \A p \in Requests : Usable(p)' = Usable(p)
        BY <2>1 DEF Usable, Back
      <3>2. \A p \in Requests : (Going(p)' <=> Going(p)) /\ (Completing(p)' <=> Completing(p)) /\ (SavedOK(stack[p])' <=> SavedOK(stack[p]))
        BY <2>1 DEF Going, Walking, Completing, SavedOK
      <3>3. OpenTasks' = OpenTasks /\ Live' = Live
        BY <2>1 DEF OpenTasks, Live
      <3>4. (Stuck => Stuck') /\ (OneControl => OneControl')
        BY <3>1, <3>2, <3>3 DEF Stuck, OneControl
      <3>5. \A p \in Requests : CompletingOK(p) => CompletingOK(p)'
        BY <2>1, <3>1, <3>2, <3>3 DEF CompletingOK, Ending
      <3> QED
        BY <2>1, <3>2, <3>3, <3>4, <3>5 DEF IInv, ControlKept, Clean
    <2> QED
      BY <1>2, <2>2, <2>3, <2>4 DEF IInv
  <1> QED
    BY <1>1, <1>2

-----------------------------------------------------------------------------
(* Theorems *)

\* The inductive invariant: stacks are well formed, every call on them finds
\* its tokens where the runner left them, no token is in two hands, and control
\* of the instance is in one place.
THEOREM InvTheorem == Spec => []IInv
  BY InitInv, NextInv, PTL DEF Spec

\* The variables keep their types, whatever the definition: an element that
\* does not exist, or a token that was never made, comes up nowhere.
THEOREM TypeTheorem == Spec => []TypeOK
  <1>1. IInv => TypeOK
    BY DEF IInv
  <1> QED
    BY <1>1, InvTheorem, PTL

\* handleEndEvent completes an instance with no live token only: unless an end
\* event terminates all or a cancel took the tokens, no task of the completed
\* instance is open.
THEOREM NothingLeftTheorem == Spec => []NothingLeft
  <1>1. IInv => NothingLeft
    BY DEF IInv, ControlKept, Clean, OpenTasks, NothingLeft
  <1> QED
    BY <1>1, InvTheorem, PTL

\* handleParallelFork forgets no branch: an active token that nobody carries
\* waits at a task, at a sub-process, or where a fork took over from it, unless
\* a walk that failed dropped it.
THEOREM BranchesTheorem == Spec => []BranchesAccounted
  <1>1. IInv => BranchesAccounted
    BY DEF IInv
  <1> QED
    BY <1>1, InvTheorem, PTL

\* consume is final: no step of any request, not even one that moves tokens
\* without a look at their status, changes a consumed token's status.
THEOREM ConsumedTheorem == Spec => ConsumedForGood
  <1>1. IInv /\ [Next]_vars =>
          [\A t \in DOMAIN tokens : tokens[t].status = "CONSUMED" => tokens'[t].status = "CONSUMED"]_vars
    BY NextInv
  <1> QED
    BY <1>1, InvTheorem, PTL DEF Spec, ConsumedForGood

\* No two walks carry the same token.
THEOREM TokensApartTheorem == Spec => []TokensApart
  <1>1. IInv => TokensApart
    BY DEF IInv
  <1> QED
    BY <1>1, InvTheorem, PTL

\* A join passes in no definition: isJoinComplete counts tokens with the join
\* as their gateway and forks write themselves there, so every walk that comes
\* to a join halts at it and takes no token.
THEOREM JoinTheorem ==
  Spec => [][\A p \in Requests : CheckJoin(p) => res'[p] = "join" /\ tokens' = tokens]_vars
  <1>1. IInv /\ [Next]_vars => [\A p \in Requests : CheckJoin(p) => res'[p] = "join" /\ tokens' = tokens]_vars
    BY CheckJoinStep
  <1> QED
    BY <1>1, InvTheorem, PTL DEF Spec
=============================================================================
