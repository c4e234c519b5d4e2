------------------------ MODULE Preprocessor_proofs ------------------------
(***************************************************************************)
(* Proofs about conditional compilation in the two preprocessors: the      *)
(* stack of booleans of pass 1, and the stack of flags of the one that     *)
(* follows includes, agree with the chains of CondChain.                   *)
(***************************************************************************)
EXTENDS Pass1Standard, SvPreprocessor, SequenceTheorems, TLAPS

Branches == [directive : {"ifdef", "ifndef", "elsif", "else"}, holds : BOOLEAN]

(* An entry of pass 1, its chain, and the entry below it                   *)
LevelOk(below, here, chain) ==
  /\ chain \in Seq(Branches) /\ chain # <<>>
  /\ here => below
  /\ Plain(chain) => here = (below /\ Selected(chain))

(* The inductive invariant of PlainChainsAreExact: no chain is empty       *)
Pass1Inv ==
  /\ ifdef_stack \in Seq(BOOLEAN) /\ Len(ifdef_stack) >= 1
  /\ chains \in Seq(Seq(Branches)) /\ Len(chains) = Len(ifdef_stack)
  /\ \A i \in 2 .. Len(ifdef_stack) : LevelOk(ifdef_stack[i - 1], ifdef_stack[i], chains[i])

(* One conditional of preprocess_sv_source                                 *)
Flags == [parent_active : BOOLEAN, this_active : BOOLEAN, has_matched : BOOLEAN, chain : Seq(Branches)]
FlagsOk(state) ==
  /\ state.this_active = Selected(state.chain)
  /\ state.has_matched = \E j \in DOMAIN state.chain : state.chain[j].holds
StackOk(stack) ==
  /\ stack \in Seq(Flags) /\ Len(stack) >= 1
  /\ \A i \in 2 .. Len(stack) : /\ FlagsOk(stack[i]) /\ stack[i].chain # <<>>
                                /\ stack[i].parent_active = IsActive(stack[i - 1])

(* The inductive invariant of BranchesAreExclusive: every running call has *)
(* a conditional stack of that kind                                        *)
Running == [file : File, pos : Nat, ifdef_stack : Seq(Flags)]
IncludeInv ==
  /\ calls \in Seq(Running)
  /\ \A c \in 1 .. Len(calls) : StackOk(calls[c].ifdef_stack)

----------------------------------------------------------------------------
(* The top of a stack: taken off, and replaced                             *)
LEMMA TopOff ==
  ASSUME NEW S, NEW s \in Seq(S), Len(s) >= 1
  PROVE  /\ Front(s) \in Seq(S) /\ Len(Front(s)) = Len(s) - 1
         /\ \A i \in 1 .. Len(s) - 1 : Front(s)[i] = s[i]
         /\ Last(s) \in S /\ Last(s) = s[Len(s)]
<1>1. Len(s) \in Nat /\ \A i \in 1 .. Len(s) : s[i] \in S
  OBVIOUS
<1>0. PICK n \in Nat : n = Len(s) - 1
  BY <1>1
<1>2. /\ Front(s) \in Seq(S) /\ Len(Front(s)) = n
      /\ \A i \in 1 .. n : Front(s)[i] = s[i]
  <2>0. Front(s) = SubSeq(s, 1, n)
    BY <1>0 DEF Front
  <2>1. \A i \in 1 .. n : s[i] \in S
    BY <1>0, <1>1
  <2>2. /\ SubSeq(s, 1, n) \in Seq(S) /\ Len(SubSeq(s, 1, n)) = n
        /\ \A i \in 1 .. n : SubSeq(s, 1, n)[i] = s[i]
    BY <2>1, <1>0, <1>1
  <2> QED BY <2>0, <2>2
<1>3. Last(s) \in S /\ Last(s) = s[Len(s)]
  BY <1>1 DEF Last
<1> QED BY <1>0, <1>2, <1>3

(* The top of a stack replaced.                                            *)
LEMMA TopReplaced ==
  ASSUME NEW S, NEW s \in Seq(S), Len(s) >= 1, NEW x \in S
  PROVE  /\ Append(Front(s), x) \in Seq(S) /\ Len(Append(Front(s), x)) = Len(s)
         /\ \A i \in 1 .. Len(s) - 1 : Append(Front(s), x)[i] = s[i]
         /\ Append(Front(s), x)[Len(s)] = x
<1>1. /\ Front(s) \in Seq(S) /\ Len(Front(s)) = Len(s) - 1 /\ Len(s) \in Nat
      /\ \A i \in 1 .. Len(s) - 1 : Front(s)[i] = s[i]
  BY TopOff
<1> QED BY <1>1

(* One more on top.                                                        *)
LEMMA TopAdded ==
  ASSUME NEW S, NEW s \in Seq(S), NEW x \in S
  PROVE  /\ Append(s, x) \in Seq(S) /\ Len(Append(s, x)) = Len(s) + 1
         /\ \A i \in 1 .. Len(s) : Append(s, x)[i] = s[i]
         /\ Append(s, x)[Len(s) + 1] = x
OBVIOUS

(* The fields of a branch.                                                 *)
LEMMA BranchType ==
  ASSUME NEW d \in {"ifdef", "ifndef", "elsif", "else"}, NEW h \in BOOLEAN
  PROVE  Branch(d, h) \in Branches /\ Branch(d, h).directive = d /\ Branch(d, h).holds = h
BY DEF Branch, Branches

----------------------------------------------------------------------------
(* Pass 1.  What each directive makes of the top entry.                    *)
LEMMA OpenLevel ==
  ASSUME NEW b \in BOOLEAN, NEW h \in BOOLEAN, NEW d \in {"ifdef", "ifndef"}
  PROVE  LevelOk(b, b /\ h, <<Branch(d, h)>>)
<1> DEFINE c == <<Branch(d, h)>>
<1>1. c \in Seq(Branches) /\ Len(c) = 1 /\ c # <<>> /\ c[1] = Branch(d, h)
  BY BranchType
<1>2. c[1].holds <=> h
  BY <1>1, BranchType
<1> HIDE DEF c
<1>3. Selected(c) <=> h
  BY <1>1, <1>2 DEF Selected
<1> QED BY <1>1, <1>3 DEF LevelOk, c

(* What `else makes of a level: the other branch of a plain chain.         *)
LEMMA ElseLevel ==
  ASSUME NEW b \in BOOLEAN, NEW here \in BOOLEAN, NEW c, LevelOk(b, here, c)
  PROVE  LevelOk(b, b /\ ~here, Append(c, Branch("else", TRUE)))
<1>9. c \in Seq(Branches) /\ c # <<>>
  BY DEF LevelOk
<1>1. c \in Seq(Branches) /\ Len(c) \in Nat /\ Len(c) >= 1 /\ DOMAIN c = 1 .. Len(c)
  BY <1>9, EmptySeq
<1>8. Branch("else", TRUE) \in Branches /\ Branch("else", TRUE).holds = TRUE
  BY BranchType
<1>0. PICK e \in Branches : e = Branch("else", TRUE) /\ e.holds
  BY <1>8, Zenon
<1> DEFINE n == Append(c, e)
<1>2. /\ n \in Seq(Branches) /\ Len(n) = Len(c) + 1 /\ n[Len(c) + 1] = e
      /\ \A i \in 1 .. Len(c) : n[i] = c[i]
  BY <1>1, TopAdded
<1>3. n[Len(n)].holds
  BY <1>0, <1>2
<1> HIDE DEF n
<1>4. ASSUME Plain(n) PROVE (b /\ ~here) = (b /\ Selected(n))
  <2>0. Len(n) <= 2
    BY <1>4 DEF Plain
  <2>1. Len(c) = 1 /\ Len(n) = 2 /\ n[1] = c[1]
    BY <1>1, <1>2, <2>0
  <2>6. DOMAIN n = 1 .. 2 /\ DOMAIN c = 1 .. 1
    BY <1>1, <1>2, <2>1
  <2>2. Plain(c)
    BY <1>4, <2>1, <2>6 DEF Plain
  <2>3. here = (b /\ Selected(c))
    BY <2>2 DEF LevelOk
  <2>4. Selected(c) <=> c[1].holds
    BY <2>1 DEF Selected
  <2>5. Selected(n) <=> ~c[1].holds
    BY <2>1, <1>3 DEF Selected
  <2> QED BY <2>3, <2>4, <2>5
<1>5. n # <<>>
  BY <1>2
<1> QED BY <1>0, <1>2, <1>4, <1>5 DEF LevelOk, n

(* What `elsif makes of a level: its chain is not plain any more.          *)
LEMMA ElsifLevel ==
  ASSUME NEW b \in BOOLEAN, NEW h \in BOOLEAN, NEW c \in Seq(Branches)
  PROVE  LevelOk(b, b /\ h, Append(c, Branch("elsif", h)))
<1> DEFINE n == Append(c, Branch("elsif", h))
<1>1. n \in Seq(Branches) /\ Len(n) = Len(c) + 1 /\ n[Len(n)].directive = "elsif"
  BY BranchType, TopAdded
<1>2. ~Plain(n)
  BY <1>1 DEF Plain
<1>3. n # <<>>
  BY <1>1
<1> QED BY <1>1, <1>2, <1>3 DEF LevelOk

(* Before `else, `elsif and `endif the stack may be at its bottom entry;   *)
(* LastOf is then true.                                                    *)
LEMMA LastOfIs ==
  ASSUME NEW s \in Seq(BOOLEAN)
  PROVE  LastOf(s) \in BOOLEAN /\ (Len(s) >= 1 => LastOf(s) = s[Len(s)])
<1>1. CASE s = <<>>
  BY <1>1 DEF LastOf
<1>2. CASE s # <<>>
  <2>1. Len(s) >= 1 /\ Len(s) \in Nat
    BY <1>2, EmptySeq
  <2>2. Last(s) \in BOOLEAN /\ Last(s) = s[Len(s)]
    BY <2>1, TopOff
  <2> QED BY <1>2, <2>2, Zenon DEF LastOf
<1> QED BY <1>1, <1>2

(* `ifdef and `ifndef put a level on top of the others.                    *)
LEMMA OpensStep ==
  ASSUME Pass1Inv, NEW d \in {"ifdef", "ifndef"}, NEW h \in BOOLEAN, Opens(d, h)
  PROVE  Pass1Inv'
<1>0. /\ ifdef_stack \in Seq(BOOLEAN) /\ Len(ifdef_stack) >= 1 /\ Len(ifdef_stack) \in Nat
      /\ chains \in Seq(Seq(Branches)) /\ Len(chains) = Len(ifdef_stack)
      /\ \A i \in 2 .. Len(ifdef_stack) : LevelOk(ifdef_stack[i - 1], ifdef_stack[i], chains[i])
  BY DEF Pass1Inv
<1>1. PICK n \in Nat : n = Len(ifdef_stack)
  BY <1>0
<1>2. PICK b \in BOOLEAN : b = LastOf(ifdef_stack)
  BY <1>0, LastOfIs
<1>3. b = ifdef_stack[n]
  BY <1>0, <1>1, <1>2, LastOfIs
<1>4. PICK c : c = <<Branch(d, h)>>
  OBVIOUS
<1>5. LevelOk(b, b /\ h, c)
  BY <1>4, OpenLevel
<1>6. c \in Seq(Branches)
  BY <1>5 DEF LevelOk
<1>10. PICK x \in BOOLEAN : x = (b /\ h)
  OBVIOUS
<1>7. ifdef_stack' = Append(ifdef_stack, x) /\ chains' = Append(chains, c)
  BY <1>2, <1>4, <1>10 DEF Opens
<1>8. /\ ifdef_stack' \in Seq(BOOLEAN) /\ Len(ifdef_stack') = n + 1 /\ ifdef_stack'[n + 1] = x
      /\ \A i \in 1 .. n : ifdef_stack'[i] = ifdef_stack[i]
  BY <1>0, <1>1, <1>7, TopAdded
<1>9. /\ chains' \in Seq(Seq(Branches)) /\ Len(chains') = n + 1 /\ chains'[n + 1] = c
      /\ \A i \in 1 .. n : chains'[i] = chains[i]
  BY <1>0, <1>1, <1>6, <1>7, TopAdded
<1>11. LevelOk(b, x, c)
  BY <1>5, <1>10
<1>12. ASSUME NEW i \in 2 .. n + 1 PROVE LevelOk(ifdef_stack'[i - 1], ifdef_stack'[i], chains'[i])
  <2>1. CASE i = n + 1
    <3>1. n \in 1 .. n /\ i - 1 = n
      BY <2>1, <1>0, <1>1
    <3>2. ifdef_stack'[i - 1] = b /\ ifdef_stack'[i] = x /\ chains'[i] = c
      BY <2>1, <3>1, <1>3, <1>8, <1>9
    <3> QED BY <3>2, <1>11, Zenon
  <2>2. CASE i # n + 1
    <3>1. i \in 2 .. n /\ i \in 1 .. n /\ i - 1 \in 1 .. n
      BY <2>2
    <3>2. LevelOk(ifdef_stack[i - 1], ifdef_stack[i], chains[i])
      BY <3>1, <1>0, <1>1
    <3>3. /\ ifdef_stack'[i - 1] = ifdef_stack[i - 1] /\ ifdef_stack'[i] = ifdef_stack[i]
          /\ chains'[i] = chains[i]
      BY <3>1, <1>8, <1>9
    <3> QED BY <3>2, <3>3, Zenon
  <2> QED BY <2>1, <2>2
<1> QED BY <1>0, <1>1, <1>8, <1>9, <1>12 DEF Pass1Inv

(* A level replaced by another, at the top.                                *)
LEMMA ReplaceStep ==
  ASSUME Pass1Inv, NEW x \in BOOLEAN, NEW c \in Seq(Branches),
         ifdef_stack' = Append(Front(ifdef_stack), x), chains' = Append(Front(chains), c),
         Len(ifdef_stack) >= 2 => LevelOk(ifdef_stack[Len(ifdef_stack) - 1], x, c)
  PROVE  Pass1Inv'
<1>0. /\ ifdef_stack \in Seq(BOOLEAN) /\ Len(ifdef_stack) >= 1 /\ Len(ifdef_stack) \in Nat
      /\ chains \in Seq(Seq(Branches)) /\ Len(chains) = Len(ifdef_stack)
      /\ \A i \in 2 .. Len(ifdef_stack) : LevelOk(ifdef_stack[i - 1], ifdef_stack[i], chains[i])
  BY DEF Pass1Inv
<1>1. PICK n \in Nat : n = Len(ifdef_stack)
  BY <1>0
<1>6. /\ Append(Front(ifdef_stack), x) \in Seq(BOOLEAN)
      /\ Len(Append(Front(ifdef_stack), x)) = Len(ifdef_stack)
      /\ \A i \in 1 .. Len(ifdef_stack) - 1 : Append(Front(ifdef_stack), x)[i] = ifdef_stack[i]
      /\ Append(Front(ifdef_stack), x)[Len(ifdef_stack)] = x
  <2>1. ifdef_stack \in Seq(BOOLEAN) /\ Len(ifdef_stack) >= 1
    BY <1>0
  <2> QED BY <2>1, TopReplaced
<1>2. /\ ifdef_stack' \in Seq(BOOLEAN) /\ Len(ifdef_stack') = n /\ ifdef_stack'[n] = x
      /\ \A i \in 1 .. n - 1 : ifdef_stack'[i] = ifdef_stack[i]
  BY <1>0, <1>1, <1>6
<1>5. /\ Append(Front(chains), c) \in Seq(Seq(Branches))
      /\ Len(Append(Front(chains), c)) = Len(chains)
      /\ \A i \in 1 .. Len(chains) - 1 : Append(Front(chains), c)[i] = chains[i]
      /\ Append(Front(chains), c)[Len(chains)] = c
  <2>1. chains \in Seq(Seq(Branches)) /\ Len(chains) >= 1
    BY <1>0
  <2> QED BY <2>1, TopReplaced
<1>3. /\ chains' \in Seq(Seq(Branches)) /\ Len(chains') = n /\ chains'[n] = c
      /\ \A i \in 1 .. n - 1 : chains'[i] = chains[i]
  BY <1>0, <1>1, <1>5
<1>4. ASSUME NEW i \in 2 .. n PROVE LevelOk(ifdef_stack'[i - 1], ifdef_stack'[i], chains'[i])
  <2>1. CASE i = n
    <3>1. n - 1 \in 1 .. n - 1 /\ n >= 2
      BY <2>1, <1>0, <1>1
    <3>3. LevelOk(ifdef_stack[n - 1], x, c)
      BY <1>1, <3>1
    <3>2. ifdef_stack'[i - 1] = ifdef_stack[n - 1] /\ ifdef_stack'[i] = x /\ chains'[i] = c
      BY <2>1, <3>1, <1>2, <1>3
    <3> QED BY <3>2, <3>3, Zenon
  <2>2. CASE i # n
    <3>1. i \in 2 .. n /\ i \in 1 .. n - 1 /\ i - 1 \in 1 .. n - 1
      BY <2>2
    <3>2. LevelOk(ifdef_stack[i - 1], ifdef_stack[i], chains[i])
      BY <3>1, <1>0, <1>1
    <3>3. /\ ifdef_stack'[i - 1] = ifdef_stack[i - 1] /\ ifdef_stack'[i] = ifdef_stack[i]
          /\ chains'[i] = chains[i]
      BY <3>1, <1>2, <1>3
    <3> QED BY <3>2, <3>3, Zenon
  <2> QED BY <2>1, <2>2
<1> QED BY <1>0, <1>1, <1>2, <1>3, <1>4 DEF Pass1Inv

(* The entry below the top, as `elsif looks it up.                         *)
LEMMA BelowTop ==
  ASSUME NEW s \in Seq(BOOLEAN), Len(s) >= 1
  PROVE  /\ LastOf(Front(s)) \in BOOLEAN
         /\ Len(s) >= 2 => LastOf(Front(s)) = s[Len(s) - 1] /\ Last(Front(s)) = s[Len(s) - 1]
<1>1. PICK t \in Seq(BOOLEAN) : t = Front(s)
  BY TopOff
<1>2. /\ Len(t) = Len(s) - 1 /\ Len(s) \in Nat
      /\ \A i \in 1 .. Len(s) - 1 : t[i] = s[i]
  BY <1>1, TopOff
<1>3. LastOf(t) \in BOOLEAN /\ (Len(t) >= 1 => LastOf(t) = t[Len(t)])
  BY LastOfIs
<1>4. Len(t) >= 1 => Last(t) = t[Len(t)]
  BY TopOff
<1> QED BY <1>1, <1>2, <1>3, <1>4

(* `elsif: the chain is no longer a plain one.                             *)
LEMMA Pass1ElsifStep ==
  ASSUME Pass1Inv, NEW m, Pass1Elsif(m)
  PROVE  Pass1Inv'
<1>0. /\ ifdef_stack \in Seq(BOOLEAN) /\ Len(ifdef_stack) >= 1 /\ Len(ifdef_stack) \in Nat
      /\ chains \in Seq(Seq(Branches)) /\ Len(chains) = Len(ifdef_stack)
  BY DEF Pass1Inv
<1>12. (m \in pass1_defines) \in BOOLEAN
  OBVIOUS
<1>1. PICK h \in BOOLEAN : h = (m \in pass1_defines)
  BY <1>12, Zenon
<1>2. PICK b \in BOOLEAN : b = LastOf(Front(ifdef_stack))
  BY <1>0, BelowTop
<1>3. Len(ifdef_stack) >= 2 => b = ifdef_stack[Len(ifdef_stack) - 1]
  BY <1>0, <1>2, BelowTop
<1>9. Len(chains) >= 1
  BY <1>0
<1>4. PICK c \in Seq(Branches) : c = Last(chains)
  BY <1>0, <1>9, TopOff
<1>5. PICK d : d = Append(c, Branch("elsif", h))
  OBVIOUS
<1>6. LevelOk(b, b /\ h, d)
  BY <1>5, ElsifLevel
<1>7. d \in Seq(Branches)
  BY <1>6 DEF LevelOk
<1>10. PICK x \in BOOLEAN : x = (b /\ h)
  OBVIOUS
<1>8. ifdef_stack' = Append(Front(ifdef_stack), x) /\ chains' = Append(Front(chains), d)
  BY <1>1, <1>2, <1>4, <1>5, <1>10 DEF Pass1Elsif, Continued
<1>11. Len(ifdef_stack) >= 2 => LevelOk(ifdef_stack[Len(ifdef_stack) - 1], x, d)
  BY <1>3, <1>6, <1>10
<1> QED BY <1>7, <1>8, <1>11, ReplaceStep

(* `else: flipping the entry selects the other branch of a plain chain.    *)
LEMMA Pass1ElseStep ==
  ASSUME Pass1Inv, Pass1Else
  PROVE  Pass1Inv'
<1>0. /\ ifdef_stack \in Seq(BOOLEAN) /\ Len(ifdef_stack) >= 1 /\ Len(ifdef_stack) \in Nat
      /\ chains \in Seq(Seq(Branches)) /\ Len(chains) = Len(ifdef_stack)
      /\ \A i \in 2 .. Len(ifdef_stack) : LevelOk(ifdef_stack[i - 1], ifdef_stack[i], chains[i])
  BY DEF Pass1Inv
<1>1. CASE Len(ifdef_stack) < 2
  <2>2. ~(Len(ifdef_stack) >= 2)
    BY <1>0, <1>1
  <2>1. ifdef_stack' = ifdef_stack /\ chains' = chains
    BY <2>2, Zenon DEF Pass1Else
  <2> QED BY <2>1 DEF Pass1Inv
<1>2. CASE Len(ifdef_stack) >= 2
  <2>1. PICK n \in Nat : n = Len(ifdef_stack) /\ n >= 2
    BY <1>0, <1>2
  <2>2. PICK b \in BOOLEAN : b = ifdef_stack[n - 1]
    BY <1>0, <2>1
  <2>3. PICK here \in BOOLEAN : here = ifdef_stack[n]
    BY <1>0, <2>1
  <2>4. Last(Front(ifdef_stack)) = b /\ Last(ifdef_stack) = here
    BY <1>0, <2>1, <2>2, <2>3, BelowTop, TopOff
  <2>9. Len(chains) >= 1 /\ Len(chains) = n
    BY <1>0, <2>1
  <2>5. PICK c \in Seq(Branches) : c = Last(chains) /\ c = chains[n]
    BY <1>0, <2>9, TopOff
  <2>6. LevelOk(b, here, c)
    BY <1>0, <2>1, <2>2, <2>3, <2>5
  <2>7. PICK d : d = Append(c, Branch("else", TRUE))
    OBVIOUS
  <2>8. LevelOk(b, b /\ ~here, d)
    BY <2>6, <2>7, ElseLevel
  <2>10. d \in Seq(Branches)
    BY <2>8 DEF LevelOk
  <2>11. PICK x \in BOOLEAN : x = (b /\ ~here)
    OBVIOUS
  <2>12. ifdef_stack' = Append(Front(ifdef_stack), x) /\ chains' = Append(Front(chains), d)
    BY <1>2, <2>4, <2>5, <2>7, <2>11 DEF Pass1Else, Flipped, Continued
  <2>13. Len(ifdef_stack) >= 2 => LevelOk(ifdef_stack[Len(ifdef_stack) - 1], x, d)
    BY <2>1, <2>2, <2>8, <2>11
  <2> QED BY <2>10, <2>12, <2>13, ReplaceStep
<1> QED BY <1>0, <1>1, <1>2

(* `endif: the levels below are as they were.                              *)
LEMMA Pass1EndifStep ==
  ASSUME Pass1Inv, Pass1Endif
  PROVE  Pass1Inv'
<1>0. /\ ifdef_stack \in Seq(BOOLEAN) /\ Len(ifdef_stack) >= 1 /\ Len(ifdef_stack) \in Nat
      /\ chains \in Seq(Seq(Branches)) /\ Len(chains) = Len(ifdef_stack)
      /\ \A i \in 2 .. Len(ifdef_stack) : LevelOk(ifdef_stack[i - 1], ifdef_stack[i], chains[i])
  BY DEF Pass1Inv
<1>1. CASE Len(ifdef_stack) = 1
  <2>1. ifdef_stack' = <<TRUE>> /\ chains' = << <<>> >>
    BY <1>1 DEF Pass1Endif
  <2>2. <<>> \in Seq(Branches)
    OBVIOUS
  <2>3. /\ ifdef_stack' \in Seq(BOOLEAN) /\ Len(ifdef_stack') = 1
        /\ chains' \in Seq(Seq(Branches)) /\ Len(chains') = 1
    BY <2>1, <2>2
  <2> QED BY <2>3 DEF Pass1Inv
<1>2. CASE Len(ifdef_stack) # 1
  <2>1. ifdef_stack' = Front(ifdef_stack) /\ chains' = Front(chains)
    BY <1>2 DEF Pass1Endif
  <2>6. Len(ifdef_stack) - 1 \in Nat /\ Len(ifdef_stack) - 1 >= 1
    BY <1>0, <1>2
  <2>2. PICK n \in Nat : n = Len(ifdef_stack) - 1 /\ n >= 1
    BY <2>6, Zenon
  <2>3. /\ ifdef_stack' \in Seq(BOOLEAN) /\ Len(ifdef_stack') = n
        /\ \A i \in 1 .. n : ifdef_stack'[i] = ifdef_stack[i]
    BY <1>0, <2>1, <2>2, TopOff
  <2>4. /\ chains' \in Seq(Seq(Branches)) /\ Len(chains') = n
        /\ \A i \in 1 .. n : chains'[i] = chains[i]
    <3>1. Len(chains) >= 1 /\ Len(chains) - 1 = n
      BY <1>0, <2>2
    <3> QED BY <1>0, <3>1, <2>1, TopOff
  <2>5. ASSUME NEW i \in 2 .. n PROVE LevelOk(ifdef_stack'[i - 1], ifdef_stack'[i], chains'[i])
    <3>1. i \in 2 .. Len(ifdef_stack) /\ i \in 1 .. n /\ i - 1 \in 1 .. n
      BY <2>2
    <3>2. LevelOk(ifdef_stack[i - 1], ifdef_stack[i], chains[i])
      BY <3>1, <1>0
    <3>3. /\ ifdef_stack'[i - 1] = ifdef_stack[i - 1] /\ ifdef_stack'[i] = ifdef_stack[i]
          /\ chains'[i] = chains[i]
      BY <3>1, <2>3, <2>4
    <3> QED BY <3>2, <3>3, Zenon
  <2> QED BY <2>2, <2>3, <2>4, <2>5 DEF Pass1Inv
<1> QED BY <1>1, <1>2

(* Every line of the text keeps the stack of pass 1 and the chains in      *)
(* agreement.                                                              *)
LEMMA Pass1Step ==
  ASSUME Pass1Inv, Pass1Next
  PROVE  Pass1Inv'
<1>1. ASSUME NEW m, Pass1Ifdef(m) PROVE Pass1Inv'
  <2>1. (m \in pass1_defines) \in BOOLEAN
    OBVIOUS
  <2>2. PICK h \in BOOLEAN : h = (m \in pass1_defines)
    BY <2>1, Zenon
  <2>3. Opens("ifdef", h)
    BY <1>1, <2>2, Zenon DEF Pass1Ifdef
  <2> QED BY <2>3, OpensStep
<1>2. ASSUME NEW m, Pass1Ifndef(m) PROVE Pass1Inv'
  <2>1. (m \notin pass1_defines) \in BOOLEAN
    OBVIOUS
  <2>2. PICK h \in BOOLEAN : h = (m \notin pass1_defines)
    BY <2>1, Zenon
  <2>3. Opens("ifndef", h)
    BY <1>2, <2>2, Zenon DEF Pass1Ifndef
  <2> QED BY <2>3, OpensStep
<1>3. ASSUME NEW m, Pass1Define(m) \/ Pass1Undef(m) \/ Pass1Text PROVE Pass1Inv'
  <2>1. ifdef_stack' = ifdef_stack /\ chains' = chains
    BY <1>3 DEF Pass1Define, Pass1Undef, Pass1Text
  <2> QED BY <2>1 DEF Pass1Inv
<1> QED BY <1>1, <1>2, <1>3, Pass1ElsifStep, Pass1ElseStep, Pass1EndifStep DEF Pass1Next

(* The one active entry run starts with.                                   *)
LEMMA Pass1Start == Pass1Init => Pass1Inv
<1> SUFFICES ASSUME Pass1Init PROVE Pass1Inv
  OBVIOUS
<1>1. ifdef_stack = <<TRUE>> /\ chains = << <<>> >>
  BY DEF Pass1Init
<1>2. <<>> \in Seq(Branches)
  OBVIOUS
<1>3. /\ ifdef_stack \in Seq(BOOLEAN) /\ Len(ifdef_stack) = 1
      /\ chains \in Seq(Seq(Branches)) /\ Len(chains) = 1
  BY <1>1, <1>2
<1> QED BY <1>3 DEF Pass1Inv

(* Pass 1 resolves every conditional without `elsif exactly, activates a   *)
(* block only inside active blocks and never empties its stack, for every  *)
(* text of any length over any macros (pass1_standard::run).               *)
THEOREM PlainChainsCorrect == Pass1Spec => []PlainChainsAreExact
<1>1. Pass1Inv /\ [Pass1Next]_pass1Vars => Pass1Inv'
  <2> SUFFICES ASSUME Pass1Inv, [Pass1Next]_pass1Vars PROVE Pass1Inv'
    OBVIOUS
  <2>1. CASE UNCHANGED pass1Vars
    BY <2>1 DEF pass1Vars, Pass1Inv
  <2> QED BY <2>1, Pass1Step
<1>2. Pass1Inv => PlainChainsAreExact
  BY DEF Pass1Inv, PlainChainsAreExact, LevelOk
<1> QED BY <1>1, <1>2, Pass1Start, PTL DEF Pass1Spec

----------------------------------------------------------------------------
(* Includes.  A chain that goes on is in its new branch when that holds    *)
(* and none of the earlier did.                                            *)
LEMMA ChainGrows ==
  ASSUME NEW c \in Seq(Branches), NEW e \in Branches
  PROVE  /\ Append(c, e) \in Seq(Branches) /\ Append(c, e) # <<>>
         /\ Selected(Append(c, e)) <=> e.holds /\ ~\E j \in DOMAIN c : c[j].holds
         /\ (\E j \in DOMAIN Append(c, e) : Append(c, e)[j].holds)
              <=> e.holds \/ \E j \in DOMAIN c : c[j].holds
<1> DEFINE n == Append(c, e)
<1>1. /\ n \in Seq(Branches) /\ Len(n) = Len(c) + 1 /\ n[Len(c) + 1] = e /\ Len(c) \in Nat
      /\ \A i \in 1 .. Len(c) : n[i] = c[i]
  BY TopAdded
<1>2. DOMAIN c = 1 .. Len(c) /\ DOMAIN n = 1 .. Len(c) + 1
  BY <1>1
<1> HIDE DEF n
<1>3. n # <<>>
  BY <1>1
<1>4. Selected(n) <=> e.holds /\ ~\E j \in DOMAIN c : c[j].holds
  <2>1. Len(n) - 1 = Len(c) /\ n[Len(n)] = e
    BY <1>1
  <2> QED BY <1>1, <1>2, <1>3, <2>1 DEF Selected
<1>5. (\E j \in DOMAIN n : n[j].holds) <=> e.holds \/ \E j \in DOMAIN c : c[j].holds
  <2>1. ASSUME NEW j \in DOMAIN n, n[j].holds PROVE e.holds \/ \E k \in DOMAIN c : c[k].holds
    <3>1. CASE j = Len(c) + 1
      BY <2>1, <3>1, <1>1
    <3>2. CASE j # Len(c) + 1
      <4>1. j \in DOMAIN c /\ n[j] = c[j]
        BY <3>2, <1>1, <1>2
      <4> QED BY <2>1, <4>1
    <3> QED BY <3>1, <3>2
  <2>2. ASSUME e.holds PROVE \E j \in DOMAIN n : n[j].holds
    BY <2>2, <1>1, <1>2
  <2>3. ASSUME NEW k \in DOMAIN c, c[k].holds PROVE \E j \in DOMAIN n : n[j].holds
    BY <2>3, <1>1, <1>2
  <2> QED BY <2>1, <2>2, <2>3
<1> QED BY <1>1, <1>3, <1>4, <1>5 DEF n

(* The first branch of a chain.                                            *)
LEMMA ChainStarts ==
  ASSUME NEW e \in Branches
  PROVE  /\ <<e>> \in Seq(Branches) /\ <<e>> # <<>>
         /\ Selected(<<e>>) <=> e.holds
         /\ (\E j \in DOMAIN <<e>> : <<e>>[j].holds) <=> e.holds
<1> DEFINE c == <<e>>
<1>1. c \in Seq(Branches) /\ Len(c) = 1 /\ c # <<>> /\ c[1] = e /\ DOMAIN c = 1 .. 1
  OBVIOUS
<1> HIDE DEF c
<1>2. Selected(c) <=> e.holds
  BY <1>1 DEF Selected
<1>3. (\E j \in DOMAIN c : c[j].holds) <=> e.holds
  BY <1>1
<1> QED BY <1>1, <1>2, <1>3 DEF c

(* The conditional stack a file starts with.                               *)
LEMMA FreshStack == StackOk(<<Bottom>>)
<1>1. <<>> \in Seq(Branches)
  OBVIOUS
<1>2. PICK b \in Flags : b = Bottom
  BY <1>1 DEF Bottom, IfdefState, Flags
<1>3. <<b>> \in Seq(Flags) /\ Len(<<b>>) = 1
  OBVIOUS
<1> QED BY <1>2, <1>3 DEF StackOk

(* A level on top of a stack.                                              *)
LEMMA StackGrows ==
  ASSUME NEW s, StackOk(s), NEW f \in Flags, FlagsOk(f), f.chain # <<>>,
         f.parent_active = IsActive(Last(s))
  PROVE  StackOk(Append(s, f))
<1>0. /\ s \in Seq(Flags) /\ Len(s) >= 1 /\ Len(s) \in Nat
      /\ \A i \in 2 .. Len(s) : /\ FlagsOk(s[i]) /\ s[i].chain # <<>>
                                /\ s[i].parent_active = IsActive(s[i - 1])
  BY DEF StackOk
<1> DEFINE t == Append(s, f)
<1>1. /\ t \in Seq(Flags) /\ Len(t) = Len(s) + 1 /\ t[Len(s) + 1] = f
      /\ \A i \in 1 .. Len(s) : t[i] = s[i]
  BY <1>0, TopAdded
<1>2. Last(s) = s[Len(s)]
  BY <1>0, TopOff
<1> HIDE DEF t
<1>3. ASSUME NEW i \in 2 .. Len(t)
      PROVE  FlagsOk(t[i]) /\ t[i].chain # <<>> /\ t[i].parent_active = IsActive(t[i - 1])
  <2>1. CASE i = Len(s) + 1
    <3>1. t[i] = f /\ t[i - 1] = Last(s)
      BY <2>1, <1>0, <1>1, <1>2
    <3> QED BY <3>1
  <2>2. CASE i # Len(s) + 1
    <3>1. i \in 2 .. Len(s) /\ t[i] = s[i] /\ t[i - 1] = s[i - 1]
      BY <2>2, <1>0, <1>1
    <3> QED BY <3>1, <1>0
  <2> QED BY <2>1, <2>2
<1> QED BY <1>0, <1>1, <1>3 DEF StackOk, t

(* The level on top taken off.                                             *)
LEMMA StackShrinks ==
  ASSUME NEW s, StackOk(s), Len(s) > 1
  PROVE  StackOk(Front(s))
<1>0. /\ s \in Seq(Flags) /\ Len(s) >= 1 /\ Len(s) \in Nat
      /\ \A i \in 2 .. Len(s) : /\ FlagsOk(s[i]) /\ s[i].chain # <<>>
                                /\ s[i].parent_active = IsActive(s[i - 1])
  BY DEF StackOk
<1> DEFINE t == Front(s)
<1>1. t \in Seq(Flags) /\ Len(t) = Len(s) - 1 /\ \A i \in 1 .. Len(s) - 1 : t[i] = s[i]
  BY <1>0, TopOff
<1> HIDE DEF t
<1>3. ASSUME NEW i \in 2 .. Len(t)
      PROVE  FlagsOk(t[i]) /\ t[i].chain # <<>> /\ t[i].parent_active = IsActive(t[i - 1])
  <2>1. i \in 2 .. Len(s) /\ t[i] = s[i] /\ t[i - 1] = s[i - 1]
    BY <1>0, <1>1
  <2> QED BY <2>1, <1>0
<1>4. Len(t) >= 1
  BY <1>0, <1>1
<1> QED BY <1>1, <1>3, <1>4 DEF StackOk, t

(* The level on top replaced by one with the same surroundings; nothing is *)
(* asked of the bottom entry.                                              *)
LEMMA StackReplaced ==
  ASSUME NEW s, StackOk(s), NEW f \in Flags, f.parent_active = Last(s).parent_active,
         Len(s) > 1 => FlagsOk(f) /\ f.chain # <<>>
  PROVE  StackOk(Append(Front(s), f))
<1>0. /\ s \in Seq(Flags) /\ Len(s) >= 1 /\ Len(s) \in Nat
      /\ \A i \in 2 .. Len(s) : /\ FlagsOk(s[i]) /\ s[i].chain # <<>>
                                /\ s[i].parent_active = IsActive(s[i - 1])
  BY DEF StackOk
<1> DEFINE t == Append(Front(s), f)
<1>1. /\ t \in Seq(Flags) /\ Len(t) = Len(s) /\ t[Len(s)] = f
      /\ \A i \in 1 .. Len(s) - 1 : t[i] = s[i]
  BY <1>0, TopReplaced
<1>2. Last(s) = s[Len(s)]
  BY <1>0, TopOff
<1> HIDE DEF t
<1>3. ASSUME NEW i \in 2 .. Len(t)
      PROVE  FlagsOk(t[i]) /\ t[i].chain # <<>> /\ t[i].parent_active = IsActive(t[i - 1])
  <2>1. CASE i = Len(s)
    <3>1. t[i] = f /\ t[i - 1] = s[i - 1] /\ Len(s) > 1 /\ i \in 2 .. Len(s) /\ Last(s) = s[i]
      BY <2>1, <1>0, <1>1, <1>2
    <3>2. s[i].parent_active = IsActive(s[i - 1])
      BY <1>0, <3>1
    <3> QED BY <3>1, <3>2
  <2>2. CASE i # Len(s)
    <3>1. i \in 2 .. Len(s) /\ t[i] = s[i] /\ t[i - 1] = s[i - 1]
      BY <2>2, <1>0, <1>1
    <3> QED BY <3>1, <1>0
  <2> QED BY <2>1, <2>2
<1> QED BY <1>0, <1>1, <1>3 DEF StackOk, t

(* What an `ifdef or `ifndef pushes.                                       *)
LEMMA OpenedFlags ==
  ASSUME NEW p \in BOOLEAN, NEW h \in BOOLEAN, NEW d \in {"ifdef", "ifndef"}
  PROVE  LET f == IfdefState(p, h, h, <<Branch(d, h)>>) IN
         f \in Flags /\ FlagsOk(f) /\ f.chain # <<>> /\ f.parent_active = p
<1>1. PICK e \in Branches : e = Branch(d, h) /\ e.holds = h
  BY BranchType
<1>2. PICK c \in Seq(Branches) : c = <<e>>
  BY ChainStarts
<1>3. c # <<>> /\ (Selected(c) <=> h) /\ ((\E j \in DOMAIN c : c[j].holds) <=> h)
  BY <1>1, <1>2, ChainStarts
<1> DEFINE f == IfdefState(p, h, h, c)
<1>4. f \in Flags
  BY DEF IfdefState, Flags
<1>5. f.parent_active = p /\ f.this_active = h /\ f.has_matched = h /\ f.chain = c
  BY DEF IfdefState
<1> HIDE DEF f
<1>8. f.this_active = Selected(f.chain)
  <2>1. Selected(c) \in BOOLEAN
    BY DEF Selected
  <2> QED BY <2>1, <1>3, <1>5
<1>9. f.has_matched = \E j \in DOMAIN f.chain : f.chain[j].holds
  BY <1>3, <1>5
<1>6. FlagsOk(f)
  BY <1>8, <1>9, Zenon DEF FlagsOk
<1>7. f \in Flags /\ FlagsOk(f) /\ f.chain # <<>> /\ f.parent_active = p
  BY <1>3, <1>4, <1>5, <1>6
<1> QED BY <1>1, <1>2, <1>7, Zenon DEF f

(* What an `elsif or `else makes of the entry on top.                      *)
LEMMA BranchedFlags ==
  ASSUME NEW s \in Flags, NEW h \in BOOLEAN, NEW d \in {"elsif", "else"}
  PROVE  LET f == Branched(s, d, h) IN
         /\ f \in Flags /\ f.chain # <<>> /\ f.parent_active = s.parent_active
         /\ FlagsOk(s) => FlagsOk(f)
<1>1. PICK e \in Branches : e = Branch(d, h) /\ e.holds = h
  BY BranchType
<1>2. /\ s.chain \in Seq(Branches) /\ s.has_matched \in BOOLEAN /\ s.this_active \in BOOLEAN
      /\ s.parent_active \in BOOLEAN
  BY DEF Flags
<1>3. PICK c \in Seq(Branches) : c = Append(s.chain, e)
  BY <1>2, ChainGrows
<1>4. /\ c # <<>> /\ (Selected(c) <=> h /\ ~\E j \in DOMAIN s.chain : s.chain[j].holds)
      /\ ((\E j \in DOMAIN c : c[j].holds) <=> h \/ \E j \in DOMAIN s.chain : s.chain[j].holds)
  BY <1>1, <1>2, <1>3, ChainGrows
<1> DEFINE f == [s EXCEPT !.this_active = ~s.has_matched /\ h,
                          !.has_matched = s.has_matched \/ h,
                          !.chain = c]
<1>5. Branched(s, d, h) = f
  BY <1>1, <1>3 DEF Branched
<1>6. f \in Flags
  BY <1>2 DEF Flags
<1>7. /\ f.parent_active = s.parent_active /\ f.chain = c
      /\ f.this_active <=> ~s.has_matched /\ h
      /\ f.has_matched <=> s.has_matched \/ h
  BY DEF Flags
<1>9. f.this_active \in BOOLEAN /\ f.has_matched \in BOOLEAN
  BY <1>6 DEF Flags
<1> HIDE DEF f
<1>8. ASSUME FlagsOk(s) PROVE FlagsOk(f)
  <2>1. s.has_matched <=> \E j \in DOMAIN s.chain : s.chain[j].holds
    BY <1>8, <1>2 DEF FlagsOk
  <2>2. f.this_active <=> Selected(f.chain)
    BY <2>1, <1>4, <1>7
  <2>3. f.has_matched <=> \E j \in DOMAIN f.chain : f.chain[j].holds
    BY <2>1, <1>4, <1>7
  <2>4. Selected(f.chain) \in BOOLEAN /\ (\E j \in DOMAIN f.chain : f.chain[j].holds) \in BOOLEAN
    BY DEF Selected
  <2> QED BY <2>2, <2>3, <2>4, <1>9 DEF FlagsOk
<1> QED BY <1>4, <1>5, <1>6, <1>7, <1>8

----------------------------------------------------------------------------
(* The running call and its conditional stack.                             *)
LEMMA TopCall ==
  ASSUME IncludeInv, calls # <<>>
  PROVE  /\ Len(calls) \in Nat /\ Len(calls) >= 1 /\ Current = calls[Len(calls)]
         /\ Current \in Running /\ StackOk(Stack) /\ Stack \in Seq(Flags)
<1>1. calls \in Seq(Running) /\ \A c \in 1 .. Len(calls) : StackOk(calls[c].ifdef_stack)
  BY DEF IncludeInv
<1>2. Len(calls) \in Nat /\ Len(calls) >= 1
  BY <1>1, EmptySeq
<1>3. Current = calls[Len(calls)] /\ Current \in Running
  BY <1>1, <1>2, TopOff DEF Current
<1>4. StackOk(Stack)
  BY <1>1, <1>2, <1>3 DEF Stack
<1> QED BY <1>2, <1>3, <1>4 DEF StackOk

(* The call goes on with another conditional stack.                        *)
LEMMA OnwardKeeps ==
  ASSUME IncludeInv, calls # <<>>, NEW t, StackOk(t)
  PROVE  /\ Onward(t) \in Seq(Running) /\ Len(Onward(t)) = Len(calls)
         /\ \A c \in 1 .. Len(calls) : StackOk(Onward(t)[c].ifdef_stack)
<1>1. calls \in Seq(Running) /\ \A c \in 1 .. Len(calls) : StackOk(calls[c].ifdef_stack)
  BY DEF IncludeInv
<1>2. Len(calls) \in Nat /\ Len(calls) >= 1 /\ Current = calls[Len(calls)] /\ Current \in Running
  BY TopCall
<1>3. t \in Seq(Flags)
  BY DEF StackOk
<1>4. PICK r : r = [file |-> Current.file, pos |-> Current.pos + 1, ifdef_stack |-> t]
  OBVIOUS
<1>5. r \in Running /\ r.ifdef_stack = t
  BY <1>2, <1>3, <1>4 DEF Running
<1>6. Onward(t) = [calls EXCEPT ![Len(calls)] = r]
  BY <1>2, <1>4 DEF Onward
<1>7. PICK s : s = [calls EXCEPT ![Len(calls)] = r]
  OBVIOUS
<1>8. /\ s \in Seq(Running) /\ Len(s) = Len(calls) /\ s[Len(calls)] = r
      /\ \A c \in 1 .. Len(calls) - 1 : s[c] = calls[c]
  BY <1>1, <1>2, <1>5, <1>7
<1>9. ASSUME NEW c \in 1 .. Len(calls) PROVE StackOk(s[c].ifdef_stack)
  <2>1. CASE c = Len(calls)
    BY <2>1, <1>5, <1>8
  <2>2. CASE c # Len(calls)
    <3>1. s[c] = calls[c]
      BY <2>2, <1>2, <1>8
    <3> QED BY <3>1, <1>1
  <2> QED BY <2>1, <2>2
<1> QED BY <1>6, <1>7, <1>8, <1>9

(* A step that goes on in the same call with a stack in order.             *)
LEMMA GotoStep ==
  ASSUME IncludeInv, calls # <<>>, NEW t, StackOk(t), calls' = Onward(t)
  PROVE  IncludeInv'
<1>1. /\ Onward(t) \in Seq(Running) /\ Len(Onward(t)) = Len(calls)
      /\ \A c \in 1 .. Len(calls) : StackOk(Onward(t)[c].ifdef_stack)
  BY OnwardKeeps
<1>2. calls' \in Seq(Running) /\ \A c \in 1 .. Len(calls') : StackOk(calls'[c].ifdef_stack)
  BY <1>1
<1> QED BY <1>2 DEF IncludeInv

(* `ifdef and `ifndef.                                                     *)
LEMMA OpenedStep ==
  ASSUME IncludeInv, calls # <<>>, NEW d \in {"ifdef", "ifndef"}, NEW h \in BOOLEAN,
         calls' = Onward(Append(Stack, Opened(d, h)))
  PROVE  IncludeInv'
<1>1. StackOk(Stack) /\ Stack \in Seq(Flags) /\ Len(Stack) >= 1
  BY TopCall DEF StackOk
<1>2. Last(Stack) \in Flags
  BY <1>1, TopOff
<1>3. PICK p \in BOOLEAN : p = Active /\ p = IsActive(Last(Stack))
  <2>1. Active \in BOOLEAN /\ Active = IsActive(Last(Stack))
    BY <1>2 DEF Active, IsActive, Flags
  <2> QED BY <2>1, Zenon
<1>4. PICK f : f = IfdefState(p, h, h, <<Branch(d, h)>>)
  OBVIOUS
<1>5. f \in Flags /\ FlagsOk(f) /\ f.chain # <<>> /\ f.parent_active = p
  BY <1>4, OpenedFlags, Zenon
<1>6. Opened(d, h) = f
  BY <1>3, <1>4, Zenon DEF Opened
<1>8. PICK s : s = Stack
  OBVIOUS
<1>7. StackOk(Append(s, f))
  <2>1. StackOk(s) /\ f.parent_active = IsActive(Last(s))
    BY <1>1, <1>3, <1>5, <1>8, Zenon
  <2> QED BY <2>1, <1>5, StackGrows, Zenon
<1> QED BY <1>6, <1>7, <1>8, GotoStep

(* `elsif and `else.                                                       *)
LEMMA BranchedStep ==
  ASSUME IncludeInv, calls # <<>>, NEW d \in {"elsif", "else"}, NEW h \in BOOLEAN,
         calls' = Onward(Append(Front(Stack), Branched(Last(Stack), d, h)))
  PROVE  IncludeInv'
<1>1. PICK s \in Seq(Flags) : s = Stack /\ StackOk(s) /\ Len(s) >= 1 /\ Len(s) \in Nat
  BY TopCall DEF StackOk
<1>2. PICK e \in Flags : e = Last(s) /\ e = s[Len(s)]
  BY <1>1, TopOff
<1>3. PICK f : f = Branched(e, d, h)
  OBVIOUS
<1>4. f \in Flags /\ f.chain # <<>> /\ f.parent_active = e.parent_active /\ (FlagsOk(e) => FlagsOk(f))
  BY <1>3, BranchedFlags, Zenon
<1>5. Len(s) > 1 => FlagsOk(e)
  BY <1>1, <1>2 DEF StackOk
<1>6. StackOk(Append(Front(s), f))
  BY <1>1, <1>2, <1>4, <1>5, StackReplaced
<1> QED BY <1>1, <1>2, <1>3, <1>6, GotoStep

(* `include: the new call starts with a fresh stack.                       *)
LEMMA IncludeFileStep ==
  ASSUME IncludeInv, NEW f, IncludeFile(f)
  PROVE  IncludeInv'
<1>1. calls # <<>> /\ f \in File /\ calls' = Append(Onward(Stack), Call(f))
  BY DEF IncludeFile, Reads, NoInclude
<1>2. StackOk(Stack)
  BY <1>1, TopCall
<1>3. PICK s : s = Onward(Stack)
  OBVIOUS
<1>4. s \in Seq(Running) /\ Len(s) \in Nat /\ \A c \in 1 .. Len(s) : StackOk(s[c].ifdef_stack)
  BY <1>1, <1>2, <1>3, OnwardKeeps
<1>5. PICK b : b = <<Bottom>>
  OBVIOUS
<1>6. StackOk(b) /\ b \in Seq(Flags)
  BY <1>5, FreshStack DEF StackOk
<1>7. PICK r : r = Call(f)
  OBVIOUS
<1>8. r \in Running /\ r.ifdef_stack = b
  BY <1>1, <1>5, <1>6, <1>7 DEF Call, Running
<1>9. /\ Append(s, r) \in Seq(Running) /\ Len(Append(s, r)) = Len(s) + 1
      /\ Append(s, r)[Len(s) + 1] = r /\ \A c \in 1 .. Len(s) : Append(s, r)[c] = s[c]
  BY <1>4, <1>8, TopAdded
<1>10. calls' = Append(s, r)
  BY <1>1, <1>3, <1>7
<1>11. ASSUME NEW c \in 1 .. Len(calls') PROVE StackOk(calls'[c].ifdef_stack)
  <2>1. CASE c = Len(s) + 1
    BY <2>1, <1>6, <1>8, <1>9, <1>10
  <2>2. CASE c # Len(s) + 1
    <3>1. c \in 1 .. Len(s)
      BY <2>2, <1>4, <1>9, <1>10
    <3>2. calls'[c] = s[c]
      BY <3>1, <1>9, <1>10
    <3> QED BY <3>1, <3>2, <1>4
  <2> QED BY <2>1, <2>2
<1> QED BY <1>9, <1>10, <1>11 DEF IncludeInv

(* The end of a file: the callers' stacks are as they were.                *)
LEMMA ReturnStep ==
  ASSUME IncludeInv, Return
  PROVE  IncludeInv'
<1>1. calls # <<>> /\ calls' = Front(calls)
  BY DEF Return
<1>2. calls \in Seq(Running) /\ \A c \in 1 .. Len(calls) : StackOk(calls[c].ifdef_stack)
  BY DEF IncludeInv
<1>3. Len(calls) \in Nat /\ Len(calls) >= 1
  BY <1>1, <1>2, EmptySeq
<1>4. /\ calls' \in Seq(Running) /\ Len(calls') = Len(calls) - 1
      /\ \A c \in 1 .. Len(calls) - 1 : calls'[c] = calls[c]
  BY <1>1, <1>2, <1>3, TopOff
<1>5. \A c \in 1 .. Len(calls') : StackOk(calls'[c].ifdef_stack)
  BY <1>2, <1>3, <1>4
<1> QED BY <1>4, <1>5 DEF IncludeInv

(* Every line of every file keeps every stack in order.                    *)
LEMMA IncludeStep ==
  ASSUME IncludeInv, IncludeNext
  PROVE  IncludeInv'
<1>1. ASSUME NEW m, Ifdef(m) PROVE IncludeInv'
  <2>1. (m \in defines) \in BOOLEAN
    OBVIOUS
  <2>2. PICK h \in BOOLEAN : h = (m \in defines)
    BY <2>1, Zenon
  <2>3. calls # <<>> /\ calls' = Onward(Append(Stack, Opened("ifdef", h)))
    BY <1>1, <2>2, Zenon DEF Ifdef, Reads, Goto
  <2> QED BY <2>3, OpenedStep
<1>2. ASSUME NEW m, Ifndef(m) PROVE IncludeInv'
  <2>1. (m \notin defines) \in BOOLEAN
    OBVIOUS
  <2>2. PICK h \in BOOLEAN : h = (m \notin defines)
    BY <2>1, Zenon
  <2>3. calls # <<>> /\ calls' = Onward(Append(Stack, Opened("ifndef", h)))
    BY <1>2, <2>2, Zenon DEF Ifndef, Reads, Goto
  <2> QED BY <2>3, OpenedStep
<1>3. ASSUME NEW m, Elsif(m) PROVE IncludeInv'
  <2>1. (m \in defines) \in BOOLEAN
    OBVIOUS
  <2>2. PICK h \in BOOLEAN : h = (m \in defines)
    BY <2>1, Zenon
  <2>3. calls # <<>> /\ calls' = Onward(Append(Front(Stack), Branched(Last(Stack), "elsif", h)))
    BY <1>3, <2>2, Zenon DEF Elsif, Reads, Goto
  <2> QED BY <2>3, BranchedStep
<1>4. CASE Else
  <2>1. calls # <<>> /\ calls' = Onward(Append(Front(Stack), Branched(Last(Stack), "else", TRUE)))
    BY <1>4, Zenon DEF Else, Reads, Goto
  <2> QED BY <2>1, BranchedStep
<1>5. CASE Endif
  <2>1. PICK t : t = IF Len(Stack) > 1 THEN Front(Stack) ELSE Stack
    OBVIOUS
  <2>2. calls # <<>> /\ calls' = Onward(t)
    BY <1>5, <2>1, Zenon DEF Endif, Reads, Goto
  <2>3. StackOk(Stack)
    BY <2>2, TopCall
  <2>4. StackOk(t)
    BY <2>1, <2>3, StackShrinks
  <2> QED BY <2>2, <2>4, GotoStep
<1>6. ASSUME calls # <<>>, calls' = Onward(Stack) PROVE IncludeInv'
  BY <1>6, TopCall, GotoStep
<1>7. ASSUME NEW d, NEW x, Skip(d, x) PROVE IncludeInv'
  BY <1>6, <1>7, Zenon DEF Skip, Reads, Goto
<1>8. ASSUME NEW x, Text \/ Define(x) \/ Undef(x) \/ IncludeNothing(x) PROVE IncludeInv'
  BY <1>6, <1>8, Zenon DEF Text, Define, Undef, IncludeNothing, Reads, Goto
<1>9. ASSUME NEW f, IncludeFile(f) PROVE IncludeInv'
  BY <1>9, IncludeFileStep
<1>10. CASE Return
  BY <1>10, ReturnStep
<1> QED BY <1>1, <1>2, <1>3, <1>4, <1>5, <1>7, <1>8, <1>9, <1>10, Zenon DEF IncludeNext

(* The call for the main file.                                             *)
LEMMA IncludeStart == IncludeInit => IncludeInv
<1> SUFFICES ASSUME IncludeInit PROVE IncludeInv
  OBVIOUS
<1>1. PICK b : b = <<Bottom>>
  OBVIOUS
<1>2. StackOk(b) /\ b \in Seq(Flags)
  BY <1>1, FreshStack DEF StackOk
<1>3. PICK r : r = Call(Main)
  OBVIOUS
<1>4. r \in Running /\ r.ifdef_stack = b
  BY <1>1, <1>2, <1>3, FilesAssumption DEF Call, Running
<1>5. calls = <<r>>
  BY <1>3 DEF IncludeInit
<1>6. calls \in Seq(Running) /\ Len(calls) = 1 /\ calls[1] = r
  BY <1>4, <1>5
<1> QED BY <1>2, <1>4, <1>6 DEF IncludeInv

(* In every call of preprocess_sv_source, however files include each       *)
(* other, the flags of every open conditional mean what they are named     *)
(* for: the block is in the first branch whose condition held, some branch *)
(* was taken, and everything around it is active.                          *)
THEOREM BranchesCorrect == IncludeSpec => []BranchesAreExclusive
<1>1. IncludeInv /\ [IncludeNext]_includeVars => IncludeInv'
  <2> SUFFICES ASSUME IncludeInv, [IncludeNext]_includeVars PROVE IncludeInv'
    OBVIOUS
  <2>1. CASE UNCHANGED includeVars
    BY <2>1 DEF includeVars, IncludeInv
  <2> QED BY <2>1, IncludeStep
<1>2. IncludeInv => BranchesAreExclusive
  <2> SUFFICES ASSUME IncludeInv PROVE BranchesAreExclusive
    OBVIOUS
  <2>1. DOMAIN calls = 1 .. Len(calls) /\ \A c \in 1 .. Len(calls) : StackOk(calls[c].ifdef_stack)
    BY DEF IncludeInv
  <2> QED BY <2>1 DEF StackOk, FlagsOk, BranchesAreExclusive
<1> QED BY <1>1, <1>2, IncludeStart, PTL DEF IncludeSpec
=============================================================================
