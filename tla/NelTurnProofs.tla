---------------------------- MODULE NelTurnProofs ----------------------------
(***************************************************************************)
(* What is proved of NelTurn and of the window it shares with the          *)
(* provider, for any lines, answers and limits that TurnAssumption allows: *)
(* its types, and the properties of the transcript, of the identity        *)
(* preamble, of the follow-up and of the window.                           *)
(*                                                                         *)
(* The lengths of a window are sums over it.  The first part proves what   *)
(* the sums are that the rest needs: those of the empty window, and how    *)
(* they grow with an exchange at the end.                                  *)
(***************************************************************************)
EXTENDS NelTurn, SequenceTheorems, WellFoundedInduction, TLAPS

(* The recursion by which a fold adds up the numbers at the places in 1..n.*)
AddsUp(f, n, numbers) ==
  f = [s \in SUBSET (1 .. n) |->
         IF s = {} THEN 0 ELSE f[s \ {Max(s)}] + numbers[Max(s)]]

LEMMA TotalIsIterated ==
  ASSUME NEW n \in Nat, NEW numbers, DOMAIN numbers = 1 .. n
  PROVE  Total(numbers) = (CHOOSE f : AddsUp(f, n, numbers))[1 .. n]
BY DEF Total, FoldLeft, MapThenFoldSet, AddsUp

LEMMA LastPlaceIsMax ==
  ASSUME NEW n \in Nat, NEW s \in SUBSET (1 .. n), n \in s
  PROVE  Max(s) = n
<1>1. \A x \in s : x <= n /\ x \in Nat
  OBVIOUS
<1>2. \A x \in s : (\A y \in s : x >= y) => x = n
  BY <1>1
<1>3. QED
  BY <1>1, <1>2 DEF Max

(* Induction over the natural numbers, of a set of them.                   *)
LEMMA EveryNatural ==
  ASSUME NEW S \in SUBSET Nat, 0 \in S, \A n \in S : n + 1 \in S
  PROVE  S = Nat
<1>1. IsWellFoundedOn(OpToRel(<, Nat), Nat)
  BY NatLessThanWellFounded
<1>2. CASE Nat \ S # {}
  <2>1. PICK m \in Nat \ S : \A j \in Nat \ S : <<j, m>> \notin OpToRel(<, Nat)
    BY <1>1, <1>2, WFMin
  <2>2. \A j \in Nat \ S : ~(j < m)
    BY <2>1 DEF OpToRel
  <2>3. m # 0 /\ m - 1 \in Nat /\ m - 1 < m
    <3>1. m \in Nat /\ m \notin S
      OBVIOUS
    <3>2. m # 0
      BY <3>1
    <3>3. QED
      BY <3>1, <3>2
  <2>4. m - 1 \in S /\ (m - 1) + 1 = m
    BY <2>2, <2>3
  <2>5. QED
    BY <2>1, <2>4
<1>3. QED
  BY <1>2

(* Such a function exists, ...                                             *)
LEMMA SumExists ==
  ASSUME NEW numbers
  PROVE  \A n \in Nat : \E f : AddsUp(f, n, numbers)
<1> DEFINE S == {n \in Nat : \E f : AddsUp(f, n, numbers)}
<1>1. 0 \in S
  <2> DEFINE g == [s \in SUBSET (1 .. 0) |-> 0]
  <2>1. AddsUp(g, 0, numbers)
    <3>1. \A s \in SUBSET (1 .. 0) : s = {}
      OBVIOUS
    <3>2. QED
      BY <3>1 DEF AddsUp
  <2>2. QED
    BY <2>1
<1>2. ASSUME NEW n \in S PROVE n + 1 \in S
  <2>1. PICK f : AddsUp(f, n, numbers)
    OBVIOUS
  <2> DEFINE p == n + 1
             g == [s \in SUBSET (1 .. p) |->
                     IF p \in s THEN f[s \ {p}] + numbers[p] ELSE f[s]]
  <2>2. n \in Nat /\ p \in Nat
    OBVIOUS
  <2>3. \A s \in SUBSET (1 .. p) : s \ {p} \in SUBSET (1 .. n)
    BY <2>2
  <2>4. \A s \in SUBSET (1 .. n) :
          f[s] = IF s = {} THEN 0 ELSE f[s \ {Max(s)}] + numbers[Max(s)]
    BY <2>1 DEF AddsUp
  <2>5. ASSUME NEW s \in SUBSET (1 .. p)
        PROVE  g[s] = IF s = {} THEN 0 ELSE g[s \ {Max(s)}] + numbers[Max(s)]
    <3>1. CASE p \in s
      <4>1. Max(s) = p
        BY <2>2, <3>1, LastPlaceIsMax
      <4>2. g[s \ {p}] = f[s \ {p}]
        OBVIOUS
      <4>3. QED
        BY <3>1, <4>1, <4>2
    <3>2. CASE p \notin s
      <4>1. s \in SUBSET (1 .. n) /\ g[s] = f[s]
        BY <2>3, <3>2
      <4>2. s \ {Max(s)} \in SUBSET (1 .. p) /\ p \notin s \ {Max(s)}
        BY <3>2
      <4>3. g[s \ {Max(s)}] = f[s \ {Max(s)}]
        BY <4>2
      <4>4. QED
        BY <2>4, <4>1, <4>3
    <3>3. QED
      BY <3>1, <3>2
  <2>6. AddsUp(g, p, numbers)
    <3>1. g = [s \in SUBSET (1 .. p) |-> g[s]]
      OBVIOUS
    <3> HIDE DEF g
    <3>2. QED
      BY <2>5, <3>1 DEF AddsUp
  <2>7. QED
    BY <2>2, <2>6
<1>3. S = Nat
  BY <1>1, <1>2, EveryNatural
<1>4. QED
  BY <1>3

(* ... and adds up the first numbers one by one.                           *)
LEMMA SumStep ==
  ASSUME NEW n \in Nat, NEW numbers, NEW f, AddsUp(f, n, numbers)
  PROVE  /\ f[1 .. 0] = 0
         /\ \A k \in 0 .. n - 1 : f[1 .. k + 1] = f[1 .. k] + numbers[k + 1]
<1>1. \A s \in SUBSET (1 .. n) :
        f[s] = IF s = {} THEN 0 ELSE f[s \ {Max(s)}] + numbers[Max(s)]
  BY DEF AddsUp
<1>2. f[1 .. 0] = 0
  <2>1. 1 .. 0 = {} /\ 1 .. 0 \in SUBSET (1 .. n)
    OBVIOUS
  <2>2. QED
    BY <1>1, <2>1
<1>3. ASSUME NEW k \in 0 .. n - 1
      PROVE  f[1 .. k + 1] = f[1 .. k] + numbers[k + 1]
  <2>1. k + 1 \in 1 .. n /\ k + 1 \in Nat /\ k \in Nat
    OBVIOUS
  <2>2. 1 .. k + 1 \in SUBSET (1 .. n) /\ 1 .. k + 1 # {} /\ k + 1 \in 1 .. k + 1
    BY <2>1
  <2>3. Max(1 .. k + 1) = k + 1
    BY <2>1, <2>2, LastPlaceIsMax
  <2>4. (1 .. k + 1) \ {k + 1} = 1 .. k
    BY <2>1
  <2>5. QED
    BY <1>1, <2>2, <2>3, <2>4
<1>4. QED
  BY <1>2, <1>3

-----------------------------------------------------------------------------
(* The sum of a sequence of numbers.                                       *)

LEMMA TotalIsSum ==
  ASSUME NEW n \in Nat, NEW numbers, DOMAIN numbers = 1 .. n
  PROVE  \E f : AddsUp(f, n, numbers) /\ Total(numbers) = f[1 .. n]
<1> DEFINE f == CHOOSE g : AddsUp(g, n, numbers)
<1>1. AddsUp(f, n, numbers)
  <2>1. \E g : AddsUp(g, n, numbers)
    BY SumExists
  <2>2. QED
    BY <2>1
<1>2. QED
  BY <1>1, TotalIsIterated

LEMMA TotalOfNone ==
  ASSUME NEW numbers, DOMAIN numbers = {}
  PROVE  Total(numbers) = 0
<1>1. DOMAIN numbers = 1 .. 0
  OBVIOUS
<1>2. PICK f : AddsUp(f, 0, numbers) /\ Total(numbers) = f[1 .. 0]
  BY <1>1, TotalIsSum
<1>3. QED
  BY <1>2, SumStep

(* Two sums whose numbers are the same up to a place are the same there.   *)
LEMMA SumsAgree ==
  ASSUME NEW n \in Nat, NEW longer, NEW shorter, NEW f, NEW g,
         AddsUp(f, n + 1, longer), AddsUp(g, n, shorter),
         \A i \in 1 .. n : longer[i] = shorter[i]
  PROVE  f[1 .. n] = g[1 .. n]
<1> DEFINE S == {k \in Nat : k <= n => f[1 .. k] = g[1 .. k]}
<1>1. /\ f[1 .. 0] = 0
      /\ \A k \in 0 .. (n + 1) - 1 : f[1 .. k + 1] = f[1 .. k] + longer[k + 1]
  <2>1. n + 1 \in Nat
    OBVIOUS
  <2>2. QED
    BY <2>1, SumStep
<1>2. /\ g[1 .. 0] = 0
      /\ \A k \in 0 .. n - 1 : g[1 .. k + 1] = g[1 .. k] + shorter[k + 1]
  BY SumStep
<1>3. 0 \in S
  BY <1>1, <1>2
<1>4. ASSUME NEW k \in S PROVE k + 1 \in S
  <2>1. CASE k + 1 <= n
    <3>1. k \in 0 .. n - 1 /\ k \in 0 .. (n + 1) - 1 /\ k + 1 \in 1 .. n /\ k <= n
      BY <2>1
    <3>2. f[1 .. k] = g[1 .. k]
      BY <3>1
    <3>3. f[1 .. k + 1] = g[1 .. k + 1]
      BY <1>1, <1>2, <3>1, <3>2
    <3>4. QED
      BY <3>3
  <2>2. QED
    BY <2>1
<1>5. S = Nat
  BY <1>3, <1>4, EveryNatural
<1>6. n \in S
  BY <1>5
<1>7. QED
  BY <1>6

LEMMA TotalOfMore ==
  ASSUME NEW n \in Nat, NEW longer, NEW shorter,
         DOMAIN longer = 1 .. n + 1, DOMAIN shorter = 1 .. n,
         \A i \in 1 .. n : longer[i] = shorter[i]
  PROVE  Total(longer) = Total(shorter) + longer[n + 1]
<1>1. n + 1 \in Nat
  OBVIOUS
<1>2. PICK f : AddsUp(f, n + 1, longer) /\ Total(longer) = f[1 .. n + 1]
  BY <1>1, TotalIsSum
<1>3. PICK g : AddsUp(g, n, shorter) /\ Total(shorter) = g[1 .. n]
  BY TotalIsSum
<1>4. f[1 .. n] = g[1 .. n]
  BY <1>2, <1>3, SumsAgree
<1>5. n \in 0 .. (n + 1) - 1
  OBVIOUS
<1>6. f[1 .. n + 1] = f[1 .. n] + longer[n + 1]
  BY <1>1, <1>2, <1>5, SumStep
<1>7. QED
  BY <1>2, <1>3, <1>4, <1>6

LEMMA TotalIsNatural ==
  ASSUME NEW n \in Nat, NEW numbers, DOMAIN numbers = 1 .. n,
         \A i \in 1 .. n : numbers[i] \in Nat
  PROVE  Total(numbers) \in Nat
<1>1. PICK f : AddsUp(f, n, numbers) /\ Total(numbers) = f[1 .. n]
  BY TotalIsSum
<1>2. /\ f[1 .. 0] = 0
      /\ \A k \in 0 .. n - 1 : f[1 .. k + 1] = f[1 .. k] + numbers[k + 1]
  <2>1. AddsUp(f, n, numbers)
    BY <1>1
  <2>2. QED
    BY <2>1, SumStep
<1> DEFINE S == {k \in Nat : k <= n => f[1 .. k] \in Nat}
<1>3. 0 \in S
  BY <1>2
<1>4. ASSUME NEW k \in S PROVE k + 1 \in S
  <2>1. CASE k + 1 <= n
    <3>1. k \in 0 .. n - 1 /\ k + 1 \in 1 .. n /\ k <= n
      BY <2>1
    <3>2. f[1 .. k] \in Nat /\ numbers[k + 1] \in Nat
      BY <3>1
    <3>3. f[1 .. k + 1] \in Nat
      BY <1>2, <3>1, <3>2
    <3>4. QED
      BY <3>3
  <2>2. QED
    BY <2>1
<1>5. S = Nat
  BY <1>3, <1>4, EveryNatural
<1>6. n \in S
  BY <1>5
<1>7. QED
  BY <1>1, <1>6

-----------------------------------------------------------------------------
(* Windows.                                                                *)

Texts == Prompt \cup Replies

Turns == [turnId : Nat \ {0}, text : Texts]

Exchanges ==
  [exchangeId : Nat \ {0}, kind : ExchangeKind, user : Turns,
   assistant : Turns \cup {None}]

ReplyType == [chars : Nat, json : Nat, intro : BOOLEAN]

(* Guidance makes a reply longer, and leaves how it opens.                 *)
LEMMA GuidedReply ==
  ASSUME NEW reply \in ReplyType
  PROVE  Guided(reply) \in ReplyType /\ Guided(reply).intro = reply.intro
<1> DEFINE older == [reply EXCEPT !.chars = @ + Guidance.chars]
<1>1. Guidance.chars \in Nat /\ Guidance.json \in Nat
  BY TurnAssumption
<1>2. older \in ReplyType /\ older.intro = reply.intro /\ older.json = reply.json
  BY <1>1 DEF ReplyType
<1>3. Guided(reply) = [older EXCEPT !.json = @ + Guidance.json]
  BY DEF Guided
<1> HIDE DEF older
<1>4. QED
  BY <1>1, <1>2, <1>3 DEF ReplyType

LEMMA RepliesHaveLengths == Replies \subseteq ReplyType
<1>1. FixedReply \in ReplyType
  BY DEF FixedReply, ReplyType
<1>2. LocalReply \cup Reply \cup {FixedReply} \subseteq ReplyType
  BY <1>1, TurnAssumption DEF ReplyType
<1>3. QED
  BY <1>2, GuidedReply DEF Replies

LEMMA TextsHaveLengths ==
  ASSUME NEW text \in Texts
  PROVE  text.chars \in Nat /\ text.json \in Nat
BY RepliesHaveLengths, TurnAssumption DEF Texts, ReplyType

LEMMA LengthIsNatural ==
  ASSUME NEW e \in Exchanges
  PROVE  ExchangeLength(e) \in Nat
<1>1. KindLength[e.kind] \in Nat
  BY DEF KindLength, Exchanges, ExchangeKind
<1>2. e.user.text.json \in Nat
  BY TextsHaveLengths DEF Exchanges, Turns
<1>3. Complete(e) => e.assistant.text.json \in Nat
  BY TextsHaveLengths DEF Exchanges, Turns, Complete
<1>4. QED
  BY <1>1, <1>2, <1>3 DEF ExchangeLength

LEMMA EmptyWindow ==
  /\ TurnCount(<<>>) = 0
  /\ \A isTruncated : Measure(<<>>, isTruncated) = IF isTruncated THEN 60 ELSE 61
<1>1. Total([i \in DOMAIN <<>> |-> IF Complete(<<>>[i]) THEN 2 ELSE 1]) = 0
  BY TotalOfNone
<1>2. Total([i \in DOMAIN <<>> |-> ExchangeLength(<<>>[i])]) = 0
  BY TotalOfNone
<1>3. QED
  BY <1>1, <1>2 DEF TurnCount, Measure

LEMMA WindowIsMeasured ==
  ASSUME NEW window \in Seq(Exchanges), NEW isTruncated \in BOOLEAN
  PROVE  TurnCount(window) \in Nat /\ Measure(window, isTruncated) \in Nat
<1> DEFINE turns == [i \in DOMAIN window |-> IF Complete(window[i]) THEN 2 ELSE 1]
           lengths == [i \in DOMAIN window |-> ExchangeLength(window[i])]
<1>1. /\ Len(window) \in Nat /\ DOMAIN window = 1 .. Len(window)
      /\ window # <<>> => Len(window) >= 1
  OBVIOUS
<1>2. DOMAIN turns = 1 .. Len(window) /\ \A i \in 1 .. Len(window) : turns[i] \in Nat
  BY <1>1
<1>3. /\ DOMAIN lengths = 1 .. Len(window)
      /\ \A i \in 1 .. Len(window) : lengths[i] \in Nat
  BY <1>1, LengthIsNatural
<1>4. TurnCount(window) = Total(turns)
  BY DEF TurnCount
<1>5. Measure(window, isTruncated) =
        60 + (IF isTruncated THEN 0 ELSE 1) + Total(lengths)
           + (IF window = <<>> THEN 0 ELSE Len(window) - 1)
  BY DEF Measure
<1> HIDE DEF turns, lengths
<1>6. Total(turns) \in Nat /\ Total(lengths) \in Nat
  BY <1>1, <1>2, <1>3, TotalIsNatural
<1>7. QED
  BY <1>1, <1>4, <1>5, <1>6

LEMMA WindowGrows ==
  ASSUME NEW window \in Seq(Exchanges), NEW e \in Exchanges,
         NEW isTruncated \in BOOLEAN
  PROVE  /\ TurnCount(Append(window, e)) =
              TurnCount(window) + IF Complete(e) THEN 2 ELSE 1
         /\ Measure(Append(window, e), isTruncated) =
              Measure(window, isTruncated) + ExchangeLength(e)
                + IF window = <<>> THEN 0 ELSE 1
<1> DEFINE n == Len(window)
           longer == Append(window, e)
           turns(w) == [i \in DOMAIN w |-> IF Complete(w[i]) THEN 2 ELSE 1]
           lengths(w) == [i \in DOMAIN w |-> ExchangeLength(w[i])]
<1>1. /\ n \in Nat /\ DOMAIN window = 1 .. n /\ DOMAIN longer = 1 .. n + 1
      /\ \A i \in 1 .. n : longer[i] = window[i] /\ i \in 1 .. n + 1
      /\ longer[n + 1] = e /\ Len(longer) = n + 1 /\ longer # <<>>
      /\ n + 1 \in 1 .. n + 1
  <2>1. n \in Nat /\ DOMAIN window = 1 .. n
    OBVIOUS
  <2>2. /\ longer \in Seq(Exchanges) /\ Len(longer) = n + 1 /\ longer[n + 1] = e
        /\ \A i \in 1 .. n : longer[i] = window[i]
    OBVIOUS
  <2>3. DOMAIN longer = 1 .. n + 1
    BY <2>2
  <2>4. longer # <<>>
    BY <2>1, <2>2
  <2>5. QED
    BY <2>1, <2>2, <2>3, <2>4
<1>2. /\ DOMAIN turns(longer) = 1 .. n + 1 /\ DOMAIN turns(window) = 1 .. n
      /\ \A i \in 1 .. n : turns(longer)[i] = turns(window)[i]
      /\ turns(longer)[n + 1] = IF Complete(e) THEN 2 ELSE 1
  BY <1>1
<1>3. /\ DOMAIN lengths(longer) = 1 .. n + 1 /\ DOMAIN lengths(window) = 1 .. n
      /\ \A i \in 1 .. n : lengths(longer)[i] = lengths(window)[i]
      /\ lengths(longer)[n + 1] = ExchangeLength(e)
  BY <1>1
<1>4. /\ TurnCount(longer) = Total(turns(longer))
      /\ TurnCount(window) = Total(turns(window))
  BY DEF TurnCount
<1>5. /\ Measure(longer, isTruncated) =
           60 + (IF isTruncated THEN 0 ELSE 1) + Total(lengths(longer))
              + (IF longer = <<>> THEN 0 ELSE Len(longer) - 1)
      /\ Measure(window, isTruncated) =
           60 + (IF isTruncated THEN 0 ELSE 1) + Total(lengths(window))
              + (IF window = <<>> THEN 0 ELSE n - 1)
  BY DEF Measure
<1>6. \A i \in 1 .. n : lengths(window)[i] \in Nat
  BY <1>1, LengthIsNatural
<1> HIDE DEF turns, lengths
<1>7. Total(turns(longer)) = Total(turns(window)) + IF Complete(e) THEN 2 ELSE 1
  BY <1>1, <1>2, TotalOfMore
<1>8. /\ Total(lengths(longer)) = Total(lengths(window)) + ExchangeLength(e)
      /\ Total(lengths(window)) \in Nat /\ ExchangeLength(e) \in Nat
  <2>1. Total(lengths(longer)) = Total(lengths(window)) + ExchangeLength(e)
    BY <1>1, <1>3, TotalOfMore
  <2>2. Total(lengths(window)) \in Nat
    BY <1>1, <1>3, <1>6, TotalIsNatural
  <2>3. QED
    BY <2>1, <2>2, LengthIsNatural
<1>9. window # <<>> => n # 0
  OBVIOUS
<1>10. QED
  <2> HIDE DEF longer, n
  <2>1. TurnCount(longer) = TurnCount(window) + IF Complete(e) THEN 2 ELSE 1
    BY <1>4, <1>7
  <2>2. Measure(longer, isTruncated) =
          Measure(window, isTruncated) + ExchangeLength(e)
            + IF window = <<>> THEN 0 ELSE 1
    BY <1>1, <1>5, <1>8, <1>9
  <2>3. QED
    BY <2>1, <2>2 DEF longer

(* What does not fit does not fit with an exchange more.                   *)
LEMMA FittingIsClosed ==
  ASSUME NEW window \in Seq(Exchanges), NEW e \in Exchanges,
         NEW isTruncated \in BOOLEAN, Fits(Append(window, e), isTruncated)
  PROVE  Fits(window, isTruncated)
<1>1. /\ TurnCount(window) \in Nat /\ Measure(window, isTruncated) \in Nat
      /\ ExchangeLength(e) \in Nat
  BY WindowIsMeasured, LengthIsNatural
<1>2. TurnLimit \in Nat /\ CharacterLimit \in Nat
  BY SessionLimits
<1>3. QED
  BY <1>1, <1>2, WindowGrows DEF Fits

(* An exchange that is short enough fits alone, whatever it follows.       *)
LEMMA FitsAlone ==
  ASSUME NEW e \in Exchanges, NEW isTruncated \in BOOLEAN,
         Measure(<<e>>, FALSE) <= CharacterLimit
  PROVE  Fits(<<e>>, isTruncated)
<1>1. <<>> \in Seq(Exchanges) /\ Append(<<>>, e) = <<e>>
  OBVIOUS
<1>2. TurnLimit \in Nat /\ CharacterLimit \in Nat /\ TurnLimit >= 2
  BY SessionLimits, TurnAssumption
<1>3. ExchangeLength(e) \in Nat
  BY LengthIsNatural
<1>4. ASSUME NEW b \in BOOLEAN
      PROVE  /\ TurnCount(<<e>>) = IF Complete(e) THEN 2 ELSE 1
             /\ Measure(<<e>>, b) = (IF b THEN 60 ELSE 61) + ExchangeLength(e)
  <2>1. /\ TurnCount(Append(<<>>, e)) =
             TurnCount(<<>>) + IF Complete(e) THEN 2 ELSE 1
        /\ Measure(Append(<<>>, e), b) =
             Measure(<<>>, b) + ExchangeLength(e) + IF <<>> = <<>> THEN 0 ELSE 1
    BY <1>1, WindowGrows
  <2>2. QED
    BY <1>1, <1>3, <2>1, EmptyWindow
<1>5. /\ Measure(<<e>>, FALSE) = 61 + ExchangeLength(e)
      /\ Measure(<<e>>, isTruncated) = (IF isTruncated THEN 60 ELSE 61) + ExchangeLength(e)
      /\ TurnCount(<<e>>) = IF Complete(e) THEN 2 ELSE 1
  BY <1>4
<1>6. Measure(<<e>>, isTruncated) <= CharacterLimit
  <2> DEFINE m == ExchangeLength(e)
  <2>1. m \in Nat /\ 61 + m <= CharacterLimit
    BY <1>3, <1>5
  <2>2. Measure(<<e>>, isTruncated) = 60 + m \/ Measure(<<e>>, isTruncated) = 61 + m
    BY <1>5
  <2> HIDE DEF m
  <2>3. QED
    BY <1>2, <2>1, <2>2
<1>7. TurnCount(<<e>>) <= TurnLimit
  BY <1>2, <1>5
<1>8. QED
  BY <1>6, <1>7 DEF Fits

-----------------------------------------------------------------------------
(* Taking an exchange in.                                                  *)

SessionOK == SessionTypeOK(Texts)

LEMMA SessionTypes ==
  SessionOK <=> /\ exchanges \in Seq(Exchanges) /\ accepted \in Seq(Exchanges)
                /\ truncated \in BOOLEAN
                /\ nextTurnId \in Nat \ {0} /\ nextExchangeId \in Nat \ {0}
BY DEF SessionOK, SessionTypeOK, Exchanges, Turns

(* e entered the window, and the k oldest exchanges left it: no fewer would*)
(* have been enough.                                                       *)
Evicts(k, e) ==
  /\ exchanges' = Evicting(k, Append(exchanges, e))
  /\ truncated' = (truncated \/ k > 0)
  /\ Fits(exchanges', truncated')
  /\ \A m \in 0 .. k - 1 :
       ~Fits(Evicting(m, Append(exchanges, e)), truncated \/ m > 0)

Taken(e) ==
  /\ \E k \in 0 .. Len(exchanges) : Evicts(k, e)
  /\ accepted' = Append(accepted, e)
  /\ nextTurnId' \in Nat \ {0} /\ nextExchangeId' \in Nat \ {0}

LEMMA EvictedWindow ==
  ASSUME NEW S, NEW window \in Seq(S), NEW k \in 0 .. Len(window)
  PROVE  /\ Evicting(k, window) \in Seq(S)
         /\ Len(Evicting(k, window)) = Len(window) - k
         /\ \A i \in 1 .. Len(window) - k : Evicting(k, window)[i] = window[k + i]
<1>1. /\ k + 1 \in 1 .. Len(window) + 1 /\ k + 1 \in Nat /\ Len(window) \in Nat
      /\ (k + 1) + Len(window) - k = Len(window) + 1
  OBVIOUS
<1>2. SubSeq(window, k + 1, Len(window)) \in Seq(S)
  BY <1>1
<1>3. Len(SubSeq(window, k + 1, Len(window))) = Len(window) - k
  BY <1>1
<1>4. \A i \in 1 .. Len(window) - k : SubSeq(window, k + 1, Len(window))[i] = window[k + i]
  BY <1>1
<1>5. QED
  BY <1>2, <1>3, <1>4 DEF Evicting

LEMMA AppendEffect ==
  ASSUME SessionOK, NEW e \in Exchanges, AppendExchange(e)
  PROVE  \/ Taken(e)
         \/ UNCHANGED sessionVars /\ ~(Measure(<<e>>, FALSE) <= CharacterLimit)
<1> DEFINE window == Append(exchanges, e)
           fitting == {r \in Retained(window) : Fits(r[1], r[2])}
<1>1. /\ exchanges \in Seq(Exchanges) /\ truncated \in BOOLEAN
      /\ window \in Seq(Exchanges) /\ Len(window) = Len(exchanges) + 1
      /\ Len(exchanges) \in Nat
      /\ nextTurnId \in Nat \ {0} /\ nextExchangeId \in Nat \ {0}
  BY SessionTypes
<1>2. Evicting(Len(exchanges), window) = <<e>>
  <2>1. /\ Evicting(Len(exchanges), window) \in Seq(Exchanges)
        /\ Len(Evicting(Len(exchanges), window)) = 1
        /\ Evicting(Len(exchanges), window)[1] = window[Len(exchanges) + 1]
    <3> HIDE DEF window
    <3>1. /\ Len(exchanges) \in 0 .. Len(window)
          /\ Len(window) - Len(exchanges) = 1 /\ 1 \in 1 .. 1
      BY <1>1
    <3>2. QED
      <4> DEFINE k == Len(exchanges)
      <4>1. /\ Evicting(k, window) \in Seq(Exchanges)
            /\ Len(Evicting(k, window)) = Len(window) - k
            /\ \A i \in 1 .. Len(window) - k : Evicting(k, window)[i] = window[k + i]
        BY <1>1, <3>1, EvictedWindow, Zenon
      <4>2. Len(window) - k = 1 /\ 1 \in 1 .. 1 /\ k \in Nat
        BY <1>1, <3>1
      <4> HIDE DEF k
      <4>3. Evicting(k, window)[1] = window[k + 1]
        BY <4>1, <4>2
      <4>4. QED
        BY <4>1, <4>2, <4>3 DEF k
  <2>2. window[Len(exchanges) + 1] = e
    BY <1>1
  <2>3. QED
    BY <2>1, <2>2
<1>3. CASE Measure(<<e>>, FALSE) <= CharacterLimit
  <2> DEFINE alone == <<Evicting(Len(exchanges), window), truncated \/ Len(exchanges) > 0>>
  <2>1. alone \in fitting
    <3>1. Fits(<<e>>, truncated \/ Len(exchanges) > 0)
      BY <1>1, <1>3, FitsAlone
    <3>2. alone \in Retained(window)
      BY <1>1 DEF Retained
    <3>3. QED
      BY <1>2, <3>1, <3>2
  <2>2. /\ \E r \in fitting : /\ \A other \in fitting : Len(other[1]) <= Len(r[1])
                              /\ exchanges' = r[1] /\ truncated' = r[2]
        /\ nextTurnId' = nextTurnId + (IF Complete(e) THEN 2 ELSE 1)
        /\ nextExchangeId' = nextExchangeId + 1
        /\ accepted' = Append(accepted, e)
    BY <1>3, <2>1 DEF AppendExchange
  <2>3. PICK r \in fitting : /\ \A other \in fitting : Len(other[1]) <= Len(r[1])
                             /\ exchanges' = r[1] /\ truncated' = r[2]
    BY <2>2
  <2>4. PICK k \in 0 .. Len(window) - 1 :
          r = <<Evicting(k, window), truncated \/ k > 0>>
    BY DEF Retained
  <2>5. k \in 0 .. Len(exchanges)
    BY <1>1
  <2>6. ASSUME NEW m \in 0 .. k - 1, Fits(Evicting(m, window), truncated \/ m > 0)
        PROVE  FALSE
    <3>1. m \in 0 .. Len(window) - 1 /\ m \in 0 .. Len(window) /\ k \in 0 .. Len(window)
      BY <1>1, <2>5
    <3> DEFINE larger == <<Evicting(m, window), truncated \/ m > 0>>
    <3>2. larger \in fitting
      BY <2>6, <3>1 DEF Retained
    <3>3. Len(Evicting(m, window)) <= Len(Evicting(k, window))
      BY <2>3, <2>4, <3>2
    <3>4. Len(window) - m <= Len(window) - k
      BY <1>1, <3>1, <3>3, EvictedWindow
    <3>5. QED
      BY <1>1, <2>5, <3>4
  <2>7. Evicts(k, e)
    <3>1. Fits(r[1], r[2])
      BY <2>3
    <3>2. QED
      BY <2>3, <2>4, <2>6, <3>1 DEF Evicts
  <2>8. nextTurnId' \in Nat \ {0} /\ nextExchangeId' \in Nat \ {0}
    BY <1>1, <2>2
  <2>9. QED
    BY <2>2, <2>5, <2>7, <2>8 DEF Taken
<1>4. CASE ~(Measure(<<e>>, FALSE) <= CharacterLimit)
  BY <1>4 DEF AppendExchange
<1>5. QED
  BY <1>3, <1>4

(* What entered is the last of the window.                                 *)
LEMMA TakenIsLast ==
  ASSUME SessionOK, NEW e \in Exchanges, Taken(e)
  PROVE  /\ SessionOK'
         /\ exchanges' # <<>> /\ Last(exchanges') = e
         /\ Len(accepted') = Len(accepted) + 1
<1>1. /\ exchanges \in Seq(Exchanges) /\ truncated \in BOOLEAN
      /\ Len(exchanges) \in Nat /\ accepted \in Seq(Exchanges)
  BY SessionTypes
<1>2. PICK k \in 0 .. Len(exchanges) : Evicts(k, e)
  BY DEF Taken
<1> DEFINE window == Append(exchanges, e)
<1>3. /\ window \in Seq(Exchanges) /\ Len(window) = Len(exchanges) + 1
      /\ window[Len(exchanges) + 1] = e
  BY <1>1
<1> HIDE DEF window
<1>4. /\ exchanges' \in Seq(Exchanges) /\ Len(exchanges') = Len(window) - k
      /\ \A i \in 1 .. Len(window) - k : exchanges'[i] = window[k + i]
  <2>1. k \in 0 .. Len(window)
    BY <1>1, <1>3
  <2>2. exchanges' = Evicting(k, window)
    BY <1>2 DEF Evicts, window
  <2>3. /\ Evicting(k, window) \in Seq(Exchanges)
        /\ Len(Evicting(k, window)) = Len(window) - k
        /\ \A i \in 1 .. Len(window) - k : Evicting(k, window)[i] = window[k + i]
    BY <1>3, <2>1, EvictedWindow, Zenon
  <2>4. QED
    BY <2>2, <2>3, Zenon
<1>5. exchanges' # <<>> /\ Last(exchanges') = e
  <2>1. /\ Len(window) - k \in 1 .. Len(window) - k
        /\ k + (Len(window) - k) = Len(exchanges) + 1
    BY <1>1, <1>3
  <2>2. exchanges'[Len(exchanges')] = e
    BY <1>3, <1>4, <2>1
  <2>3. Len(exchanges') # 0
    BY <1>4, <2>1
  <2>4. QED
    BY <2>2, <2>3 DEF Last
<1>6. accepted' \in Seq(Exchanges) /\ Len(accepted') = Len(accepted) + 1
  BY <1>1 DEF Taken
<1>7. truncated' \in BOOLEAN
  BY <1>2 DEF Evicts
<1>8. SessionOK'
  BY <1>4, <1>6, <1>7, SessionTypes DEF Taken, SessionOK, SessionTypeOK, Exchanges, Turns
<1>9. QED
  BY <1>5, <1>6, <1>8

CompleteExchange(kind, user, reply) ==
  [exchangeId |-> nextExchangeId, kind |-> kind,
   user |-> [turnId |-> nextTurnId, text |-> user],
   assistant |-> [turnId |-> nextTurnId + 1, text |-> reply]]

IncompleteExchange(user) ==
  [exchangeId |-> nextExchangeId, kind |-> "conversation",
   user |-> [turnId |-> nextTurnId, text |-> user], assistant |-> None]

(* A complete exchange enters, unless it cannot be kept at all.            *)
LEMMA CompleteEffect ==
  ASSUME SessionOK, NEW kind \in ExchangeKind, NEW user \in Prompt, NEW reply \in Replies,
         AppendComplete(kind, user, reply)
  PROVE  /\ CompleteExchange(kind, user, reply) \in Exchanges
         /\ Complete(CompleteExchange(kind, user, reply))
         /\ \/ Taken(CompleteExchange(kind, user, reply))
            \/ UNCHANGED sessionVars /\ ~Storable(kind, user, reply)
<1> DEFINE e == CompleteExchange(kind, user, reply)
           bare == [kind |-> kind, user |-> [text |-> user], assistant |-> [text |-> reply]]
<1>1. nextTurnId \in Nat \ {0} /\ nextExchangeId \in Nat \ {0} /\ nextTurnId + 1 \in Nat \ {0}
  BY SessionTypes
<1>2. e \in Exchanges
  BY <1>1 DEF Exchanges, Turns, Texts, CompleteExchange
<1>3. Complete(e) /\ Complete(bare)
  <2>1. e.assistant \in [turnId : Nat \ {0}, text : Prompt \cup Replies]
    BY <1>1 DEF CompleteExchange
  <2>2. bare.assistant \in [text : Replies]
    OBVIOUS
  <2>3. e.assistant # None /\ bare.assistant # None
    BY <2>1, <2>2, TurnAssumption
  <2>4. QED
    BY <2>3 DEF Complete
<1>4. ExchangeLength(e) = ExchangeLength(bare)
  BY <1>3 DEF ExchangeLength, CompleteExchange
<1>5. Measure(<<e>>, FALSE) = Measure(<<bare>>, FALSE)
  <2>1. [i \in DOMAIN <<e>> |-> ExchangeLength(<<e>>[i])] =
          [i \in DOMAIN <<bare>> |-> ExchangeLength(<<bare>>[i])]
    <3> HIDE DEF e, bare
    <3>1. /\ DOMAIN <<e>> = {1} /\ <<e>>[1] = e
          /\ DOMAIN <<bare>> = {1} /\ <<bare>>[1] = bare
      OBVIOUS
    <3>2. QED
      BY <1>4, <3>1
  <2>2. Len(<<e>>) = Len(<<bare>>) /\ <<e>> # <<>> /\ <<bare>> # <<>>
    OBVIOUS
  <2>3. QED
    BY <2>1, <2>2 DEF Measure
<1>6. Taken(e) \/ (UNCHANGED sessionVars /\ ~Storable(kind, user, reply))
  <2>1. CASE Eligible(user) /\ Eligible(reply)
    <3>1. AppendExchange(e)
      BY <2>1 DEF AppendComplete, CompleteExchange
    <3>2. \/ Taken(e)
          \/ UNCHANGED sessionVars /\ ~(Measure(<<e>>, FALSE) <= CharacterLimit)
      BY <1>2, <3>1, AppendEffect
    <3>3. Storable(kind, user, reply) => Measure(<<bare>>, FALSE) <= CharacterLimit
      BY DEF Storable
    <3> HIDE DEF e, bare
    <3>4. QED
      BY <1>5, <3>2, <3>3
  <2>2. CASE ~(Eligible(user) /\ Eligible(reply))
    BY <2>2 DEF AppendComplete, Storable
  <2>3. QED
    BY <2>1, <2>2
<1>7. QED
  BY <1>2, <1>3, <1>6

LEMMA IncompleteEffect ==
  ASSUME SessionOK, NEW user \in Prompt, AppendIncomplete(user)
  PROVE  /\ IncompleteExchange(user) \in Exchanges
         /\ ~Complete(IncompleteExchange(user))
         /\ Taken(IncompleteExchange(user)) \/ UNCHANGED sessionVars
<1> DEFINE e == IncompleteExchange(user)
<1>1. nextTurnId \in Nat \ {0} /\ nextExchangeId \in Nat \ {0}
  BY SessionTypes
<1>2. e \in Exchanges /\ ~Complete(e)
  BY <1>1 DEF Exchanges, Turns, Texts, IncompleteExchange, ExchangeKind, Complete
<1>3. AppendExchange(e) \/ UNCHANGED sessionVars
  BY DEF AppendIncomplete, IncompleteExchange
<1>4. QED
  BY <1>2, <1>3, AppendEffect

-----------------------------------------------------------------------------
(* The types, and what a turn has decided so far: the session does not     *)
(* change while a turn is under way, so what the authority found at the    *)
(* start of a conversation still holds when the provider is asked.         *)

Busy ==
  {"command", "clarification", "routing", "proposals", "assembly",
   "provider", "answered"}

Control ==
  /\ pc \in Busy => turn.prompt \in Prompt /\ Len(seen) < MaxTurns
  /\ pc \in {"proposals", "assembly", "provider", "answered"} =>
       /\ turn.identity = IdentityPolicy(turn.prompt)
       /\ ~AuthorityClarifies(turn.prompt)
  /\ pc = "answered" => turn.reply \in Reply

TInv == TypeOK /\ Control

TurnType ==
  [prompt : Prompt \cup {None}, identity : {"none", "required", "forbidden"},
   reply : Reply \cup {None}, proposals : BOOLEAN, retried : BOOLEAN]

Entry ==
  [prompt : Prompt, outcome : Outcome, reply : Replies \cup {None}, asked : BOOLEAN]

(* A turn ends, and shows the user this; ...                               *)
Shows(prompt, outcome, reply, asked) ==
  /\ pc \in {"idle"} \cup Busy /\ pc' \in {"idle", "failed"}
  /\ prompt \in Prompt /\ Len(seen) < MaxTurns
  /\ outcome \in Outcome /\ reply \in Replies \cup {None} /\ asked \in BOOLEAN
  /\ asked => ~AuthorityClarifies(prompt)
  /\ Leave(prompt, outcome, reply, asked)

(* ... it is not recorded, ...                                             *)
Forgets(prompt, outcome, reply) ==
  /\ Shows(prompt, outcome, reply, FALSE)
  /\ outcome \in {"silent", "clarified", "refused", "unavailable"}
  /\ UNCHANGED sessionVars

(* ... it is recorded as it was shown, ...                                 *)
KeepsWhole(kind, outcome, reply, asked) ==
  /\ Shows(turn.prompt, outcome, reply, asked)
  /\ reply \in Replies
  /\ <<kind, outcome>> \in {<<"command", "command">>, <<"local_read", "read">>,
                            <<"conversation", "answered">>}
  /\ outcome = "answered" /\ ~turn.prompt.identityAsked => ~reply.intro
  /\ AppendComplete(kind, turn.prompt, reply)

(* ... or what the user typed is.                                          *)
KeepsHalf(asked) ==
  Shows(turn.prompt, "raised", None, asked) /\ AppendIncomplete(turn.prompt)

(* Or the turn goes on.                                                    *)
Moves ==
  /\ pc \in {"idle"} \cup Busy /\ pc' \in Busy
  /\ UNCHANGED <<sessionVars, seen, recordedBy>>

Effect ==
  \/ Moves
  \/ \E prompt, outcome, reply : Forgets(prompt, outcome, reply)
  \/ \E kind, outcome, reply, asked : KeepsWhole(kind, outcome, reply, asked)
  \/ \E asked : KeepsHalf(asked)
  \/ Stop
  \/ UNCHANGED vars

LEMMA FixedIsReply == FixedReply \in Replies /\ LocalReply \subseteq Replies
BY DEF Replies

(* What is shown of an answer is a reply, and opens with a preamble only   *)
(* when the user asked for it.                                             *)
LEMMA RenderedIsChecked ==
  ASSUME TInv, pc = "answered"
  PROVE  /\ Rendered \in Replies
         /\ ~turn.prompt.identityAsked => ~Rendered.intro
<1>1. /\ turn.reply \in Reply /\ turn.identity = IdentityPolicy(turn.prompt)
      /\ Reply \subseteq ReplyType
  BY TurnAssumption DEF TInv, Control, ReplyType
<1>2. Checked \in Reply \cup {FixedReply}
  BY <1>1 DEF Checked
<1>3. ~turn.prompt.identityAsked => ~Checked.intro
  BY <1>1 DEF Checked, Violates, IdentityPolicy, FixedReply
<1>4. Checked \in ReplyType
  BY <1>1, <1>2, FixedIsReply, RepliesHaveLengths
<1>5. Rendered \in Replies
  BY <1>2 DEF Rendered, Replies
<1>6. Guided(Checked).intro = Checked.intro
  BY <1>4, GuidedReply
<1>7. QED
  BY <1>3, <1>5, <1>6 DEF Rendered

LEMMA StepEffect ==
  ASSUME TInv, [Next]_vars
  PROVE  Effect
<1> USE DEF Effect, TInv
<1>1. /\ Len(seen) \in Nat /\ pc \in Phase
      /\ pc \in Busy => turn.prompt \in Prompt /\ Len(seen) < MaxTurns
  BY DEF TypeOK, Control
<1> DEFINE Goes(outcome, reply) ==
             Return(outcome, reply) /\ pc \in Busy
               /\ outcome \in Outcome /\ reply \in Replies
<1>2. ASSUME NEW outcome, NEW reply, Goes(outcome, reply)
      PROVE  Shows(turn.prompt, outcome, reply, FALSE)
  BY <1>1, <1>2 DEF Return, Shows
<1>3. ASSUME NEW prompt \in Prompt, Think(prompt)
      PROVE  Moves \/ \E p, o, r : Forgets(p, o, r)
  <2>1. CASE Engine!Decide(UserTurn(prompt)) = "no_action"
    <3>1. Forgets(prompt, "silent", None)
      BY <1>3, <2>1 DEF Think, Forgets, Shows, Outcome
    <3>2. QED
      BY <3>1
  <2>2. CASE Engine!Decide(UserTurn(prompt)) # "no_action"
    BY <1>3, <2>2 DEF Think, Moves, Goto, PhaseOf, Busy
  <2>3. QED
    BY <2>1, <2>2
<1>4. ASSUME NEW outcome \in {"clarified", "refused", "unavailable"}, NEW reply \in Replies,
             pc \in Busy, Unrecorded(outcome, reply)
      PROVE  \E p, o, r : Forgets(p, o, r)
  <2>1. Shows(turn.prompt, outcome, reply, FALSE)
    BY <1>2, <1>4 DEF Unrecorded, Outcome
  <2>2. Forgets(turn.prompt, outcome, reply)
    BY <1>4, <2>1 DEF Forgets, Unrecorded
  <2>3. QED
    BY <2>2
<1>5. CASE ExecuteCommand
  <2>1. PICK reply \in LocalReply :
          \/ AppendComplete("command", turn.prompt, reply) /\ Return("command", reply)
          \/ Unrecorded("refused", reply)
    BY <1>5 DEF ExecuteCommand
  <2>2. pc \in Busy /\ reply \in Replies
    BY <1>5, FixedIsReply DEF ExecuteCommand, Busy
  <2>3. CASE AppendComplete("command", turn.prompt, reply) /\ Return("command", reply)
    <3>1. Shows(turn.prompt, "command", reply, FALSE)
      BY <1>2, <2>2, <2>3 DEF Outcome
    <3>2. KeepsWhole("command", "command", reply, FALSE)
      BY <2>2, <2>3, <3>1 DEF KeepsWhole
    <3>3. QED
      BY <3>2
  <2>4. QED
    BY <1>4, <2>1, <2>2, <2>3
<1>6. CASE AskClarification
  BY <1>4, <1>6, FixedIsReply DEF AskClarification, Busy
<1>7. CASE ClarifyGoalWish
  BY <1>4, <1>7, FixedIsReply DEF ClarifyGoalWish, Busy
<1>8. CASE ReadLocally
  <2>1. PICK reply \in LocalReply :
          AppendComplete("local_read", turn.prompt, reply) /\ Return("read", reply)
    BY <1>8 DEF ReadLocally
  <2>2. pc \in Busy /\ reply \in Replies
    BY <1>8, FixedIsReply DEF ReadLocally, LocalRead, Busy
  <2>3. Shows(turn.prompt, "read", reply, FALSE)
    BY <1>2, <2>1, <2>2 DEF Outcome
  <2>4. KeepsWhole("local_read", "read", reply, FALSE)
    BY <2>1, <2>2, <2>3 DEF KeepsWhole
  <2>5. QED
    BY <2>4
<1>9. CASE ReadUnavailable
  BY <1>4, <1>9, FixedIsReply DEF ReadUnavailable, LocalRead, Busy
<1>10. CASE ClarifyPersonal
  BY <1>4, <1>10, FixedIsReply DEF ClarifyPersonal, Conversational, Busy
<1>11. CASE StartConversation \/ ProposeFacts \/ AssembleContext \/ AskProvider \/ AskAgain
  BY <1>11 DEF StartConversation, ProposeFacts, AssembleContext, AskProvider, AskAgain,
     Conversational, Goto, Moves, Busy
<1>12. CASE Answer
  <2>1. /\ pc = "answered" /\ pc' = "idle" /\ pc \in Busy
        /\ AppendComplete("conversation", turn.prompt, Rendered)
        /\ Leave(turn.prompt, "answered", Rendered, TRUE)
    BY <1>12 DEF Answer, Busy
  <2>2. Rendered \in Replies /\ (~turn.prompt.identityAsked => ~Rendered.intro)
    BY <2>1, RenderedIsChecked
  <2>3. Shows(turn.prompt, "answered", Rendered, TRUE)
    BY <1>1, <2>1, <2>2 DEF Shows, Outcome, Control
  <2>4. KeepsWhole("conversation", "answered", Rendered, TRUE)
    BY <2>1, <2>2, <2>3 DEF KeepsWhole
  <2>5. QED
    BY <2>4
<1>13. CASE Fail
  <2>1. PICK asked \in BOOLEAN : Raise(asked)
    BY <1>13 DEF Fail, AssemblyFails, ProviderFails, ProposalReadFails
  <2>2. /\ pc \in Busy /\ pc \in {"proposals", "assembly", "provider", "answered"}
        /\ pc' \in {"idle", "failed"}
    BY <1>13 DEF Fail, AssemblyFails, ProviderFails, ProposalReadFails, Busy
  <2>3. Shows(turn.prompt, "raised", None, asked)
    BY <1>1, <2>1, <2>2 DEF Shows, Raise, Outcome, Control
  <2>4. KeepsHalf(asked)
    BY <2>1, <2>3 DEF KeepsHalf, Raise
  <2>5. QED
    BY <2>4
<1>14. QED
  BY <1>3, <1>5, <1>6, <1>7, <1>8, <1>9, <1>10, <1>11, <1>12, <1>13
     DEF Next, Route, Converse


(* What a turn shows, it adds to what was seen.                            *)
LEMMA ShowsEntry ==
  ASSUME TypeOK, NEW prompt, NEW outcome, NEW reply, NEW asked,
         Shows(prompt, outcome, reply, asked)
  PROVE  LET entry == [prompt |-> prompt, outcome |-> outcome, reply |-> reply, asked |-> asked]
         IN /\ entry \in Entry
            /\ seen' = Append(seen, entry) /\ seen' \in Seq(Entry)
            /\ Len(seen') = Len(seen) + 1 /\ Len(seen) \in Nat
            /\ seen'[Len(seen) + 1] = entry
            /\ \A t \in 1 .. Len(seen) : seen'[t] = seen[t]
<1> DEFINE entry == [prompt |-> prompt, outcome |-> outcome, reply |-> reply, asked |-> asked]
<1>1. entry \in Entry /\ seen' = Append(seen, entry) /\ seen \in Seq(Entry)
  BY DEF Shows, Leave, Entry, TypeOK
<1> HIDE DEF entry
<1>2. /\ seen' \in Seq(Entry) /\ Len(seen') = Len(seen) + 1 /\ Len(seen) \in Nat
      /\ seen'[Len(seen) + 1] = entry
      /\ \A t \in 1 .. Len(seen) : seen'[t] = seen[t]
  BY <1>1
<1>3. QED
  BY <1>1, <1>2 DEF entry

(* What each effect leaves of the session and of its record.               *)
LEMMA SessionAfter ==
  ASSUME TInv, Effect
  PROVE  SessionOK' /\ recordedBy' \in Seq(1 .. MaxTurns)
<1>1. SessionOK /\ recordedBy \in Seq(1 .. MaxTurns) /\ Len(seen) \in Nat
  BY DEF TInv, TypeOK, SessionOK, Texts
<1>2. UNCHANGED sessionVars => SessionOK'
  BY <1>1, SessionTypes DEF sessionVars, SessionOK, SessionTypeOK
<1>3. ASSUME NEW prompt, NEW outcome, NEW reply, NEW asked,
             Shows(prompt, outcome, reply, asked)
      PROVE  recordedBy' \in Seq(1 .. MaxTurns)
  <2>1. Len(seen) + 1 \in 1 .. MaxTurns
    BY <1>1, <1>3, TurnAssumption DEF Shows
  <2>2. Append(recordedBy, Len(seen) + 1) \in Seq(1 .. MaxTurns)
    BY <1>1, <2>1
  <2>3. QED
    BY <1>1, <1>3, <2>2 DEF Shows, Leave
<1>4. CASE Moves
  BY <1>1, <1>2, <1>4 DEF Moves
<1>5. ASSUME NEW prompt, NEW outcome, NEW reply, Forgets(prompt, outcome, reply)
      PROVE  SessionOK' /\ recordedBy' \in Seq(1 .. MaxTurns)
  BY <1>2, <1>3, <1>5 DEF Forgets
<1>6. ASSUME NEW kind, NEW outcome, NEW reply, NEW asked,
             KeepsWhole(kind, outcome, reply, asked)
      PROVE  SessionOK' /\ recordedBy' \in Seq(1 .. MaxTurns)
  <2>1. /\ kind \in ExchangeKind /\ turn.prompt \in Prompt /\ reply \in Replies
        /\ AppendComplete(kind, turn.prompt, reply)
    BY <1>6 DEF KeepsWhole, Shows, ExchangeKind
  <2>2. SessionOK'
    BY <1>1, <1>2, <2>1, CompleteEffect, TakenIsLast
  <2>3. QED
    BY <1>3, <1>6, <2>2 DEF KeepsWhole
<1>7. ASSUME NEW asked, KeepsHalf(asked)
      PROVE  SessionOK' /\ recordedBy' \in Seq(1 .. MaxTurns)
  <2>1. turn.prompt \in Prompt /\ AppendIncomplete(turn.prompt)
    BY <1>7 DEF KeepsHalf, Shows
  <2>2. SessionOK'
    BY <1>1, <1>2, <2>1, IncompleteEffect, TakenIsLast
  <2>3. QED
    BY <1>3, <1>7, <2>2 DEF KeepsHalf
<1>8. CASE Stop
  <2>1. /\ exchanges' = <<>> /\ accepted' = <<>> /\ truncated' = FALSE
        /\ nextTurnId' = 1 /\ nextExchangeId' = 1 /\ recordedBy' = <<>>
    BY <1>8 DEF Stop, Clear
  <2>2. <<>> \in Seq(Exchanges) /\ <<>> \in Seq(1 .. MaxTurns)
    OBVIOUS
  <2>3. /\ exchanges' \in Seq(Exchanges) /\ accepted' \in Seq(Exchanges)
        /\ truncated' \in BOOLEAN
        /\ nextTurnId' \in Nat \ {0} /\ nextExchangeId' \in Nat \ {0}
    <3>1. exchanges' \in Seq(Exchanges)
      BY <2>1, <2>2
    <3>2. accepted' \in Seq(Exchanges)
      BY <2>1, <2>2
    <3>3. truncated' \in BOOLEAN
      BY <2>1
    <3>4. nextTurnId' \in Nat \ {0} /\ nextExchangeId' \in Nat \ {0}
      BY <2>1
    <3>5. QED
      BY <3>1, <3>2, <3>3, <3>4
  <2>4. SessionOK'
    BY <2>3 DEF SessionOK, SessionTypeOK, Exchanges, Turns
  <2>5. QED
    BY <2>1, <2>2, <2>4
<1>9. CASE UNCHANGED vars
  BY <1>1, <1>2, <1>9 DEF vars
<1>10. QED
  BY <1>4, <1>5, <1>6, <1>7, <1>8, <1>9 DEF Effect

LEMMA TurnFieldsAfter ==
  ASSUME NEW t \in TurnType
  PROVE  /\ \A i \in {"required", "forbidden"} : [t EXCEPT !.identity = i] \in TurnType
         /\ \A found \in BOOLEAN : [t EXCEPT !.proposals = found] \in TurnType
         /\ \A r \in Reply : [t EXCEPT !.reply = r] \in TurnType
BY DEF TurnType

LEMMA TInvKept == TInv /\ [Next]_vars => TInv'
<1> SUFFICES ASSUME TInv, [Next]_vars PROVE TInv'
  OBVIOUS
<1>1. Effect /\ SessionOK' /\ recordedBy' \in Seq(1 .. MaxTurns)
  BY StepEffect, SessionAfter
<1>2. /\ turn \in TurnType /\ NoTurn \in TurnType /\ pc \in Phase
      /\ seen \in Seq(Entry)
  BY DEF TInv, TypeOK, TurnType, NoTurn, Entry
<1>3. ASSUME turn' \in TurnType, pc' \in Phase, seen' \in Seq(Entry)
      PROVE  TypeOK'
  BY <1>1, <1>3 DEF TypeOK, TurnType, Entry, SessionOK, Texts
<1>4. ASSUME NEW prompt, NEW outcome, NEW reply, NEW asked,
             Shows(prompt, outcome, reply, asked)
      PROVE  TInv'
  <2>1. turn' = NoTurn /\ pc' \in {"idle", "failed"}
    BY <1>4 DEF Shows, Leave
  <2>2. seen' \in Seq(Entry)
    BY <1>4, ShowsEntry DEF TInv
  <2>3. TypeOK'
    BY <1>2, <1>3, <2>1, <2>2 DEF Phase
  <2>4. Control'
    BY <2>1 DEF Control, Busy
  <2>5. QED
    BY <2>3, <2>4 DEF TInv
<1>5. ASSUME UNCHANGED sessionVars
      PROVE  \A p : AuthorityClarifies(p)' <=> AuthorityClarifies(p)
  BY <1>5 DEF AuthorityClarifies, GuardedFollowup, sessionVars
<1>6. CASE \E prompt \in Prompt : Think(prompt)
  <2>1. PICK prompt \in Prompt : Think(prompt)
    BY <1>6
  <2>2. CASE Engine!Decide(UserTurn(prompt)) = "no_action"
    <3>1. Shows(prompt, "silent", None, FALSE)
      BY <2>1, <2>2 DEF Think, Shows, Outcome
    <3>2. QED
      BY <1>4, <3>1
  <2>3. CASE Engine!Decide(UserTurn(prompt)) # "no_action"
    <3>1. /\ pc' \in {"routing", "clarification", "command"} /\ seen' = seen
          /\ turn' = [NoTurn EXCEPT !.prompt = prompt] /\ Len(seen) < MaxTurns
      BY <2>1, <2>3 DEF Think, Goto, PhaseOf
    <3>2. turn' \in TurnType /\ turn'.prompt = prompt
      BY <3>1 DEF NoTurn, TurnType
    <3>3. TypeOK'
      BY <1>2, <1>3, <3>1, <3>2 DEF Phase
    <3>4. Control'
      BY <3>1, <3>2 DEF Control
    <3>5. QED
      BY <3>3, <3>4 DEF TInv
  <2>4. QED
    BY <2>2, <2>3
<1>7. CASE StartConversation
  <2>1. /\ pc = "routing" /\ pc' = "proposals" /\ UNCHANGED <<sessionVars, seen>>
        /\ turn' = [turn EXCEPT !.identity = IdentityPolicy(turn.prompt)]
        /\ ~AuthorityClarifies(turn.prompt)
        /\ turn.prompt \in Prompt /\ Len(seen) < MaxTurns
    BY <1>7 DEF StartConversation, Conversational, Goto, TInv, Control, Busy
  <2>2. /\ turn' \in TurnType /\ turn'.prompt = turn.prompt
        /\ turn'.identity = IdentityPolicy(turn.prompt)
    BY <1>2, <2>1, TurnFieldsAfter DEF IdentityPolicy, TurnType
  <2>3. TypeOK'
    BY <1>2, <1>3, <2>1, <2>2 DEF Phase
  <2>4. Control'
    BY <1>5, <2>1, <2>2 DEF Control, IdentityPolicy
  <2>5. QED
    BY <2>3, <2>4 DEF TInv
<1>8. CASE ProposeFacts \/ AssembleContext \/ AskProvider \/ AskAgain
  <2>1. /\ pc \in {"proposals", "assembly", "provider", "answered"}
        /\ pc' \in {"assembly", "provider", "answered"}
        /\ UNCHANGED <<sessionVars, seen>>
    BY <1>8 DEF ProposeFacts, AssembleContext, AskProvider, AskAgain, Goto
  <2>2. /\ turn.prompt \in Prompt /\ Len(seen) < MaxTurns
        /\ turn.identity = IdentityPolicy(turn.prompt)
        /\ ~AuthorityClarifies(turn.prompt)
    BY <2>1 DEF TInv, Control, Busy
  <2>3. /\ turn' \in TurnType /\ turn'.prompt = turn.prompt
        /\ turn'.identity = turn.identity
        /\ pc' = "answered" => turn'.reply \in Reply
    <3>1. CASE ProposeFacts
      <4>1. PICK found \in BOOLEAN : turn' = [turn EXCEPT !.proposals = found]
        BY <3>1 DEF ProposeFacts, FactsFound
      <4>2. pc' = "assembly"
        BY <3>1 DEF ProposeFacts, Goto
      <4>3. turn' \in TurnType
        BY <1>2, <4>1, TurnFieldsAfter
      <4>4. turn'.prompt = turn.prompt /\ turn'.identity = turn.identity
        BY <1>2, <4>1 DEF TurnType
      <4>5. QED
        BY <4>2, <4>3, <4>4
    <3>2. CASE AssembleContext
      BY <1>2, <3>2 DEF AssembleContext, Goto
    <3>3. CASE AskProvider
      BY <1>2, <3>3, TurnFieldsAfter DEF AskProvider, TurnType
    <3>4. CASE AskAgain
      <4>1. PICK reply \in Reply :
              turn' = [turn EXCEPT !.reply = reply, !.retried = TRUE]
        BY <3>4 DEF AskAgain
      <4> DEFINE older == [turn EXCEPT !.reply = reply]
      <4>2. /\ older \in TurnType /\ older.reply = reply /\ older.prompt = turn.prompt
            /\ older.identity = turn.identity
        BY <1>2 DEF TurnType
      <4>3. turn' = [older EXCEPT !.retried = TRUE]
        BY <4>1
      <4> HIDE DEF older
      <4>4. QED
        BY <4>2, <4>3 DEF TurnType
    <3>5. QED
      BY <1>8, <3>1, <3>2, <3>3, <3>4
  <2>4. TypeOK'
    BY <1>2, <1>3, <2>1, <2>3 DEF Phase
  <2>5. Control'
    BY <1>5, <2>1, <2>2, <2>3 DEF Control
  <2>6. QED
    BY <2>4, <2>5 DEF TInv
<1>9. CASE Stop
  <2>1. pc' = "stopped" /\ UNCHANGED <<turn, seen>>
    BY <1>9 DEF Stop
  <2>2. TypeOK'
    BY <1>2, <1>3, <2>1 DEF Phase
  <2>3. QED
    BY <2>1, <2>2 DEF TInv, Control, Busy
<1>10. CASE UNCHANGED vars
  <2>1. UNCHANGED <<pc, turn, seen, sessionVars>>
    BY <1>10 DEF vars
  <2>2. TypeOK'
    BY <1>2, <1>3, <2>1
  <2>3. Control'
    BY <1>5, <2>1 DEF TInv, Control
  <2>4. QED
    BY <2>2, <2>3 DEF TInv
<1>11. CASE ~Moves /\ ~Stop /\ ~UNCHANGED vars
  BY <1>1, <1>4, <1>11 DEF Effect, Forgets, KeepsWhole, KeepsHalf
<1>12. CASE Moves
  <2>1. \/ \E prompt \in Prompt : Think(prompt)
        \/ StartConversation \/ ProposeFacts \/ AssembleContext \/ AskProvider \/ AskAgain
        \/ UNCHANGED vars
    BY <1>12 DEF Moves, Next, Route, Converse, Fail, ExecuteCommand, AskClarification,
       ClarifyGoalWish, ReadLocally, ReadUnavailable, ClarifyPersonal, Answer, Unrecorded,
       Return, AssemblyFails, ProviderFails, ProposalReadFails, Stop, Busy
  <2>2. QED
    BY <1>6, <1>7, <1>8, <1>10, <2>1
<1>13. QED
  BY <1>9, <1>10, <1>11, <1>12

LEMMA TInvStart == Init => TInv
<1> SUFFICES ASSUME Init PROVE TInv
  OBVIOUS
<1>1. /\ exchanges = <<>> /\ accepted = <<>> /\ truncated = FALSE
      /\ nextTurnId = 1 /\ nextExchangeId = 1
      /\ pc = "idle" /\ turn = NoTurn /\ seen = <<>> /\ recordedBy = <<>>
  BY DEF Init, SessionInit
<1>2. /\ <<>> \in Seq(Exchanges) /\ <<>> \in Seq(1 .. MaxTurns) /\ <<>> \in Seq(Entry)
  OBVIOUS
<1>3. SessionOK
  <2>1. exchanges \in Seq(Exchanges) /\ accepted \in Seq(Exchanges)
    BY <1>1, <1>2
  <2>2. truncated \in BOOLEAN
    BY <1>1
  <2>3. nextTurnId \in Nat \ {0} /\ nextExchangeId \in Nat \ {0}
    BY <1>1
  <2>4. QED
    BY <2>1, <2>2, <2>3, SessionTypes
<1>4. turn \in TurnType
  BY <1>1 DEF NoTurn, TurnType
<1>5. seen \in Seq(Entry) /\ recordedBy \in Seq(1 .. MaxTurns)
  BY <1>1, <1>2
<1>6. pc \in Phase /\ Control
  BY <1>1 DEF Phase, Control, Busy
<1>7. QED
  BY <1>3, <1>4, <1>5, <1>6 DEF TInv, TypeOK, TurnType, Entry, SessionOK, Texts

LEMMA TInvAlways == Spec => []TInv
BY TInvStart, TInvKept, PTL DEF Spec

(* The variables of think and of its session keep their types: what the    *)
(* window holds are whole exchanges of lines and answers (Nel.think,       *)
(* ConversationSession).                                                   *)
THEOREM TypeCorrect == Spec => []TypeOK
<1>1. TInv => TypeOK
  BY DEF TInv
<1>2. QED
  BY <1>1, TInvAlways, PTL

-----------------------------------------------------------------------------
(* What the user is shown.                                                 *)

LEMMA PreambleKept ==
  TInv /\ NoIdentityPreamble /\ [Next]_vars => NoIdentityPreamble'
<1> SUFFICES ASSUME TInv, NoIdentityPreamble, [Next]_vars PROVE NoIdentityPreamble'
  OBVIOUS
<1>1. Effect /\ Len(seen) \in Nat /\ DOMAIN seen = 1 .. Len(seen)
  BY StepEffect DEF TInv, TypeOK
<1>2. ASSUME NEW prompt, NEW outcome, NEW reply, NEW asked,
             Shows(prompt, outcome, reply, asked),
             outcome = "answered" /\ ~prompt.identityAsked => ~reply.intro
      PROVE  NoIdentityPreamble'
  <2> DEFINE entry == [prompt |-> prompt, outcome |-> outcome, reply |-> reply, asked |-> asked]
  <2>1. /\ seen' \in Seq(Entry) /\ Len(seen') = Len(seen) + 1
        /\ seen'[Len(seen) + 1] = entry
        /\ \A t \in 1 .. Len(seen) : seen'[t] = seen[t]
    BY <1>2, ShowsEntry DEF TInv
  <2>2. DOMAIN seen' = 1 .. Len(seen) + 1
    BY <2>1
  <2>3. Answered(entry) /\ ~entry.prompt.identityAsked => ~entry.reply.intro
    BY <1>2 DEF Answered
  <2> HIDE DEF entry
  <2>4. ASSUME NEW t \in DOMAIN seen'
        PROVE  Answered(seen'[t]) /\ ~seen'[t].prompt.identityAsked => ~seen'[t].reply.intro
    <3>1. CASE t = Len(seen) + 1
      BY <2>1, <2>3, <3>1
    <3>2. CASE t \in 1 .. Len(seen)
      BY <1>1, <2>1, <3>2 DEF NoIdentityPreamble
    <3>3. QED
      BY <1>1, <2>2, <3>1, <3>2
  <2>5. QED
    BY <2>4 DEF NoIdentityPreamble, Answered
<1>3. CASE seen' = seen
  BY <1>3 DEF NoIdentityPreamble, Answered
<1>4. CASE \E prompt, outcome, reply : Forgets(prompt, outcome, reply)
  BY <1>2, <1>4 DEF Forgets
<1>5. CASE \E kind, outcome, reply, asked : KeepsWhole(kind, outcome, reply, asked)
  BY <1>2, <1>5 DEF KeepsWhole
<1>6. CASE \E asked : KeepsHalf(asked)
  BY <1>2, <1>6 DEF KeepsHalf
<1>7. QED
  BY <1>1, <1>3, <1>4, <1>5, <1>6 DEF Effect, Moves, Stop, vars

(* No answer that opens with an identity preamble is shown to a user who   *)
(* did not ask for it, whatever the provider answers and however often     *)
(* (ExpressionBoundaryValidator, and the retry and fallback of Nel.think). *)
THEOREM PreambleIsNeverShown == Spec => []NoIdentityPreamble
<1>1. Init => NoIdentityPreamble
  BY DEF Init, NoIdentityPreamble
<1>2. QED
  BY <1>1, PreambleKept, TInvAlways, PTL DEF Spec

(* While the session lasts, a turn whose topic is protected is the last of *)
(* the window until another turn ends.                                     *)
Protected(shown) ==
  \/ ReadOfFacts(shown) /\ Storable("local_read", shown.prompt, shown.reply)
  \/ /\ Answered(shown) /\ shown.prompt.personal = "assertion"
     /\ Storable("conversation", shown.prompt, shown.reply)

LastKept ==
  pc # "stopped" /\ seen # <<>> /\ Protected(Last(seen)) =>
    exchanges # <<>> /\ Personal(Last(exchanges))

FInv == FollowupGuarded /\ LastKept

LEMMA FInvKept == TInv /\ FInv /\ [Next]_vars => FInv'
<1> SUFFICES ASSUME TInv, FInv, [Next]_vars PROVE FInv'
  OBVIOUS
<1>1. Effect /\ SessionOK /\ Len(seen) \in Nat /\ seen \in Seq(Entry)
  BY StepEffect DEF TInv, TypeOK, SessionOK, Texts, Entry
<1>2. ASSUME NEW prompt, NEW outcome, NEW reply, NEW asked,
             Shows(prompt, outcome, reply, asked)
      PROVE  FollowupGuarded'
  <2> DEFINE entry == [prompt |-> prompt, outcome |-> outcome, reply |-> reply, asked |-> asked]
  <2>1. /\ Len(seen') = Len(seen) + 1 /\ seen'[Len(seen) + 1] = entry
        /\ \A t \in 1 .. Len(seen) : seen'[t] = seen[t]
    BY <1>2, ShowsEntry DEF TInv
  <2>2. ASSUME NEW t \in 2 .. Len(seen) + 1, seen'[t].prompt.contrast,
               Protected(seen'[t - 1])
        PROVE  ~seen'[t].asked
    <3>1. t - 1 \in 1 .. Len(seen) /\ seen'[t - 1] = seen[t - 1]
      BY <1>1, <2>1
    <3>2. CASE t \in 2 .. Len(seen)
      <4>1. seen'[t] = seen[t]
        BY <2>1, <3>2
      <4>2. QED
        BY <2>2, <3>1, <3>2, <4>1 DEF FInv, FollowupGuarded, Protected
    <3>3. CASE t = Len(seen) + 1
      <4>1. seen # <<>> /\ Last(seen) = seen[t - 1] /\ pc # "stopped"
        BY <1>1, <1>2, <3>1, <3>3 DEF Last, Shows, Busy
      <4>2. exchanges # <<>> /\ Personal(Last(exchanges))
        BY <2>2, <3>1, <4>1 DEF FInv, LastKept
      <4>3. prompt.contrast
        BY <2>1, <2>2, <3>3
      <4>4. ~asked
        BY <1>2, <4>2, <4>3 DEF Shows, AuthorityClarifies, GuardedFollowup
      <4>5. QED
        BY <2>1, <3>3, <4>4
    <3>4. QED
      BY <1>1, <3>2, <3>3
  <2>3. QED
    BY <2>1, <2>2 DEF FollowupGuarded, Protected, ReadOfFacts, Answered, Storable
<1>3. ASSUME seen' = seen PROVE FollowupGuarded'
  BY <1>3 DEF FInv, FollowupGuarded, ReadOfFacts, Answered, Storable
<1>4. ASSUME NEW kind, NEW outcome, NEW reply, NEW asked,
             KeepsWhole(kind, outcome, reply, asked)
      PROVE  LastKept'
  <2> DEFINE entry == [prompt |-> turn.prompt, outcome |-> outcome, reply |-> reply,
                       asked |-> asked]
             e == CompleteExchange(kind, turn.prompt, reply)
  <2>1. /\ turn.prompt \in Prompt /\ reply \in Replies /\ kind \in ExchangeKind
        /\ Shows(turn.prompt, outcome, reply, asked)
        /\ AppendComplete(kind, turn.prompt, reply)
    BY <1>4 DEF KeepsWhole, Shows, ExchangeKind
  <2>2. Last(seen') = entry
    <3>1. /\ Len(seen') = Len(seen) + 1 /\ seen'[Len(seen) + 1] = entry
          /\ Len(seen) \in Nat
      BY <2>1, ShowsEntry DEF TInv
    <3>2. QED
      BY <3>1 DEF Last
  <2>3. e.kind = kind /\ e.user.text = turn.prompt
    BY DEF CompleteExchange
  <2>4. CASE Protected(entry)
    <3>1. Storable(kind, turn.prompt, reply) /\ Personal(e)
      <4>1. CASE ReadOfFacts(entry) /\ Storable("local_read", turn.prompt, reply)
        BY <1>4, <2>3, <4>1 DEF KeepsWhole, ReadOfFacts, Personal
      <4>2. CASE /\ Answered(entry) /\ turn.prompt.personal = "assertion"
                 /\ Storable("conversation", turn.prompt, reply)
        BY <1>4, <2>3, <4>2 DEF KeepsWhole, Answered, Personal
      <4>3. QED
        BY <2>4, <4>1, <4>2 DEF Protected
    <3>2. e \in Exchanges /\ Taken(e)
      BY <1>1, <2>1, <3>1, CompleteEffect
    <3>3. exchanges' # <<>> /\ Last(exchanges') = e
      BY <1>1, <3>2, TakenIsLast
    <3>4. QED
      BY <3>1, <3>3 DEF LastKept, Personal
  <2>5. CASE ~Protected(entry)
    BY <2>2, <2>5 DEF LastKept, Protected, ReadOfFacts, Answered, Storable
  <2>6. QED
    BY <2>4, <2>5
<1>5. ASSUME NEW prompt, NEW outcome, NEW reply, NEW asked,
             Shows(prompt, outcome, reply, asked), outcome \notin {"read", "answered"}
      PROVE  LastKept'
  <2>1. Last(seen').outcome = outcome
    <3>1. /\ Len(seen') = Len(seen) + 1 /\ Len(seen) \in Nat
          /\ seen'[Len(seen) + 1] = [prompt |-> prompt, outcome |-> outcome,
                                     reply |-> reply, asked |-> asked]
      BY <1>5, ShowsEntry DEF TInv
    <3>2. QED
      BY <3>1 DEF Last
  <2>2. QED
    BY <1>5, <2>1 DEF LastKept, Protected, ReadOfFacts, Answered
<1>6. CASE Moves \/ UNCHANGED vars
  <2>1. UNCHANGED <<exchanges, seen>> /\ (pc # "stopped" \/ pc' = pc)
    BY <1>6 DEF Moves, vars, sessionVars, Busy
  <2>2. LastKept'
    BY <2>1 DEF FInv, LastKept, Protected, ReadOfFacts, Answered, Storable, Personal
  <2>3. QED
    BY <1>3, <2>1, <2>2 DEF FInv
<1>7. CASE \E prompt, outcome, reply : Forgets(prompt, outcome, reply)
  <2>1. PICK prompt, outcome, reply : Forgets(prompt, outcome, reply)
    BY <1>7
  <2>2. QED
    BY <1>2, <1>5, <2>1 DEF Forgets, FInv
<1>8. CASE \E kind, outcome, reply, asked : KeepsWhole(kind, outcome, reply, asked)
  <2>1. PICK kind, outcome, reply, asked : KeepsWhole(kind, outcome, reply, asked)
    BY <1>8
  <2>2. QED
    BY <1>2, <1>4, <2>1 DEF KeepsWhole, FInv
<1>9. CASE \E asked : KeepsHalf(asked)
  BY <1>2, <1>5, <1>9 DEF KeepsHalf, FInv
<1>10. CASE Stop
  BY <1>3, <1>10 DEF Stop, LastKept, FInv
<1>11. QED
  BY <1>1, <1>6, <1>7, <1>8, <1>9, <1>10 DEF Effect

(* A contrast right after a read of facts, or after an answered assertion, *)
(* never reaches the provider when that exchange could be kept             *)
(* (ResponseAuthorityPlanner on the snapshot of the session): the window   *)
(* the authority reads ends with the turn before.                          *)
THEOREM ContrastIsGuarded == Spec => []FollowupGuarded
<1>1. Init => FInv
  BY DEF Init, FInv, FollowupGuarded, LastKept
<1>2. FInv => FollowupGuarded
  BY DEF FInv
<1>3. QED
  BY <1>1, <1>2, FInvKept, TInvAlways, PTL DEF Spec

-----------------------------------------------------------------------------
(* What is recorded.                                                       *)

InOrder ==
  /\ Len(recordedBy) = Len(accepted)
  /\ \A i, j \in DOMAIN recordedBy : i < j => recordedBy[i] < recordedBy[j]
  /\ \A i \in DOMAIN recordedBy : recordedBy[i] \in 1 .. Len(seen)

RecordOf(e, shown) ==
  /\ e.user.text = shown.prompt
  /\ IF Complete(e) THEN e.assistant.text = shown.reply ELSE shown.outcome = "raised"

Truthful == \A i \in DOMAIN accepted : RecordOf(accepted[i], seen[recordedBy[i]])

Owed(shown) == Answered(shown) /\ Storable("conversation", shown.prompt, shown.reply)

NoneForgotten ==
  pc # "stopped" =>
    \A t \in DOMAIN seen : Owed(seen[t]) => \E i \in DOMAIN recordedBy : recordedBy[i] = t

RInv == InOrder /\ Truthful /\ NoneForgotten

LEMMA RInvIsTranscript == RInv => TranscriptIsTrue
BY DEF RInv, InOrder, Truthful, NoneForgotten, TranscriptIsTrue, RecordOf, Owed

(* A turn ends without being recorded.                                     *)
LEMMA UnrecordedTurn ==
  ASSUME TInv, RInv, NEW prompt, NEW outcome, NEW reply, NEW asked,
         Shows(prompt, outcome, reply, asked), UNCHANGED sessionVars,
         outcome = "answered" => ~Storable("conversation", prompt, reply)
  PROVE  RInv'
<1> DEFINE entry == [prompt |-> prompt, outcome |-> outcome, reply |-> reply, asked |-> asked]
<1>1. /\ seen' \in Seq(Entry) /\ Len(seen') = Len(seen) + 1 /\ Len(seen) \in Nat
      /\ seen'[Len(seen) + 1] = entry /\ seen \in Seq(Entry)
      /\ \A t \in 1 .. Len(seen) : seen'[t] = seen[t]
  <2>1. seen \in Seq(Entry)
    BY DEF TInv, TypeOK, Entry
  <2>2. QED
    BY <2>1, ShowsEntry DEF TInv
<1>2. UNCHANGED <<accepted, recordedBy>> /\ pc # "stopped"
  BY DEF Shows, Leave, sessionVars, Busy
<1>3. DOMAIN seen = 1 .. Len(seen) /\ DOMAIN seen' = 1 .. Len(seen) + 1
  BY <1>1
<1>4. DOMAIN accepted = DOMAIN recordedBy
  BY DEF RInv, InOrder, TInv, TypeOK, SessionTypeOK
<1>5. ~Owed(entry)
  BY DEF Owed, Answered
<1> HIDE DEF entry
<1>6. InOrder'
  BY <1>1, <1>2 DEF RInv, InOrder
<1>7. Truthful'
  BY <1>1, <1>2, <1>4 DEF RInv, InOrder, Truthful, RecordOf, Complete
<1>8. NoneForgotten'
  <2>1. ASSUME NEW t \in DOMAIN seen', Owed(seen'[t])
        PROVE  \E i \in DOMAIN recordedBy : recordedBy[i] = t
    <3>1. t \in 1 .. Len(seen) /\ seen'[t] = seen[t]
      BY <1>1, <1>3, <1>5, <2>1
    <3>2. QED
      BY <1>2, <1>3, <2>1, <3>1 DEF RInv, NoneForgotten
  <2>2. QED
    BY <1>2, <2>1 DEF NoneForgotten, Owed, Answered, Storable
<1>9. QED
  BY <1>6, <1>7, <1>8 DEF RInv

(* A turn ends and is recorded.                                            *)
LEMMA RecordedTurn ==
  ASSUME TInv, RInv, NEW prompt, NEW outcome, NEW reply, NEW asked,
         Shows(prompt, outcome, reply, asked), NEW e \in Exchanges, Taken(e),
         e.user.text = prompt,
         IF Complete(e) THEN e.assistant.text = reply ELSE outcome = "raised"
  PROVE  RInv'
<1> DEFINE entry == [prompt |-> prompt, outcome |-> outcome, reply |-> reply, asked |-> asked]
           last == Len(seen) + 1
           n == Len(accepted)
<1>1. /\ seen' \in Seq(Entry) /\ Len(seen') = last /\ Len(seen) \in Nat
      /\ seen'[last] = entry /\ seen \in Seq(Entry)
      /\ \A t \in 1 .. Len(seen) : seen'[t] = seen[t]
  <2>1. seen \in Seq(Entry)
    BY DEF TInv, TypeOK, Entry
  <2>2. QED
    BY <2>1, ShowsEntry DEF TInv
<1>2. RecordOf(e, entry)
  BY DEF RecordOf
<1>3. /\ accepted \in Seq(Exchanges) /\ recordedBy \in Seq(1 .. MaxTurns) /\ n \in Nat
      /\ Len(recordedBy) = n
  BY SessionTypes DEF TInv, TypeOK, SessionOK, Texts, RInv, InOrder
<1>4. accepted' = Append(accepted, e) /\ recordedBy' = Append(recordedBy, last)
  <2>1. Append(accepted, e) # accepted
    BY <1>3
  <2>2. QED
    BY <2>1 DEF Taken, Shows, Leave
<1>5. DOMAIN seen = 1 .. Len(seen) /\ DOMAIN seen' = 1 .. last
  BY <1>1
<1>6. /\ DOMAIN accepted' = 1 .. n + 1 /\ Len(accepted') = n + 1 /\ accepted'[n + 1] = e
      /\ \A i \in 1 .. n : accepted'[i] = accepted[i]
      /\ DOMAIN accepted = 1 .. n
  BY <1>3, <1>4
<1>7. last \in 1 .. MaxTurns
  BY <1>1, TurnAssumption DEF Shows
<1>8. /\ DOMAIN recordedBy' = 1 .. n + 1 /\ Len(recordedBy') = n + 1
      /\ recordedBy'[n + 1] = last
      /\ \A i \in 1 .. n : recordedBy'[i] = recordedBy[i]
      /\ DOMAIN recordedBy = 1 .. n
  <2> HIDE DEF last
  <2>1. QED
    BY <1>3, <1>4, <1>7
<1>9. \A i \in 1 .. n : recordedBy[i] \in 1 .. Len(seen)
  BY <1>8 DEF RInv, InOrder
<1> HIDE DEF entry
<1>10. InOrder'
  <2>1. Len(recordedBy') = Len(accepted')
    BY <1>6, <1>8
  <2>2. ASSUME NEW i \in DOMAIN recordedBy', NEW j \in DOMAIN recordedBy', i < j
        PROVE  recordedBy'[i] < recordedBy'[j]
    <3>1. i \in 1 .. n /\ recordedBy'[i] = recordedBy[i] /\ recordedBy[i] \in 1 .. Len(seen)
      BY <1>3, <1>8, <1>9, <2>2
    <3>2. CASE j = n + 1
      BY <1>1, <1>8, <3>1, <3>2
    <3>3. CASE j \in 1 .. n
      BY <1>8, <2>2, <3>1, <3>3 DEF RInv, InOrder
    <3>4. QED
      BY <1>3, <1>8, <3>2, <3>3
  <2>3. ASSUME NEW i \in DOMAIN recordedBy'
        PROVE  recordedBy'[i] \in 1 .. Len(seen')
    <3>1. CASE i = n + 1
      BY <1>1, <1>8, <3>1
    <3>2. CASE i \in 1 .. n
      BY <1>1, <1>8, <1>9, <3>2
    <3>3. QED
      BY <1>3, <1>8, <3>1, <3>2
  <2>4. QED
    BY <2>1, <2>2, <2>3 DEF InOrder
<1>11. Truthful'
  <2>1. ASSUME NEW i \in DOMAIN accepted'
        PROVE  RecordOf(accepted'[i], seen'[recordedBy'[i]])
    <3>1. CASE i = n + 1
      BY <1>1, <1>2, <1>6, <1>8, <3>1
    <3>2. CASE i \in 1 .. n
      <4>1. accepted'[i] = accepted[i] /\ seen'[recordedBy'[i]] = seen[recordedBy[i]]
        BY <1>1, <1>6, <1>8, <1>9, <3>2
      <4>2. QED
        BY <1>6, <3>2, <4>1 DEF RInv, Truthful
    <3>3. QED
      BY <1>3, <1>6, <3>1, <3>2
  <2>2. QED
    BY <2>1 DEF Truthful, RecordOf, Complete
<1>12. NoneForgotten'
  <2>1. ASSUME NEW t \in DOMAIN seen', Owed(seen'[t])
        PROVE  \E i \in DOMAIN recordedBy' : recordedBy'[i] = t
    <3>1. CASE t = last
      BY <1>3, <1>8, <3>1, n + 1 \in 1 .. n + 1
    <3>2. CASE t \in 1 .. Len(seen)
      <4>1. pc # "stopped" /\ seen'[t] = seen[t]
        BY <1>1, <3>2 DEF Shows, Busy
      <4>2. PICK i \in DOMAIN recordedBy : recordedBy[i] = t
        BY <1>5, <2>1, <3>2, <4>1 DEF RInv, NoneForgotten
      <4>3. i \in DOMAIN recordedBy' /\ recordedBy'[i] = t
        BY <1>3, <1>8, <4>2
      <4>4. QED
        BY <4>3
    <3>3. QED
      BY <1>1, <1>5, <3>1, <3>2
  <2>2. QED
    BY <2>1 DEF NoneForgotten, Owed, Answered, Storable
<1>13. QED
  BY <1>10, <1>11, <1>12 DEF RInv

LEMMA RInvKept == TInv /\ RInv /\ [Next]_vars => RInv'
<1> SUFFICES ASSUME TInv, RInv, [Next]_vars PROVE RInv'
  OBVIOUS
<1>1. Effect /\ SessionOK
  BY StepEffect DEF TInv, TypeOK, SessionOK, Texts
<1>2. CASE Moves \/ UNCHANGED vars
  <2>1. UNCHANGED <<accepted, recordedBy, seen>> /\ (pc # "stopped" \/ pc' = pc)
    BY <1>2 DEF Moves, vars, sessionVars, Busy
  <2>2. InOrder'
    BY <2>1 DEF RInv, InOrder
  <2>3. Truthful'
    BY <2>1 DEF RInv, Truthful, RecordOf, Complete
  <2>4. NoneForgotten'
    BY <2>1 DEF RInv, NoneForgotten, Owed, Answered, Storable
  <2>5. QED
    BY <2>2, <2>3, <2>4 DEF RInv
<1>3. CASE \E prompt, outcome, reply : Forgets(prompt, outcome, reply)
  <2>1. PICK prompt, outcome, reply : Forgets(prompt, outcome, reply)
    BY <1>3
  <2>2. Shows(prompt, outcome, reply, FALSE) /\ outcome # "answered" /\ UNCHANGED sessionVars
    BY <2>1 DEF Forgets
  <2>3. QED
    BY <2>2, UnrecordedTurn
<1>4. CASE \E kind, outcome, reply, asked : KeepsWhole(kind, outcome, reply, asked)
  <2>1. PICK kind, outcome, reply, asked : KeepsWhole(kind, outcome, reply, asked)
    BY <1>4
  <2> DEFINE e == CompleteExchange(kind, turn.prompt, reply)
  <2>2. /\ turn.prompt \in Prompt /\ reply \in Replies /\ kind \in ExchangeKind
        /\ Shows(turn.prompt, outcome, reply, asked)
        /\ AppendComplete(kind, turn.prompt, reply)
        /\ outcome = "answered" => kind = "conversation"
    BY <2>1 DEF KeepsWhole, Shows, ExchangeKind
  <2>3. /\ e \in Exchanges /\ Complete(e)
        /\ Taken(e) \/ (UNCHANGED sessionVars /\ ~Storable(kind, turn.prompt, reply))
    BY <1>1, <2>2, CompleteEffect
  <2>4. e.user.text = turn.prompt /\ e.assistant.text = reply
    BY DEF CompleteExchange
  <2> HIDE DEF e
  <2>5. CASE Taken(e)
    BY <2>2, <2>3, <2>4, <2>5, RecordedTurn
  <2>6. CASE UNCHANGED sessionVars /\ ~Storable(kind, turn.prompt, reply)
    BY <2>2, <2>6, UnrecordedTurn
  <2>7. QED
    BY <2>3, <2>5, <2>6
<1>5. CASE \E asked : KeepsHalf(asked)
  <2>1. PICK asked : KeepsHalf(asked)
    BY <1>5
  <2> DEFINE e == IncompleteExchange(turn.prompt)
  <2>2. /\ Shows(turn.prompt, "raised", None, asked) /\ turn.prompt \in Prompt
        /\ AppendIncomplete(turn.prompt)
    BY <2>1 DEF KeepsHalf, Shows
  <2>3. e \in Exchanges /\ ~Complete(e) /\ (Taken(e) \/ UNCHANGED sessionVars)
    BY <1>1, <2>2, IncompleteEffect
  <2>4. e.user.text = turn.prompt
    BY DEF IncompleteExchange
  <2> HIDE DEF e
  <2>5. CASE Taken(e)
    BY <2>2, <2>3, <2>4, <2>5, RecordedTurn
  <2>6. CASE UNCHANGED sessionVars
    BY <2>2, <2>6, UnrecordedTurn
  <2>7. QED
    BY <2>3, <2>5, <2>6
<1>6. CASE Stop
  <2>1. recordedBy' = <<>> /\ accepted' = <<>> /\ pc' = "stopped"
    BY <1>6 DEF Stop, Clear
  <2>2. QED
    BY <2>1 DEF RInv, InOrder, Truthful, NoneForgotten
<1>7. QED
  BY <1>1, <1>2, <1>3, <1>4, <1>5, <1>6 DEF Effect

(* The recent conversation is what happened: exchanges in the order of     *)
(* their turns, at most one of each, with what the user typed and was      *)
(* shown; and an answer of the provider that can be kept is kept           *)
(* (Nel.think's calls of append_complete and append_incomplete).           *)
THEOREM TranscriptStaysTrue == Spec => []TranscriptIsTrue
<1>1. Init => RInv
  <2> SUFFICES ASSUME Init PROVE RInv
    OBVIOUS
  <2>1. recordedBy = <<>> /\ accepted = <<>> /\ seen = <<>>
    BY DEF Init, SessionInit
  <2>2. QED
    BY <2>1 DEF RInv, InOrder, Truthful, NoneForgotten
<1>2. QED
  BY <1>1, RInvKept, RInvIsTranscript, TInvAlways, PTL DEF Spec

-----------------------------------------------------------------------------
(* The window.                                                             *)

(* What leaves a window that has one exchange more.                        *)
LEMMA EvictingAppended ==
  ASSUME NEW S, NEW window \in Seq(S), NEW e \in S, NEW k \in 0 .. Len(window)
  PROVE  Evicting(k, Append(window, e)) = Append(Evicting(k, window), e)
<1> DEFINE longer == Append(window, e)
           left == Evicting(k, longer)
           right == Append(Evicting(k, window), e)
           n == Len(window)
<1>1. /\ longer \in Seq(S) /\ Len(longer) = n + 1 /\ n \in Nat /\ longer[n + 1] = e
      /\ \A i \in 1 .. n : longer[i] = window[i]
      /\ k \in 0 .. n + 1
  OBVIOUS
<1> HIDE DEF longer
<1>2. /\ left \in Seq(S) /\ Len(left) = n + 1 - k
      /\ \A i \in 1 .. n + 1 - k : left[i] = longer[k + i]
  <2>1. k \in 0 .. Len(longer)
    BY <1>1
  <2>2. /\ left \in Seq(S) /\ Len(left) = Len(longer) - k
        /\ \A i \in 1 .. Len(longer) - k : left[i] = longer[k + i]
    BY <1>1, <2>1, EvictedWindow
  <2> HIDE DEF left
  <2>3. QED
    BY <1>1, <2>2
<1>3. /\ Evicting(k, window) \in Seq(S) /\ Len(Evicting(k, window)) = n - k
      /\ \A i \in 1 .. n - k : Evicting(k, window)[i] = window[k + i]
  BY EvictedWindow
<1>4. /\ right \in Seq(S) /\ Len(right) = n - k + 1 /\ right[n - k + 1] = e
      /\ \A i \in 1 .. n - k : right[i] = Evicting(k, window)[i]
  BY <1>3
<1>5. ASSUME NEW i \in 1 .. n + 1 - k PROVE left[i] = right[i]
  <2>1. CASE i = n - k + 1
    <3>1. k + i = n + 1
      BY <1>1, <2>1
    <3>2. QED
      BY <1>1, <1>2, <1>4, <2>1, <3>1
  <2>2. CASE i # n - k + 1
    <3>1. i \in 1 .. n - k /\ k + i \in 1 .. n
      BY <1>1, <2>2
    <3>2. QED
      BY <1>1, <1>2, <1>3, <1>4, <3>1
  <2>3. QED
    BY <2>1, <2>2
<1>6. Len(left) = Len(right) /\ \A i \in 1 .. Len(left) : left[i] = right[i]
  BY <1>1, <1>2, <1>4, <1>5
<1> HIDE DEF left, right
<1>7. left = right
  BY <1>2, <1>4, <1>6, SeqEqual
<1>8. QED
  BY <1>7 DEF left, right, longer

(* First n leave, and then k of what is left and of what came.             *)
LEMMA EvictingTwice ==
  ASSUME NEW S, NEW window \in Seq(S), NEW n \in 0 .. Len(window),
         NEW k \in 0 .. Len(window) - n
  PROVE  Evicting(k, Evicting(n, window)) = Evicting(n + k, window)
<1> DEFINE rest == Evicting(n, window)
           left == Evicting(k, rest)
           right == Evicting(n + k, window)
<1>1. Len(window) \in Nat /\ n + k \in 0 .. Len(window)
  OBVIOUS
<1>2. /\ rest \in Seq(S) /\ Len(rest) = Len(window) - n
      /\ \A i \in 1 .. Len(window) - n : rest[i] = window[n + i]
  BY EvictedWindow
<1>3. /\ right \in Seq(S) /\ Len(right) = Len(window) - (n + k)
      /\ \A i \in 1 .. Len(window) - (n + k) : right[i] = window[(n + k) + i]
  BY <1>1, EvictedWindow
<1> HIDE DEF rest, right
<1>4. /\ left \in Seq(S) /\ Len(left) = Len(rest) - k
      /\ \A i \in 1 .. Len(rest) - k : left[i] = rest[k + i]
  <2>1. k \in 0 .. Len(rest)
    BY <1>2
  <2>2. rest \in Seq(S)
    BY <1>2
  <2>3. QED
    BY <2>1, <2>2, EvictedWindow
<1>5. ASSUME NEW i \in 1 .. Len(left) PROVE left[i] = right[i]
  <2>1. /\ i \in 1 .. Len(rest) - k /\ k + i \in 1 .. Len(window) - n
        /\ i \in 1 .. Len(window) - (n + k) /\ n + (k + i) = (n + k) + i
    BY <1>1, <1>2, <1>4
  <2>2. QED
    BY <1>2, <1>3, <1>4, <2>1
<1>6. Len(left) = Len(right)
  BY <1>1, <1>2, <1>3, <1>4
<1> HIDE DEF left
<1>7. left = right
  BY <1>3, <1>4, <1>5, <1>6, SeqEqual
<1>8. QED
  BY <1>7 DEF left, right, rest

LEMMA TakenKeepsSuffix ==
  ASSUME SessionOK, SessionIsLongestSuffix, NEW e \in Exchanges, Taken(e)
  PROVE  SessionIsLongestSuffix'
<1>1. /\ accepted \in Seq(Exchanges) /\ exchanges \in Seq(Exchanges)
      /\ truncated \in BOOLEAN /\ Len(accepted) \in Nat
  BY SessionTypes
<1>2. PICK n \in 0 .. Len(accepted) :
        /\ exchanges = Evicting(n, accepted)
        /\ truncated = (n > 0)
        /\ \A m \in 0 .. n - 1 : ~Fits(Evicting(m, accepted), m > 0)
  BY DEF SessionIsLongestSuffix
<1>3. Len(exchanges) = Len(accepted) - n
  BY <1>1, <1>2, EvictedWindow
<1>4. PICK k \in 0 .. Len(exchanges) : Evicts(k, e)
  BY DEF Taken
<1> DEFINE all == Append(accepted, e)
           q == n + k
<1>5. /\ accepted' = all /\ all \in Seq(Exchanges) /\ Len(all) = Len(accepted) + 1
      /\ q \in 0 .. Len(all) /\ q \in Nat
  BY <1>1, <1>3 DEF Taken
<1>6. ASSUME NEW m \in 0 .. Len(exchanges)
      PROVE  Evicting(m, Append(exchanges, e)) = Evicting(n + m, all)
  <2>1. Append(exchanges, e) = Evicting(n, all)
    BY <1>1, <1>2, EvictingAppended
  <2>2. n \in 0 .. Len(all) /\ m \in 0 .. Len(all) - n
    BY <1>1, <1>3, <1>5
  <2>3. QED
    BY <1>5, <2>1, <2>2, EvictingTwice
<1>7. exchanges' = Evicting(q, all) /\ truncated' = (q > 0) /\ Fits(exchanges', truncated')
  <2>1. truncated' = (truncated \/ k > 0) /\ exchanges' = Evicting(k, Append(exchanges, e))
    BY <1>4 DEF Evicts
  <2>2. (truncated \/ k > 0) = (q > 0)
    <3>1. ((n > 0 \/ k > 0) <=> q > 0) /\ (q > 0) \in BOOLEAN
      OBVIOUS
    <3>2. truncated <=> n > 0
      BY <1>2, Zenon
    <3> HIDE DEF q
    <3>3. QED
      BY <3>1, <3>2, Zenon
  <2>3. QED
    BY <1>4, <1>6, <2>1, <2>2 DEF Evicts
<1>8. ASSUME NEW m \in 0 .. q - 1
      PROVE  ~Fits(Evicting(m, all), m > 0)
  <2>1. CASE m >= n
    <3>1. m - n \in 0 .. k - 1 /\ m - n \in 0 .. Len(exchanges) /\ n + (m - n) = m
      BY <1>3, <2>1
    <3>2. ~Fits(Evicting(m - n, Append(exchanges, e)), truncated \/ m - n > 0)
      BY <1>4, <3>1 DEF Evicts
    <3>3. Evicting(m - n, Append(exchanges, e)) = Evicting(m, all)
      BY <1>6, <3>1
    <3>4. (truncated \/ m - n > 0) = (m > 0)
      <4>1. ((n > 0 \/ m - n > 0) <=> m > 0) /\ (m > 0) \in BOOLEAN
        BY <2>1
      <4>2. truncated <=> n > 0
        BY <1>2, Zenon
      <4>3. QED
        BY <4>1, <4>2, Zenon
    <3>5. QED
      BY <3>2, <3>3, <3>4
  <2>2. CASE m < n
    <3>1. m \in 0 .. n - 1 /\ m \in 0 .. Len(accepted) /\ (m > 0) \in BOOLEAN
      BY <1>1, <2>2
    <3>2. ~Fits(Evicting(m, accepted), m > 0)
      BY <1>2, <3>1
    <3>3. Evicting(m, all) = Append(Evicting(m, accepted), e)
      BY <1>1, <3>1, EvictingAppended
    <3>4. Evicting(m, accepted) \in Seq(Exchanges)
      BY <1>1, <3>1, EvictedWindow
    <3> DEFINE dropped == m > 0
               left == Evicting(m, accepted)
    <3>5. ~Fits(Append(left, e), dropped)
      <4>1. /\ left \in Seq(Exchanges) /\ dropped \in BOOLEAN /\ ~Fits(left, dropped)
        BY <3>1, <3>2, <3>4
      <4> HIDE DEF left, dropped
      <4>2. QED
        BY <4>1, FittingIsClosed
    <3>6. QED
      BY <3>3, <3>5, Zenon
  <2>3. QED
    BY <1>5, <2>1, <2>2
<1> HIDE DEF all, q
<1>9. QED
  BY <1>5, <1>7, <1>8 DEF SessionIsLongestSuffix, Fits, Evicting

LEMMA FreshWindow ==
  /\ Evicting(0, <<>>) = <<>>
  /\ Fits(<<>>, FALSE)
<1>1. Evicting(0, <<>>) = <<>>
  <2>1. <<>> \in Seq({}) /\ Len(<<>>) = 0 /\ 0 \in 0 .. Len(<<>>)
    OBVIOUS
  <2>2. /\ Evicting(0, <<>>) \in Seq({})
        /\ Len(Evicting(0, <<>>)) = Len(<<>>) - 0
    BY <2>1, EvictedWindow
  <2>3. QED
    BY <2>2
<1>2. Fits(<<>>, FALSE)
  <2>1. Measure(<<>>, FALSE) = 61 /\ TurnCount(<<>>) = 0
    BY EmptyWindow
  <2>2. TurnLimit \in Nat /\ CharacterLimit \in Nat /\ CharacterLimit >= 61
    BY SessionLimits, TurnAssumption
  <2>3. TurnCount(<<>>) <= TurnLimit
    BY <2>1, <2>2
  <2>4. Measure(<<>>, FALSE) <= CharacterLimit
    BY <2>1, <2>2
  <2>5. QED
    BY <2>3, <2>4 DEF Fits
<1>3. QED
  BY <1>1, <1>2

LEMMA SuffixKept ==
  TInv /\ SessionIsLongestSuffix /\ [Next]_vars => SessionIsLongestSuffix'
<1> SUFFICES ASSUME TInv, SessionIsLongestSuffix, [Next]_vars
             PROVE  SessionIsLongestSuffix'
  OBVIOUS
<1>1. Effect /\ SessionOK
  BY StepEffect DEF TInv, TypeOK, SessionOK, Texts
<1>2. CASE UNCHANGED sessionVars
  BY <1>2 DEF sessionVars, SessionIsLongestSuffix, Fits
<1>3. CASE \E kind, outcome, reply, asked : KeepsWhole(kind, outcome, reply, asked)
  <2>1. PICK kind, outcome, reply, asked : KeepsWhole(kind, outcome, reply, asked)
    BY <1>3
  <2>2. /\ turn.prompt \in Prompt /\ reply \in Replies /\ kind \in ExchangeKind
        /\ AppendComplete(kind, turn.prompt, reply)
    BY <2>1 DEF KeepsWhole, Shows, ExchangeKind
  <2>3. \/ UNCHANGED sessionVars
        \/ \E e \in Exchanges : Taken(e)
    BY <1>1, <2>2, CompleteEffect
  <2>4. QED
    BY <1>1, <1>2, <2>3, TakenKeepsSuffix
<1>4. CASE \E asked : KeepsHalf(asked)
  <2>1. turn.prompt \in Prompt /\ AppendIncomplete(turn.prompt)
    BY <1>4 DEF KeepsHalf, Shows
  <2>2. \/ UNCHANGED sessionVars
        \/ \E e \in Exchanges : Taken(e)
    BY <1>1, <2>1, IncompleteEffect
  <2>3. QED
    BY <1>1, <1>2, <2>2, TakenKeepsSuffix
<1>5. CASE Stop
  <2>1. exchanges' = <<>> /\ accepted' = <<>> /\ truncated' = FALSE
    BY <1>5 DEF Stop, Clear
  <2>2. 0 \in 0 .. Len(accepted') /\ 0 .. 0 - 1 = {} /\ (0 > 0) = FALSE
    BY <2>1
  <2>3. truncated' = (0 > 0)
    BY <2>1, <2>2, Zenon
  <2>4. exchanges' = Evicting(0, accepted') /\ Fits(exchanges', truncated')
    BY <2>1, FreshWindow
  <2>5. QED
    BY <2>2, <2>3, <2>4 DEF SessionIsLongestSuffix, Fits, Evicting
<1>6. QED
  BY <1>1, <1>2, <1>3, <1>4, <1>5 DEF Effect, Moves, Forgets, vars

(* The provider is shown the longest run of latest exchanges that keeps to *)
(* the limits, and is told that something is missing exactly when          *)
(* something is (ConversationSession._append): whatever was evicted, no    *)
(* fewer exchanges would have been enough, then or since.                  *)
THEOREM WindowIsLongestSuffix == Spec => []SessionIsLongestSuffix
<1>1. Init => SessionIsLongestSuffix
  <2> SUFFICES ASSUME Init PROVE SessionIsLongestSuffix
    OBVIOUS
  <2>1. exchanges = <<>> /\ accepted = <<>> /\ truncated = FALSE
    BY DEF Init, SessionInit
  <2>2. 0 \in 0 .. Len(accepted) /\ 0 .. 0 - 1 = {} /\ (0 > 0) = FALSE
    BY <2>1
  <2>3. truncated = (0 > 0)
    BY <2>1, <2>2, Zenon
  <2>4. exchanges = Evicting(0, accepted) /\ Fits(exchanges, truncated)
    BY <2>1, FreshWindow
  <2>5. QED
    BY <2>2, <2>3, <2>4 DEF SessionIsLongestSuffix
<1>2. QED
  BY <1>1, SuffixKept, TInvAlways, PTL DEF Spec
=============================================================================
