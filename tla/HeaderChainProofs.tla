-------------------------- MODULE HeaderChainProofs --------------------------
(***************************************************************************)
(* The difficulty rules for every window, spacing, clock and chain of      *)
(* headers.  The loop of GetNextWorkRequired() keeps its weighted sum      *)
(* between the least and the greatest timespan times the sum of weights;   *)
(* from there on the argument is about one call of                         *)
(* CalculateNextWorkRequired().  The median of the last times is shown to  *)
(* exist by counting; a header above it never lowers it, and a template's  *)
(* time stays within the rules as long as no header was too new when it    *)
(* was accepted.                                                           *)
(***************************************************************************)
EXTENDS HeaderChain, FiniteSetTheorems, WellFoundedInduction, TLAPS

USE SMTT(30)

-----------------------------------------------------------------------------
(* Arithmetic *)

LEMMA ModRange ==
  ASSUME NEW x \in Int
  PROVE  x % Word \in Nat
  BY ParamsAssumption

LEMMA ModSmall ==
  ASSUME NEW x \in Nat, x < Word
  PROVE  x % Word = x
<1>1. Word \in Nat /\ Word > 0
  BY ParamsAssumption
<1>2. PICK q \in Int : q = x \div Word
  BY <1>1
<1>3. x % Word = x - Word * q
  BY <1>1, <1>2, Z3T(30)
<1>4. x % Word \in 0 .. Word - 1
  BY <1>1
<1>5. q >= 1 => Word * q >= Word
  BY <1>1
<1>6. q <= -1 => Word * q <= -Word
  BY <1>1
<1>7. q = 0
  BY <1>1, <1>2, <1>3, <1>4, <1>5, <1>6
<1> QED
  BY <1>1, <1>3, <1>7

\* A quotient lies where its numerator lies between multiples of the divisor.
LEMMA DivBounds ==
  ASSUME NEW m \in Nat, m > 0, NEW x \in Nat, NEW a \in Nat
  PROVE  /\ x \div m \in Nat
         /\ a * m <= x => a <= x \div m
         /\ x <= a * m => x \div m <= a
<1>1. PICK q \in Int : q = x \div m
  OBVIOUS
<1>2. x - m * q \in 0 .. m - 1
  <2>1. x % m = x - m * q
    BY <1>1, Z3T(30)
  <2> QED
    BY <2>1
<1>3. PICK e \in Int : e = a - q
  OBVIOUS
<1>4. m * e = a * m - m * q
  BY <1>3
<1>5. (e >= 1 => m * e >= m) /\ (e <= -1 => m * e <= -m)
  OBVIOUS
<1>6. a * m <= x => a <= q
  <2>1. PICK ma \in Int, mq \in Int : ma = a * m /\ mq = m * q
    OBVIOUS
  <2> QED
    BY <2>1, <1>2, <1>3, <1>4, <1>5
<1>7. x <= a * m => q <= a
  <2>1. PICK ma \in Int, mq \in Int : ma = a * m /\ mq = m * q
    OBVIOUS
  <2> QED
    BY <2>1, <1>2, <1>3, <1>4, <1>5
<1>8. q >= 0
  BY <1>2
<1> QED
  BY <1>1, <1>6, <1>7, <1>8

LEMMA SpanPositive == MaxSpan \in Nat /\ nPowTargetSpacing \in 1 .. MaxSpan
  BY ParamsAssumption DEF MaxSpan

LEMMA ClampRange ==
  ASSUME NEW t \in Int
  PROVE  /\ Clamp(t) \in 1 .. MaxSpan
         /\ \A a \in 1 .. MaxSpan : (a <= t => a <= Clamp(t))
                                 /\ (t <= a => Clamp(t) <= a)
  BY SpanPositive DEF Clamp

-----------------------------------------------------------------------------
(* One call of CalculateNextWorkRequired() *)

LEMMA AdjustType ==
  ASSUME NEW d \in Nat, NEW a \in Nat
  PROVE  Adjust(d, a) \in Nat
<1>1. LogTarget \in Nat /\ nDifficultyMin \in Nat
  BY LogAssumption, ParamsAssumption
<1>2. (d + (LogTarget - a) \div 256) % Word \in Nat
  BY <1>1, ModRange
<1>3. (d - (a - LogTarget) \div 64) % Word \in Nat
  BY <1>1, ModRange
<1> QED
  BY <1>1, <1>2, <1>3 DEF Adjust, Add, Sub

\* The change is clamped to one unit, whatever the adjustment was.
LEMMA ClampBounds ==
  ASSUME NEW d \in Nat, d + Unit < Word, NEW n \in Nat
  PROVE  /\ ClampChange(d, n) \in Nat
         /\ ClampChange(d, n) <= d + Unit /\ d <= ClampChange(d, n) + Unit
         /\ n <= d => ClampChange(d, n) <= d
         /\ n >= d => ClampChange(d, n) >= d
<1>1. Unit \in Nat /\ Word \in Nat
  BY ParamsAssumption
<1>2. Add(d, Unit) = d + Unit
  BY <1>1, ModSmall DEF Add
<1>3. Sub(d, Unit) \in Nat
  BY <1>1, ModRange DEF Sub
<1>4. d >= Unit => Sub(d, Unit) = d - Unit
  BY <1>1, ModSmall DEF Sub
<1> QED
  BY <1>1, <1>2, <1>3, <1>4 DEF ClampChange

\* An average at or above the target does not raise the difficulty, one at or
\* below it does not lower it.
LEMMA AdjustDirection ==
  ASSUME NEW d \in Nat, nDifficultyMin <= d, d + Unit < Word, NEW a \in Nat
  PROVE  /\ a >= LogTarget => Adjust(d, a) <= d
         /\ a <= LogTarget + 1 => Adjust(d, a) >= d
<1>1. /\ LogTarget \in Nat /\ nDifficultyMin \in Nat
      /\ Unit \in Nat /\ Word \in Nat /\ LogTarget \div 256 <= Unit
  BY LogAssumption, ParamsAssumption
<1>2. CASE LogTarget >= a
  <2>1. PICK s \in Nat : s = (LogTarget - a) \div 256
    BY <1>1, <1>2
  <2>2. s <= Unit
    BY <1>1, <1>2, <2>1
  <2>3. Adjust(d, a) = d + s
    BY <1>1, <1>2, <2>1, <2>2, ModSmall DEF Adjust, Add
  <2>4. a >= LogTarget => s = 0
    BY <1>1, <1>2, <2>1
  <2> QED
    BY <2>3, <2>4
<1>3. CASE LogTarget < a
  <2>1. PICK s \in Nat : s = (a - LogTarget) \div 64
    BY <1>1, <1>3
  <2>2. d >= s => Adjust(d, a) = d - s
    BY <1>1, <1>3, <2>1, ModSmall DEF Adjust, Sub
  <2>3. d < s => Adjust(d, a) = nDifficultyMin
    BY <1>1, <1>3, <2>1 DEF Adjust
  <2>4. a <= LogTarget + 1 => s = 0
    BY <1>1, <1>3, <2>1
  <2> QED
    BY <1>1, <2>2, <2>3, <2>4
<1> QED
  BY <1>1, <1>2, <1>3

LEMMA CalculateBounds ==
  ASSUME NEW d \in Nat, nDifficultyMin <= d, d + Unit < Word, NEW t \in Int
  PROVE  LET n == CalculateNextWorkRequired(d, t) IN
         /\ n \in Nat /\ nDifficultyMin <= n
         /\ n <= d + Unit /\ d <= n + Unit
         /\ t >= nPowTargetSpacing => n <= d
         /\ t <= nPowTargetSpacing => n >= d
<1>1. Unit \in Nat /\ nDifficultyMin \in Nat /\ LogTarget \in Nat
  BY ParamsAssumption, LogAssumption
<1>2. PICK c \in 1 .. MaxSpan : c = Clamp(t)
  BY ClampRange
<1>3. /\ t >= nPowTargetSpacing => c >= nPowTargetSpacing
      /\ t <= nPowTargetSpacing => c <= nPowTargetSpacing
  BY <1>2, ClampRange, SpanPositive
<1>4. PICK a \in Nat : a = Log[c]
  BY LogAssumption
<1>5. /\ t >= nPowTargetSpacing => a >= LogTarget
      /\ t <= nPowTargetSpacing => a <= LogTarget + 1
  <2>1. PICK g \in Nat : g = Log[nPowTargetSpacing]
    BY LogAssumption, SpanPositive
  <2>2. g \in {LogTarget, LogTarget + 1}
    BY <2>1, LogAssumption
  <2>3. c >= nPowTargetSpacing => g <= a
    BY <1>4, <2>1, LogAssumption, SpanPositive
  <2>4. c <= nPowTargetSpacing => a <= g
    BY <1>4, <2>1, LogAssumption, SpanPositive
  <2> QED
    BY <1>1, <1>3, <2>2, <2>3, <2>4, SpanPositive
<1>6. PICK n \in Nat : n = Adjust(d, a)
  BY AdjustType
<1>7. /\ t >= nPowTargetSpacing => n <= d
      /\ t <= nPowTargetSpacing => n >= d
  BY <1>5, <1>6, AdjustDirection
<1>8. PICK m \in Nat : m = ClampChange(d, n)
  BY ClampBounds
<1>9. /\ m <= d + Unit /\ d <= m + Unit
      /\ n <= d => m <= d
      /\ n >= d => m >= d
  BY <1>8, ClampBounds
<1>10. CalculateNextWorkRequired(d, t)
         = IF m < nDifficultyMin THEN nDifficultyMin ELSE m
  BY <1>2, <1>4, <1>6, <1>8 DEF CalculateNextWorkRequired
<1> QED
  BY <1>1, <1>7, <1>9, <1>10

-----------------------------------------------------------------------------
(* The inductive invariant *)

\* Merit stays below 2^16 - 1, where the fixed-point format ends.
NoOverflow == \A k \in 1 .. Len(chain) : chain[k].difficulty + Unit < Word

Floor == \A k \in 1 .. Len(chain) : chain[k].difficulty >= nDifficultyMin

\* The loop has weighed the i newest blocks.
LoopInv ==
  /\ i > 0 => weight_total > 0
  /\ pc = "weigh" => Len(chain) > 1 /\ i = Len(chain) - pindex

\* What the weights have seen so far decides on which side of the target the
\* average lies.
SideInv ==
  pc = "weigh" =>
    /\ (\A k \in pindex + 1 .. Len(chain) : Timespan(k) >= nPowTargetSpacing)
         => nPowTargetSpacing * weight_total <= weighted_sum
    /\ (\A k \in pindex + 1 .. Len(chain) : Timespan(k) <= nPowTargetSpacing)
         => weighted_sum <= nPowTargetSpacing * weight_total

NextInv ==
  pc = "ready" =>
    /\ nDifficultyMin <= next
    /\ next <= Tip.difficulty + Unit /\ Tip.difficulty <= next + Unit

IInv ==
  /\ TypeOK /\ Floor /\ AverageInRange /\ LoopInv /\ SideInv
  /\ NextInv /\ Response /\ DifficultyBounds

LEMMA InitIInv == Init => IInv
<1> SUFFICES ASSUME Init PROVE IInv
  OBVIOUS
<1> USE ParamsAssumption
<1>1. TypeOK
  BY DEF Init, TypeOK, Header
<1>2. Floor /\ LoopInv /\ SideInv /\ NextInv /\ Response /\ DifficultyBounds
  BY DEF Init, Floor, LoopInv, SideInv, NextInv, Response, DifficultyBounds
<1>3. AverageInRange
  BY SpanPositive DEF Init, AverageInRange
<1> QED
  BY <1>1, <1>2, <1>3 DEF IInv

LEMMA HeaderType ==
  ASSUME TypeOK, NEW k \in 1 .. Len(chain)
  PROVE  chain[k].time \in Int /\ chain[k].difficulty \in Nat
<1>1. chain[k] \in Header
  BY DEF TypeOK
<1> QED
  BY <1>1 DEF Header

LEMMA TipFacts ==
  ASSUME TypeOK, Floor
  PROVE  Tip.difficulty \in Nat /\ nDifficultyMin <= Tip.difficulty
<1>1. Len(chain) \in 1 .. Len(chain)
  BY DEF TypeOK
<1> QED
  BY <1>1, HeaderType DEF Floor, Tip

LEMMA SpanType ==
  ASSUME TypeOK, NEW k \in 2 .. Len(chain)
  PROVE  Timespan(k) \in 1 .. MaxSpan
<1>1. k \in 1 .. Len(chain) /\ k - 1 \in 1 .. Len(chain)
  BY DEF TypeOK
<1>2. chain[k].time - chain[k - 1].time \in Int
  BY <1>1, HeaderType
<1> QED
  BY <1>2, ClampRange DEF Timespan

\* Steps that leave the chain and the difficulty required of its tip alone.
LEMMA KeepStep ==
  ASSUME IInv, KeepDifficulty
  PROVE  IInv'
<1> USE DEF KeepDifficulty, loop
<1>1. Tip' = Tip /\ WindowBlocks' = WindowBlocks
  BY DEF Tip, WindowBlocks
<1>2. Tip.difficulty \in Nat /\ nDifficultyMin <= Tip.difficulty
  BY TipFacts DEF IInv
<1>3. TypeOK'
  BY <1>2 DEF IInv, TypeOK
<1>4. Floor' /\ AverageInRange' /\ LoopInv' /\ SideInv' /\ DifficultyBounds'
  BY DEF IInv, Floor, AverageInRange, LoopInv, SideInv, DifficultyBounds
<1>5. NextInv' /\ Response'
  BY <1>1, <1>2, ParamsAssumption DEF NextInv, Response
<1> QED
  BY <1>3, <1>4, <1>5 DEF IInv

LEMMA BeginStep ==
  ASSUME IInv, BeginRetarget
  PROVE  IInv'
<1> USE DEF BeginRetarget
<1>1. TypeOK'
  BY ParamsAssumption DEF IInv, TypeOK
<1>2. Floor' /\ LoopInv' /\ NextInv' /\ Response' /\ DifficultyBounds'
  BY DEF IInv, TypeOK, Floor, LoopInv, NextInv, Response, DifficultyBounds
<1>3. AverageInRange' /\ SideInv'
  BY ParamsAssumption, SpanPositive DEF AverageInRange, SideInv
<1> QED
  BY <1>1, <1>2, <1>3 DEF IInv

LEMMA WeighStep ==
  ASSUME IInv, WeighBlock
  PROVE  IInv'
<1> USE DEF WeighBlock
<1>1. /\ weighted_sum \in Nat /\ weight_total \in Nat
      /\ i \in Nat /\ i < nDifficultyWindow /\ nDifficultyWindow \in Nat
      /\ pindex \in 2 .. Len(chain) /\ pc = "weigh" /\ Len(chain) \in Nat
  BY ParamsAssumption DEF IInv, TypeOK, More
<1>2. PICK w \in 1 .. nDifficultyWindow : w = nDifficultyWindow - i
  BY <1>1
<1>3. PICK t \in 1 .. MaxSpan : t = Timespan(pindex)
  BY <1>1, SpanType DEF IInv
<1>4. PICK p \in Nat : p = w * t
  BY <1>2, <1>3, SpanPositive
<1>5. weighted_sum' = weighted_sum + p /\ weight_total' = weight_total + w
  BY <1>2, <1>3, <1>4
<1>6. w <= p /\ p <= MaxSpan * w
  BY <1>2, <1>3, <1>4, SpanPositive
<1>7. TypeOK'
  BY <1>1, <1>2, <1>4, <1>5 DEF IInv, TypeOK
<1>8. AverageInRange'
  <2>1. MaxSpan * (weight_total + w) = MaxSpan * weight_total + MaxSpan * w
    BY <1>1, <1>2, SpanPositive
  <2>2. nDifficultyWindow * (i + 1) = nDifficultyWindow * i + nDifficultyWindow
    BY <1>1
  <2>3. PICK ms \in Int, mw \in Int, wi \in Int :
          /\ ms = MaxSpan * weight_total /\ mw = MaxSpan * w
          /\ wi = nDifficultyWindow * i
    BY <1>1, <1>2, SpanPositive
  <2>4. /\ weight_total <= weighted_sum /\ weighted_sum <= ms
        /\ weight_total <= wi
    BY <2>3 DEF IInv, AverageInRange
  <2>5. weight_total' <= weighted_sum' /\ weighted_sum' <= ms + mw
    BY <1>1, <1>2, <1>4, <1>5, <1>6, <2>3, <2>4
  <2>6. weight_total' <= wi + nDifficultyWindow
    BY <1>1, <1>2, <1>5, <2>3, <2>4
  <2> QED
    BY <1>5, <2>1, <2>2, <2>3, <2>5, <2>6 DEF AverageInRange
<1>9. LoopInv'
  BY <1>1, <1>2, <1>5 DEF IInv, LoopInv
<1>10. SideInv'
  <2>1. PICK s \in 1 .. MaxSpan : s = nPowTargetSpacing
    BY SpanPositive
  <2>2. s * (weight_total + w) = s * weight_total + s * w
    BY <1>1, <1>2, SpanPositive
  <2>3. (t >= s => s * w <= p) /\ (t <= s => p <= s * w)
    BY <1>2, <1>3, <1>4, SpanPositive
  <2>4. PICK st \in Int, sw \in Int : st = s * weight_total /\ sw = s * w
    BY <1>1, <1>2, SpanPositive
  <2>5. pindex' = pindex - 1
        /\ pindex' + 1 .. Len(chain) = (pindex + 1 .. Len(chain)) \cup {pindex}
    BY <1>1
  <2>6. \A k : Timespan(k)' = Timespan(k)
    BY DEF Timespan
  <2>7. ASSUME \A k \in pindex' + 1 .. Len(chain) : Timespan(k) >= s
        PROVE  s * weight_total' <= weighted_sum'
    <3>1. t >= s /\ \A k \in pindex + 1 .. Len(chain) : Timespan(k) >= s
      BY <1>3, <2>5, <2>7, Zenon
    <3>2. st <= weighted_sum
      BY <1>1, <2>1, <2>4, <3>1 DEF IInv, SideInv
    <3> QED
      BY <1>1, <1>4, <1>5, <2>2, <2>3, <2>4, <3>1, <3>2
  <2>8. ASSUME \A k \in pindex' + 1 .. Len(chain) : Timespan(k) <= s
        PROVE  weighted_sum' <= s * weight_total'
    <3>1. t <= s /\ \A k \in pindex + 1 .. Len(chain) : Timespan(k) <= s
      BY <1>3, <2>5, <2>8, Zenon
    <3>2. weighted_sum <= st
      BY <1>1, <2>1, <2>4, <3>1 DEF IInv, SideInv
    <3> QED
      BY <1>1, <1>4, <1>5, <2>2, <2>3, <2>4, <3>1, <3>2
  <2> QED
    BY <2>1, <2>6, <2>7, <2>8, Zenon DEF SideInv
<1>11. Floor' /\ NextInv' /\ Response' /\ DifficultyBounds'
  BY Zenon DEF IInv, Floor, NextInv, Response, DifficultyBounds
<1> QED
  BY <1>7, <1>8, <1>9, <1>10, <1>11 DEF IInv

LEMMA FinishStep ==
  ASSUME IInv, NoOverflow, FinishRetarget
  PROVE  IInv'
<1> USE DEF FinishRetarget, loop
<1>1. /\ weighted_sum \in Nat /\ weight_total \in Nat
      /\ i \in 0 .. nDifficultyWindow /\ nDifficultyWindow \in Nat \ {0}
      /\ pindex \in 1 .. Len(chain) /\ Len(chain) \in Nat /\ pc = "weigh"
  BY ParamsAssumption DEF IInv, TypeOK
<1>2. Len(chain) > 1 /\ i = Len(chain) - pindex /\ (i > 0 => weight_total > 0)
  BY <1>1 DEF IInv, LoopInv
<1>3. i = nDifficultyWindow \/ pindex = 1
  BY <1>1 DEF More
<1>4. weight_total > 0
  BY <1>1, <1>2, <1>3
<1>5. WindowBlocks = pindex + 1 .. Len(chain)
  BY <1>1, <1>2, <1>3 DEF WindowBlocks
<1>6. PICK a \in Nat : a = weighted_sum \div weight_total
  BY <1>1, <1>4, DivBounds
<1>7. PICK d \in Nat : d = Tip.difficulty /\ nDifficultyMin <= d
  BY TipFacts DEF IInv
<1>8. d + Unit < Word
  BY <1>1, <1>7 DEF NoOverflow, Tip
<1>9. next' = CalculateNextWorkRequired(d, a)
  BY <1>4, <1>6, <1>7
<1>10. PICK n \in Nat : n = CalculateNextWorkRequired(d, a)
  BY <1>7, <1>8, CalculateBounds
<1>11. /\ nDifficultyMin <= n /\ n <= d + Unit /\ d <= n + Unit
       /\ a >= nPowTargetSpacing => n <= d
       /\ a <= nPowTargetSpacing => n >= d
  BY <1>7, <1>8, <1>10, CalculateBounds
<1>12. Tip' = Tip /\ WindowBlocks' = WindowBlocks
       /\ \A k : Timespan(k)' = Timespan(k)
  BY DEF Tip, WindowBlocks, Timespan
<1>13. PICK s \in Nat : s = nPowTargetSpacing
  BY SpanPositive
<1>14. /\ s * weight_total <= weighted_sum => s <= a
       /\ weighted_sum <= s * weight_total => a <= s
  BY <1>1, <1>4, <1>6, DivBounds
<1>15. Response'
  <2>1. (\A k \in WindowBlocks : Timespan(k) >= s) => n <= d
    BY <1>1, <1>5, <1>11, <1>13, <1>14 DEF IInv, SideInv
  <2>2. (\A k \in WindowBlocks : Timespan(k) <= s) => n >= d
    BY <1>1, <1>5, <1>11, <1>13, <1>14 DEF IInv, SideInv
  <2> QED
    BY <1>7, <1>9, <1>10, <1>12, <1>13, <2>1, <2>2 DEF Response
<1>16. NextInv'
  BY <1>7, <1>9, <1>10, <1>11, <1>12 DEF NextInv
<1>17. TypeOK'
  BY <1>9, <1>10 DEF IInv, TypeOK
<1>18. Floor' /\ AverageInRange' /\ LoopInv' /\ SideInv' /\ DifficultyBounds'
  BY Zenon DEF IInv, Floor, AverageInRange, LoopInv, SideInv, DifficultyBounds
<1> QED
  BY <1>15, <1>16, <1>17, <1>18 DEF IInv

LEMMA AcceptStep ==
  ASSUME IInv, AcceptHeader
  PROVE  IInv'
<1> USE DEF AcceptHeader, loop
<1>1. PICK h \in Header : chain' = Append(chain, h) /\ h.difficulty = next
  <2>1. PICK s \in TimeSteps :
          chain' = Append(chain, [time |-> Tip.time + s, difficulty |-> next])
    OBVIOUS
  <2>2. Tip.time + s \in Int /\ next \in Nat
    BY HeaderType, TimeAssumption DEF IInv, TypeOK, Tip
  <2> QED
    BY <2>1, <2>2 DEF Header
<1>2. PICK n \in Nat : n = Len(chain) /\ n >= 1
  BY DEF IInv, TypeOK
<1>3. /\ Len(chain') = n + 1 /\ chain'[n + 1] = h
      /\ \A k \in 1 .. n : chain'[k] = chain[k]
      /\ chain' \in Seq(Header)
  BY <1>1, <1>2 DEF IInv, TypeOK
<1>4. TypeOK'
  BY <1>2, <1>3 DEF IInv, TypeOK
<1>5. /\ nDifficultyMin <= next
      /\ next <= chain[n].difficulty + Unit /\ chain[n].difficulty <= next + Unit
  BY <1>2 DEF IInv, NextInv, Tip
<1>6. Floor'
  BY <1>1, <1>2, <1>3, <1>5 DEF IInv, Floor
<1>7. DifficultyBounds'
  <2>1. SUFFICES ASSUME NEW k \in 2 .. n + 1
                 PROVE  /\ nDifficultyMin <= chain'[k].difficulty
                        /\ chain'[k].difficulty <= chain'[k - 1].difficulty + Unit
                        /\ chain'[k - 1].difficulty <= chain'[k].difficulty + Unit
    BY <1>3, Zenon DEF DifficultyBounds
  <2>2. CASE k = n + 1
    BY <1>1, <1>2, <1>3, <1>5, <2>2
  <2>3. CASE k \in 2 .. n
    <3>1. chain'[k] = chain[k] /\ chain'[k - 1] = chain[k - 1]
      BY <1>2, <1>3, <2>3
    <3> QED
      BY <1>2, <2>3, <3>1 DEF IInv, DifficultyBounds
  <2> QED
    BY <1>2, <2>2, <2>3
<1>8. AverageInRange' /\ LoopInv' /\ SideInv' /\ NextInv' /\ Response'
  BY DEF IInv, AverageInRange, LoopInv, SideInv, NextInv, Response
<1> QED
  BY <1>4, <1>6, <1>7, <1>8 DEF IInv

\* The clock, and stuttering.
LEMMA QuietStep ==
  ASSUME IInv, UNCHANGED <<chain, pc, loop, next>>, now' \in Nat
  PROVE  IInv'
<1> USE DEF loop
<1>1. Tip' = Tip /\ WindowBlocks' = WindowBlocks
      /\ \A k : Timespan(k)' = Timespan(k)
  BY DEF Tip, WindowBlocks, Timespan
<1>2. TypeOK' /\ Floor' /\ AverageInRange' /\ LoopInv' /\ DifficultyBounds'
  BY DEF IInv, TypeOK, Floor, AverageInRange, LoopInv, DifficultyBounds
<1>3. SideInv' /\ NextInv' /\ Response'
  BY <1>1 DEF IInv, SideInv, NextInv, Response
<1> QED
  BY <1>2, <1>3 DEF IInv

LEMMA Inductive == IInv /\ NoOverflow /\ [Next]_vars => IInv'
<1> SUFFICES ASSUME IInv, NoOverflow, [Next]_vars PROVE IInv'
  OBVIOUS
<1>1. CASE KeepDifficulty
  BY <1>1, KeepStep
<1>2. CASE BeginRetarget
  BY <1>2, BeginStep
<1>3. CASE WeighBlock
  BY <1>3, WeighStep
<1>4. CASE FinishRetarget
  BY <1>4, FinishStep
<1>5. CASE AcceptHeader
  BY <1>5, AcceptStep
<1>6. CASE Tick
  <2>1. now' \in Nat
    BY <1>6, TimeAssumption DEF Tick, IInv, TypeOK
  <2> QED
    BY <1>6, <2>1, QuietStep DEF Tick
<1>7. CASE UNCHANGED vars
  <2>1. now' \in Nat
    BY <1>7 DEF vars, IInv, TypeOK
  <2> QED
    BY <1>7, <2>1, QuietStep DEF vars
<1> QED
  BY <1>1, <1>2, <1>3, <1>4, <1>5, <1>6, <1>7 DEF Next

-----------------------------------------------------------------------------
(* The theorems hold as long as the merit fits its 64-bit format. *)

\* Along every chain that ContextualCheckBlockHeader() accepts, the difficulty
\* keeps its floor and moves by at most one unit of merit per block.
THEOREM DifficultyIsBounded == Spec /\ []NoOverflow => []DifficultyBounds
<1>1. IInv => DifficultyBounds
  BY DEF IInv
<1> QED
  BY <1>1, InitIInv, Inductive, PTL DEF Spec

\* The weighted average of GetNextWorkRequired() is that of values between one
\* second and twelve times the target, for every window.
THEOREM AverageIsInRange == Spec /\ []NoOverflow => []AverageInRange
<1>1. IInv => AverageInRange
  BY DEF IInv
<1> QED
  BY <1>1, InitIInv, Inductive, PTL DEF Spec

\* A window without fast blocks never raises the difficulty and one without
\* slow blocks never lowers it, for every damping the logarithms lead to.
THEOREM DifficultyResponds == Spec /\ []NoOverflow => []Response
<1>1. IInv => Response
  BY DEF IInv
<1> QED
  BY <1>1, InitIInv, Inductive, PTL DEF Spec

-----------------------------------------------------------------------------
(* Median and template times, whatever the difficulty does *)

LEMMA RequiredType ==
  ASSUME NEW d \in Nat, NEW t \in Int
  PROVE  CalculateNextWorkRequired(d, t) \in Nat
<1>1. Log[Clamp(t)] \in Nat
  <2>1. Clamp(t) \in 1 .. MaxSpan
    BY ClampRange
  <2> QED
    BY <2>1, LogAssumption, Zenon
<1>2. PICK a \in Nat : a = Adjust(d, Log[Clamp(t)])
  BY <1>1, AdjustType
<1>3. PICK up \in Nat, down \in Nat : up = Add(d, Unit) /\ down = Sub(d, Unit)
  BY ModRange, ParamsAssumption DEF Add, Sub
<1>4. ClampChange(d, a) \in Nat
  BY <1>3 DEF ClampChange
<1> QED
  BY <1>2, <1>4, ParamsAssumption DEF CalculateNextWorkRequired

LEMMA TypesKept == TypeOK /\ [Next]_vars => TypeOK'
<1> SUFFICES ASSUME TypeOK, [Next]_vars PROVE TypeOK'
  OBVIOUS
<1>0. Tip.time \in Int /\ Tip.difficulty \in Nat
  BY HeaderType DEF TypeOK, Tip
<1>1. CASE KeepDifficulty
  BY <1>0, <1>1 DEF KeepDifficulty, loop, TypeOK
<1>2. CASE BeginRetarget
  BY <1>2, ParamsAssumption DEF BeginRetarget, TypeOK
<1>3. CASE WeighBlock
  <2>1. /\ i < nDifficultyWindow /\ pindex > 1
        /\ weighted_sum' = weighted_sum + (nDifficultyWindow - i) * Timespan(pindex)
        /\ weight_total' = weight_total + (nDifficultyWindow - i)
        /\ pindex' = pindex - 1 /\ i' = i + 1
        /\ UNCHANGED <<chain, now, pc, next>>
    BY <1>3 DEF WeighBlock, More
  <2>2. PICK w \in Nat : w = nDifficultyWindow - i
    BY <2>1, ParamsAssumption DEF TypeOK
  <2>3. PICK t \in Nat : t = Timespan(pindex)
    <3>1. pindex \in 2 .. Len(chain)
      BY <2>1 DEF TypeOK
    <3> QED
      BY <3>1, SpanType, SpanPositive
  <2>4. PICK wt \in Nat : wt = w * t
    OBVIOUS
  <2>5. weighted_sum' \in Nat /\ weight_total' \in Nat
    <3>1. weighted_sum' = weighted_sum + wt /\ weight_total' = weight_total + w
      BY <2>1, <2>2, <2>3, <2>4, Zenon
    <3> QED
      BY <3>1 DEF TypeOK
  <2>6. pindex' \in 1 .. Len(chain) /\ i' \in 0 .. nDifficultyWindow
    BY <2>1, ParamsAssumption DEF TypeOK
  <2> QED
    BY <2>1, <2>5, <2>6, Zenon DEF TypeOK
<1>4. CASE FinishRetarget
  <2>1. PICK avg \in Int :
          avg = IF weight_total > 0 THEN weighted_sum \div weight_total
                                    ELSE nPowTargetSpacing
    BY ParamsAssumption DEF TypeOK
  <2>2. next' = CalculateNextWorkRequired(Tip.difficulty, avg)
    BY <1>4, <2>1, Zenon DEF FinishRetarget
  <2>3. next' \in Nat
    BY <1>0, <2>2, RequiredType
  <2> QED
    BY <1>4, <2>3 DEF FinishRetarget, loop, TypeOK
<1>5. CASE AcceptHeader
  <2>1. PICK h \in Header : chain' = Append(chain, h)
    <3>1. PICK s \in TimeSteps :
            chain' = Append(chain, [time |-> Tip.time + s, difficulty |-> next])
      BY <1>5 DEF AcceptHeader
    <3>2. Tip.time + s \in Int /\ next \in Nat
      BY <1>0, TimeAssumption DEF TypeOK
    <3> QED
      BY <3>1, <3>2 DEF Header
  <2>2. Len(chain') = Len(chain) + 1 /\ chain' \in Seq(Header) /\ Len(chain) \in Nat
    BY <2>1 DEF TypeOK
  <2> QED
    BY <1>5, <2>2 DEF AcceptHeader, loop, TypeOK
<1>6. CASE Tick
  BY <1>6, TimeAssumption DEF Tick, loop, TypeOK
<1>7. CASE UNCHANGED vars
  BY <1>7 DEF vars, loop, TypeOK
<1> QED
  BY <1>1, <1>2, <1>3, <1>4, <1>5, <1>6, <1>7 DEF Next

\* Every variable keeps its type, on overflow too.
THEOREM HeaderTypes == Spec => []TypeOK
<1>1. Init => TypeOK
  BY InitIInv DEF IInv
<1> QED
  BY <1>1, TypesKept, PTL DEF Spec

\* A non-empty set of natural numbers has a smallest element, a bounded one a
\* largest.
LEMMA Smallest ==
  ASSUME NEW T, T \subseteq Nat, T # {}
  PROVE  \E x \in T : \A y \in T : x <= y
<1>1. PICK x \in T : \A y \in T : ~(<<y, x>> \in OpToRel(<, Nat))
  BY WFMin, NatLessThanWellFounded, Zenon
<1>2. \A y \in T : ~(y < x)
  BY <1>1, Zenon DEF OpToRel
<1> QED
  BY <1>2

LEMMA Largest ==
  ASSUME NEW N \in Nat, NEW T, T \subseteq 0 .. N, T # {}
  PROVE  \E x \in T : \A y \in T : y <= x
<1>1. {N - x : x \in T} \subseteq Nat /\ {N - x : x \in T} # {}
  <2>1. PICK t \in T : TRUE
    BY Zenon
  <2>2. N - t \in {N - x : x \in T}
    OBVIOUS
  <2>3. \A x \in T : N - x \in Nat
    OBVIOUS
  <2> QED
    BY <2>2, <2>3
<1>2. PICK z \in {N - x : x \in T} : \A y \in {N - x : x \in T} : z <= y
  BY <1>1, Smallest, Zenon
<1>3. PICK x \in T : z = N - x
  BY <1>2
<1>4. \A y \in T : N - x <= N - y
  BY <1>2, <1>3, Zenon
<1> QED
  BY <1>4

\* The members of w whose time is less than t, and at most t.
Before(c, w, t) == {k \in w : c[k].time < t}
UpTo(c, w, t)   == {k \in w : c[k].time <= t}

\* Rank of the time of a member of w.
Rank(c, w, k) == Cardinality(UpTo(c, w, c[k].time))

LEMMA Counts ==
  ASSUME NEW c, NEW w, IsFiniteSet(w), NEW t
  PROVE  /\ IsFiniteSet(Before(c, w, t)) /\ IsFiniteSet(UpTo(c, w, t))
         /\ Cardinality(w) \in Nat
         /\ Cardinality(Before(c, w, t)) \in Nat /\ Cardinality(UpTo(c, w, t)) \in Nat
         /\ Cardinality(UpTo(c, w, t)) <= Cardinality(w)
<1>1. Before(c, w, t) \in SUBSET w /\ UpTo(c, w, t) \in SUBSET w
  BY Zenon DEF Before, UpTo
<1>2. /\ IsFiniteSet(Before(c, w, t)) /\ IsFiniteSet(UpTo(c, w, t))
      /\ Cardinality(UpTo(c, w, t)) <= Cardinality(w)
  BY <1>1, FS_Subset, Zenon
<1> QED
  BY <1>2, FS_CardinalityType, Zenon

\* An earlier time has a smaller rank.
LEMMA RankOrder ==
  ASSUME NEW c, NEW w, IsFiniteSet(w), \A k \in w : c[k].time \in Int,
         NEW j \in w, NEW k \in w, c[j].time < c[k].time
  PROVE  Rank(c, w, j) < Rank(c, w, k)
<1>1. PICK x \in Int, y \in Int : x = c[j].time /\ y = c[k].time /\ x < y
  BY Zenon
<1>2. UpTo(c, w, x) \in SUBSET UpTo(c, w, y)
  BY <1>1 DEF UpTo
<1>3. k \in UpTo(c, w, y) /\ k \notin UpTo(c, w, x)
  BY <1>1 DEF UpTo
<1>4. PICK A, B : A = UpTo(c, w, x) /\ B = UpTo(c, w, y)
  BY Zenon
<1>5. IsFiniteSet(B) /\ A \in SUBSET B /\ A # B
  BY <1>2, <1>3, <1>4, Counts, Zenon
<1>6. Cardinality(A) <= Cardinality(B) /\ Cardinality(A) # Cardinality(B)
  BY <1>5, FS_Subset, Zenon
<1>7. Cardinality(A) \in Nat /\ Cardinality(B) \in Nat
  BY <1>4, Counts, Zenon
<1>8. Cardinality(A) < Cardinality(B)
  BY <1>6, <1>7
<1> QED
  BY <1>1, <1>4, <1>8, Zenon DEF Rank

\* A non-empty part of w has a latest member.
LEMMA LatestExists ==
  ASSUME NEW c, NEW w, IsFiniteSet(w), \A k \in w : c[k].time \in Int,
         NEW B, B \subseteq w, B # {}
  PROVE  \E k \in B : B \subseteq UpTo(c, w, c[k].time)
<1>1. PICK N \in Nat : N = Cardinality(w)
  BY FS_CardinalityType, Zenon
<1>2. \A k \in w : Rank(c, w, k) \in 0 .. N
  <2> TAKE k \in w
  <2>1. Rank(c, w, k) \in Nat /\ Rank(c, w, k) <= N
    BY <1>1, Counts, Zenon DEF Rank
  <2> QED
    BY <2>1
<1>3. PICK T : T = {Rank(c, w, k) : k \in B}
  BY Zenon
<1>4. T \subseteq 0 .. N /\ T # {}
  BY <1>2, <1>3, Zenon
<1>5. PICK x \in T : \A y \in T : y <= x
  BY <1>4, Largest, Zenon
<1>6. PICK k \in B : x = Rank(c, w, k)
  BY <1>3, <1>5, Zenon
<1>7. ASSUME NEW j \in B PROVE c[j].time <= c[k].time
  <2>1. SUFFICES ASSUME c[k].time < c[j].time PROVE FALSE
    BY <1>6, <1>7
  <2>2. Rank(c, w, k) < Rank(c, w, j)
    BY <1>6, <1>7, <2>1, RankOrder, Zenon
  <2>3. Rank(c, w, j) <= Rank(c, w, k)
    BY <1>3, <1>5, <1>6, <1>7, Zenon
  <2>4. Rank(c, w, k) \in Int /\ Rank(c, w, j) \in Int
    BY <1>2, <1>6, <1>7
  <2> QED
    BY <2>2, <2>3, <2>4
<1>8. B \subseteq UpTo(c, w, c[k].time)
  BY <1>7, Zenon DEF UpTo
<1> QED
  BY <1>6, <1>8, Zenon

\* Some member of w has the middle rank: at most half of w lies before it,
\* more than half of w not after it.
LEMMA MiddleExists ==
  ASSUME NEW c, NEW w, IsFiniteSet(w), w # {}, \A k \in w : c[k].time \in Int,
         NEW m \in Nat, m < Cardinality(w)
  PROVE  \E k \in w : /\ Cardinality(Before(c, w, c[k].time)) <= m
                      /\ m < Cardinality(UpTo(c, w, c[k].time))
<1>1. PICK top \in w : w \subseteq UpTo(c, w, c[top].time)
  BY LatestExists, Zenon
<1>2. m < Rank(c, w, top)
  <2>1. UpTo(c, w, c[top].time) = w
    BY <1>1, Zenon DEF UpTo
  <2> QED
    BY <2>1, Zenon DEF Rank
<1>3. PICK T : T = {r \in {Rank(c, w, k) : k \in w} : m < r}
  BY Zenon
<1>4. T \subseteq Nat /\ T # {}
  <2>1. \A k \in w : Rank(c, w, k) \in Nat
    BY Counts, Zenon DEF Rank
  <2> QED
    BY <1>2, <1>3, <2>1, Zenon
<1>5. PICK x \in T : \A y \in T : x <= y
  BY <1>4, Smallest, Zenon
<1>6. PICK k \in w : x = Rank(c, w, k) /\ m < Rank(c, w, k)
  BY <1>3, <1>5, Zenon
<1>7. PICK B : B = Before(c, w, c[k].time)
  BY Zenon
<1>8. Cardinality(B) <= m
  <2>1. Cardinality(B) \in Nat /\ IsFiniteSet(B)
    BY <1>7, Counts, Zenon
  <2>2. SUFFICES ASSUME m < Cardinality(B) PROVE FALSE
    BY <2>1
  <2>3. B # {}
    <3>1. Cardinality(B) # 0
      BY <2>1, <2>2
    <3> QED
      BY <2>1, <3>1, FS_EmptySet, Zenon
  <2>4. B \subseteq w
    BY <1>7, Zenon DEF Before
  <2>5. PICK j \in B : B \subseteq UpTo(c, w, c[j].time)
    BY <2>3, <2>4, LatestExists, Zenon
  <2>6. IsFiniteSet(UpTo(c, w, c[j].time)) /\ Rank(c, w, j) \in Nat
    BY Counts, Zenon DEF Rank
  <2>7. Cardinality(B) <= Rank(c, w, j)
    BY <2>5, <2>6, FS_Subset, Zenon DEF Rank
  <2>8. m < Rank(c, w, j)
    BY <2>1, <2>2, <2>6, <2>7
  <2>9. Rank(c, w, k) <= Rank(c, w, j)
    BY <1>3, <1>5, <1>6, <2>4, <2>5, <2>8, Zenon
  <2>10. c[j].time < c[k].time
    BY <1>7, <2>5, Zenon DEF Before
  <2>11. Rank(c, w, j) < Rank(c, w, k)
    BY <1>6, <2>4, <2>5, <2>10, RankOrder, Zenon
  <2>12. Rank(c, w, k) \in Nat
    BY Counts, Zenon DEF Rank
  <2> QED
    BY <2>6, <2>9, <2>11, <2>12
<1> QED
  BY <1>6, <1>7, <1>8, Zenon DEF Rank

Times(c) == Len(c) \in Nat /\ Len(c) >= 1 /\ \A k \in 1 .. Len(c) : c[k].time \in Int

\* The last n headers of a chain.
LEMMA WindowIs ==
  ASSUME NEW c, Times(c)
  PROVE  LET w == LastOf(c, nMedianTimeSpan) IN
         /\ IsFiniteSet(w) /\ w # {} /\ w \subseteq 1 .. Len(c)
         /\ Cardinality(w) = IF Len(c) < nMedianTimeSpan THEN Len(c) ELSE nMedianTimeSpan
<1>1. PICK n \in Nat, l \in Nat : n = nMedianTimeSpan /\ n > 0 /\ l = Len(c) /\ l > 0
  BY TimeAssumption DEF Times
<1>2. CASE l < n
  <2>1. LastOf(c, n) = 1 .. l
    BY <1>1, <1>2 DEF LastOf
  <2>2. IsFiniteSet(1 .. l) /\ Cardinality(1 .. l) = l
    <3>1. 1 \in Int /\ l \in Int
      BY <1>1
    <3>2. IsFiniteSet(1 .. l) /\ Cardinality(1 .. l) = IF 1 > l THEN 0 ELSE l - 1 + 1
      BY <3>1, FS_Interval, Zenon
    <3> QED
      BY <1>1, <3>2
  <2>3. 1 .. l # {}
    BY <1>1
  <2> QED
    BY <1>1, <1>2, <2>1, <2>2, <2>3, Zenon
<1>3. CASE ~(l < n)
  <2>1. LastOf(c, n) = l - n + 1 .. l
    BY <1>1, <1>3 DEF LastOf
  <2>2. /\ IsFiniteSet(l - n + 1 .. l) /\ Cardinality(l - n + 1 .. l) = n
        /\ l \in l - n + 1 .. l /\ l - n + 1 .. l \subseteq 1 .. l
    <3>1. l - n + 1 \in Int /\ l \in Int
      BY <1>1
    <3>2. /\ IsFiniteSet(l - n + 1 .. l)
          /\ Cardinality(l - n + 1 .. l) =
               IF l - n + 1 > l THEN 0 ELSE l - (l - n + 1) + 1
      BY <3>1, FS_Interval, Zenon
    <3> QED
      BY <1>1, <1>3, <3>2
  <2> QED
    BY <1>1, <1>3, <2>1, <2>2, Zenon
<1> QED
  BY <1>2, <1>3, Zenon

\* GetMedianTimePast() is the time of a header of the window, and it has the
\* middle rank.
LEMMA MedianIs ==
  ASSUME NEW c, Times(c)
  PROVE  LET w == LastOf(c, nMedianTimeSpan)  t == MedianTimePast(c) IN
         /\ t \in Int /\ \E k \in w : t = c[k].time
         /\ Cardinality(Before(c, w, t)) <= Cardinality(w) \div 2
         /\ Cardinality(w) \div 2 < Cardinality(UpTo(c, w, t))
<1>1. PICK w : w = LastOf(c, nMedianTimeSpan)
  BY Zenon
<1>2. IsFiniteSet(w) /\ w # {} /\ \A k \in w : c[k].time \in Int
  BY <1>1, WindowIs, Zenon DEF Times
<1>3. Cardinality(w) \in Nat /\ Cardinality(w) # 0
  BY <1>2, FS_CardinalityType, FS_EmptySet, Zenon
<1>4. PICK m \in Nat : m = Cardinality(w) \div 2 /\ m < Cardinality(w)
  BY <1>3
<1>5. PICK k \in w : /\ Cardinality(Before(c, w, c[k].time)) <= m
                     /\ m < Cardinality(UpTo(c, w, c[k].time))
  BY <1>2, <1>4, MiddleExists, Zenon
<1>6. \E t \in {c[j].time : j \in w} : /\ Cardinality(Before(c, w, t)) <= m
                                       /\ m < Cardinality(UpTo(c, w, t))
  BY <1>5, Zenon
<1>7. MedianTimePast(c) =
        CHOOSE t \in {c[j].time : j \in w} : /\ Cardinality(Before(c, w, t)) <= m
                                             /\ m < Cardinality(UpTo(c, w, t))
  BY <1>1, <1>4, Zenon DEF MedianTimePast, Before, UpTo
<1>8. /\ MedianTimePast(c) \in {c[j].time : j \in w}
      /\ Cardinality(Before(c, w, MedianTimePast(c))) <= m
      /\ m < Cardinality(UpTo(c, w, MedianTimePast(c)))
  BY <1>6, <1>7, Zenon
<1> QED
  BY <1>1, <1>2, <1>4, <1>8, Zenon

LEMMA ChainTimes ==
  ASSUME NEW c \in Seq(Header), Len(c) >= 1
  PROVE  Times(c)
<1>1. Len(c) \in Nat /\ \A k \in 1 .. Len(c) : c[k] \in Header
  OBVIOUS
<1>2. \A h \in Header : h.time \in Int
  BY DEF Header
<1> QED
  BY <1>1, <1>2, Zenon DEF Times

\* A header later than the median does not lower it.
LEMMA MedianGrows ==
  ASSUME NEW c, Times(c), NEW d, Times(d), NEW l \in Nat, l = Len(c), Len(d) = l + 1,
         \A k \in 1 .. l : d[k] = c[k], d[l + 1].time > MedianTimePast(c)
  PROVE  MedianTimePast(d) >= MedianTimePast(c)
<1>1. PICK v, w : v = LastOf(c, nMedianTimeSpan) /\ w = LastOf(d, nMedianTimeSpan)
  BY Zenon
<1>2. PICK s \in Int, t \in Int : s = MedianTimePast(c) /\ t = MedianTimePast(d)
  BY MedianIs, Zenon
<1>3. SUFFICES ASSUME t < s PROVE FALSE
  BY <1>2
<1>4. w \subseteq v \cup {l + 1} /\ v \subseteq 1 .. l /\ w \subseteq 1 .. l + 1
  BY <1>1, TimeAssumption DEF LastOf
<1>5. UpTo(d, w, t) \in SUBSET Before(c, v, s)
  <2>1. SUFFICES ASSUME NEW k \in UpTo(d, w, t) PROVE k \in Before(c, v, s)
    BY Zenon
  <2>2. k \in w /\ d[k].time <= t
    BY <2>1, Zenon DEF UpTo
  <2>3. k \in 1 .. l + 1 /\ d[k].time \in Int
    BY <1>4, <2>2, Zenon DEF Times
  <2>4. d[k].time < s
    BY <1>3, <2>2, <2>3
  <2>5. k # l + 1
    <3>1. SUFFICES ASSUME k = l + 1 PROVE FALSE
      BY Zenon
    <3>2. d[k].time > s
      BY <1>2, <3>1, Zenon
    <3> QED
      BY <2>3, <2>4, <3>2
  <2>6. k \in v /\ d[k] = c[k]
    BY <1>4, <2>2, <2>5, Zenon
  <2> QED
    BY <2>4, <2>6, Zenon DEF Before
<1>6. IsFiniteSet(v) /\ IsFiniteSet(w)
  BY <1>1, WindowIs, Zenon
<1>7. PICK a \in Nat, b \in Nat, x \in Nat, y \in Nat :
        /\ a = Cardinality(v) /\ b = Cardinality(w)
        /\ x = Cardinality(Before(c, v, s)) /\ y = Cardinality(UpTo(d, w, t))
  BY <1>6, Counts, Zenon
<1>8. y <= x
  BY <1>5, <1>6, <1>7, Counts, FS_Subset, Zenon
<1>9. x <= a \div 2 /\ b \div 2 < y
  BY <1>1, <1>2, <1>7, MedianIs, Zenon
<1>10. a <= b
  <2>1. /\ a = IF Len(c) < nMedianTimeSpan THEN Len(c) ELSE nMedianTimeSpan
        /\ b = IF Len(d) < nMedianTimeSpan THEN Len(d) ELSE nMedianTimeSpan
    BY <1>1, <1>7, WindowIs, Zenon
  <2> QED
    BY <2>1, TimeAssumption
<1> QED
  BY <1>8, <1>9, <1>10

\* The median of the times never goes back along a chain that
\* ContextualCheckBlockHeader() accepts, for every span of the median.
THEOREM MedianIsMonotone == Spec => MedianMonotone
<1>1. TypeOK /\ TypeOK' /\ [Next]_vars
        => [MedianTimePast(chain') >= MedianTimePast(chain)]_vars
  <2> SUFFICES ASSUME TypeOK, TypeOK', [Next]_vars
               PROVE  MedianTimePast(chain') >= MedianTimePast(chain)
    BY Zenon
  <2>1. Times(chain) /\ Times(chain')
    BY ChainTimes, Zenon DEF TypeOK
  <2>2. CASE AcceptHeader
    <3>1. PICK h : chain' = Append(chain, h) /\ h.time > MedianTimePast(chain)
      <4>1. PICK s \in TimeSteps :
              /\ TimeAllowed(Tip.time + s)
              /\ chain' = Append(chain, [time |-> Tip.time + s, difficulty |-> next])
        BY <2>2, Zenon DEF AcceptHeader
      <4>2. [time |-> Tip.time + s, difficulty |-> next].time = Tip.time + s
        OBVIOUS
      <4>3. Tip.time + s > MedianTimePast(chain)
        BY <4>1, Zenon DEF TimeAllowed
      <4> QED
        BY <4>1, <4>2, <4>3, Zenon
    <3>2. PICK l \in Nat : l = Len(chain)
      BY <2>1, Zenon DEF Times
    <3>3. /\ Len(chain') = l + 1 /\ chain'[l + 1] = h
          /\ \A k \in 1 .. l : chain'[k] = chain[k]
      BY <3>1, <3>2 DEF TypeOK
    <3> QED
      BY <2>1, <3>1, <3>2, <3>3, MedianGrows, Zenon
  <2>3. CASE ~AcceptHeader
    <3>1. chain' = chain
      BY <2>3, Zenon DEF Next, vars, loop, KeepDifficulty, BeginRetarget, WeighBlock,
         FinishRetarget, Tick
    <3>2. MedianTimePast(chain) \in Int
      BY <2>1, MedianIs, Zenon
    <3> QED
      BY <3>1, <3>2
  <2> QED
    BY <2>2, <2>3, Zenon
<1> QED
  BY <1>1, HeaderTypes, PTL DEF Spec, MedianMonotone

\* No header was too far in the future when it was accepted, and the clock
\* does not go back.
NotTooNew == \A k \in 1 .. Len(chain) : chain[k].time <= now + MAX_FUTURE_BLOCK_TIME

\* The time UpdateTime() puts into a template passes the header rules, save
\* for the one second beyond the limit into the future, for every window and
\* every chain, provided that a block may go back as far as blocks may be in
\* the future (both are 15 seconds; on regtest the latter are 7200).
THEOREM TemplatePasses ==
  ASSUME MAX_FUTURE_BLOCK_TIME <= MaxBack
  PROVE  Spec => []TemplateTimeAllowed
<1>1. Init => NotTooNew
  BY TimeAssumption DEF Init, NotTooNew
<1>2. TypeOK /\ NotTooNew /\ [Next]_vars => NotTooNew'
  <2> SUFFICES ASSUME TypeOK, NotTooNew, [Next]_vars PROVE NotTooNew'
    OBVIOUS
  <2> USE TimeAssumption
  <2>1. CASE AcceptHeader
    <3>1. PICK h : /\ chain' = Append(chain, h)
                   /\ h.time <= now + MAX_FUTURE_BLOCK_TIME
      <4>1. PICK s \in TimeSteps :
              /\ TimeAllowed(Tip.time + s)
              /\ chain' = Append(chain, [time |-> Tip.time + s, difficulty |-> next])
        BY <2>1, Zenon DEF AcceptHeader
      <4>2. [time |-> Tip.time + s, difficulty |-> next].time = Tip.time + s
        OBVIOUS
      <4>3. Tip.time + s <= now + MAX_FUTURE_BLOCK_TIME
        BY <4>1, Zenon DEF TimeAllowed
      <4> QED
        BY <4>1, <4>2, <4>3, Zenon
    <3>2. PICK l \in Nat : l = Len(chain)
      BY DEF TypeOK
    <3>3. /\ Len(chain') = l + 1 /\ chain'[l + 1] = h
          /\ \A k \in 1 .. l : chain'[k] = chain[k]
      BY <3>1, <3>2 DEF TypeOK
    <3>4. now' = now
      BY <2>1, Zenon DEF AcceptHeader
    <3>5. ASSUME NEW k \in 1 .. l + 1
          PROVE  chain'[k].time <= now + MAX_FUTURE_BLOCK_TIME
      <4>1. CASE k = l + 1
        BY <3>1, <3>3, <4>1, Zenon
      <4>2. CASE k \in 1 .. l
        BY <3>2, <3>3, <4>2, Zenon DEF NotTooNew
      <4> QED
        BY <4>1, <4>2
    <3> QED
      BY <3>3, <3>4, <3>5, Zenon DEF NotTooNew
  <2>2. CASE Tick
    <3>1. chain' = chain /\ now' >= now /\ now' \in Nat
      BY <2>2 DEF Tick, TypeOK
    <3>2. \A k \in 1 .. Len(chain) : chain[k].time \in Int
      BY HeaderType, Zenon
    <3> QED
      BY <3>1, <3>2 DEF NotTooNew, TypeOK
  <2>3. CASE ~AcceptHeader /\ ~Tick
    <3>1. chain' = chain /\ now' = now
      BY <2>3, Zenon DEF Next, vars, loop, KeepDifficulty, BeginRetarget, WeighBlock,
         FinishRetarget
    <3> QED
      BY <3>1, Zenon DEF NotTooNew
  <2> QED
    BY <2>1, <2>2, <2>3, Zenon
<1>3. TypeOK /\ NotTooNew => TemplateTimeAllowed
  <2> SUFFICES ASSUME TypeOK, NotTooNew PROVE TemplateTimeAllowed
    OBVIOUS
  <2>1. PICK w : w = LastOf(chain, nMedianTimeSpan)
    BY Zenon
  <2>2. w \subseteq 1 .. Len(chain)
    BY <2>1, ChainTimes, WindowIs, Zenon DEF TypeOK
  <2>3. PICK t \in Int : t = MedianTimePast(chain) /\ \E k \in w : t = chain[k].time
    BY <2>1, ChainTimes, MedianIs, Zenon DEF TypeOK
  <2>4. t <= now + MAX_FUTURE_BLOCK_TIME
    BY <2>2, <2>3, Zenon DEF NotTooNew
  <2>5. Tip.time <= now + MAX_FUTURE_BLOCK_TIME /\ Tip.time \in Int
    <3>1. Len(chain) \in 1 .. Len(chain)
      BY DEF TypeOK
    <3> QED
      BY <3>1, HeaderType, Zenon DEF NotTooNew, Tip
  <2>6. PICK n \in Nat, u \in Int :
          n = now /\ u = UpdateTime /\ u = IF t + 1 > n THEN t + 1 ELSE n
    BY <2>3 DEF UpdateTime, TypeOK
  <2>7. u > t /\ u >= Tip.time - MaxBack /\ u <= n + MAX_FUTURE_BLOCK_TIME + 1
    BY <2>4, <2>5, <2>6, TimeAssumption
  <2> QED
    BY <2>3, <2>6, <2>7, Zenon DEF TemplateTimeAllowed
<1> QED
  BY <1>1, <1>2, <1>3, HeaderTypes, PTL DEF Spec
=============================================================================
