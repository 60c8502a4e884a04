-------------------------- MODULE RyvoYieldProofs --------------------------
(***************************************************************************)
(* The yield-bearing wrapper, proved.                                      *)
(*                                                                         *)
(* The books.  An instruction that makes or burns shares moves two entries *)
(* of one participant, one of shares and one of plain tokens, and the      *)
(* strategy's counter with the first (Transfers); others move the reserve  *)
(* only (Stands); the settlement core moves shares between entries and     *)
(* lanes but makes none (CoreSettles).  Every step has one of these forms, *)
(* and each keeps WrapperInvariant, which is conservation for the composed *)
(* system.                                                                 *)
(*                                                                         *)
(* The value.  A step accrues the reserve and then at most takes one       *)
(* deposit, pays two redemptions, or takes a new rate (ReserveStep).       *)
(* Quotients are rounded down by the program; they are compared here by    *)
(* cross multiplication, so that nothing is lost in the proof.             *)
(***************************************************************************)
EXTENDS RyvoYieldSafety, RyvoCoreProofs

-----------------------------------------------------------------------------
(***************************************************************************)
(* Division rounds down.                                                   *)
(***************************************************************************)
LEMMA Quotient ==
  ASSUME NEW a \in Nat, NEW b \in Nat \ {0}
  PROVE  /\ a \div b \in Nat
         /\ b * (a \div b) <= a
         /\ a < b * (a \div b) + b
<1>1. a = b * (a \div b) + (a % b) /\ a \div b \in Int /\ a % b \in 0 .. b - 1
  OBVIOUS
<1>2. a \div b >= 0
  OBVIOUS
<1>. QED BY <1>1, <1>2

LEMMA Product ==
  ASSUME NEW a \in Nat, NEW b \in Nat
  PROVE  a * b \in Nat
OBVIOUS

-----------------------------------------------------------------------------
(***************************************************************************)
(* The reserve.                                                            *)
(***************************************************************************)
LEMMA ReserveTypes ==
  ASSUME NEW r \in ReserveState
  PROVE  /\ r.apy_bps \in Nat /\ r.last_accrual_ts \in Nat
         /\ r.total_underlying \in Nat /\ r.share_supply \in Nat /\ r.liquidity \in Nat
BY InterestAssumption DEF ReserveState

\* Interest is never negative and changes nothing but the booked total.
LEMMA AccruedType ==
  ASSUME NEW r \in ReserveState, NEW ts \in Nat
  PROVE  /\ Accrued(r, ts) \in ReserveState
         /\ Accrued(r, ts).share_supply = r.share_supply
         /\ Accrued(r, ts).liquidity = r.liquidity
         /\ Accrued(r, ts).apy_bps = r.apy_bps
         /\ Accrued(r, ts).total_underlying >= r.total_underlying
         /\ Accrued(r, ts).last_accrual_ts = Greater(r.last_accrual_ts, ts)
<1>1. CASE ts <= r.last_accrual_ts
  BY <1>1, ReserveTypes DEF Accrued, Greater
<1>2. CASE ts > r.last_accrual_ts
  <2>1. Interest(r, ts) \in Nat
    <3>1. ts - r.last_accrual_ts \in Nat
      BY <1>2, ReserveTypes
    <3>2. r.total_underlying * r.apy_bps * (ts - r.last_accrual_ts) \in Nat
      BY <3>1, ReserveTypes, Product
    <3>. QED BY <3>2, Quotient, InterestAssumption DEF Interest
  <2>2. Accrued(r, ts)
          = [r EXCEPT !.total_underlying = @ + Interest(r, ts), !.last_accrual_ts = ts]
    BY <1>2, ReserveTypes DEF Accrued
  <2>3. r.total_underlying + Interest(r, ts) \in Nat
    BY <2>1, ReserveTypes
  <2>. SUFFICES ASSUME NEW total \in Nat, total = r.total_underlying + Interest(r, ts)
                PROVE  LET m == [r EXCEPT !.total_underlying = total, !.last_accrual_ts = ts]
                       IN  /\ m \in ReserveState
                           /\ m.share_supply = r.share_supply
                           /\ m.liquidity = r.liquidity
                           /\ m.apy_bps = r.apy_bps
                           /\ m.total_underlying >= r.total_underlying
                           /\ m.last_accrual_ts = Greater(r.last_accrual_ts, ts)
    BY <2>2, <2>3
  <2>4. total >= r.total_underlying /\ Greater(r.last_accrual_ts, ts) = ts
    BY <1>2, <2>1, ReserveTypes DEF Greater
  <2>. QED BY <2>4, Zenon DEF ReserveState
<1>. QED BY <1>1, <1>2, ReserveTypes

LEMMA SharesForType ==
  ASSUME NEW r \in ReserveState, NEW n \in Nat
  PROVE  SharesFor(r, n) \in Nat
<1>1. CASE r.share_supply = 0 \/ r.total_underlying = 0
  BY <1>1 DEF SharesFor
<1>2. CASE ~(r.share_supply = 0 \/ r.total_underlying = 0)
  <2>1. SharesFor(r, n) = (n * r.share_supply) \div r.total_underlying
    BY <1>2 DEF SharesFor
  <2>. QED BY <1>2, <2>1, ReserveTypes, Product, Quotient
<1>. QED BY <1>1, <1>2

LEMMA LiquidityDepositedType ==
  ASSUME NEW r \in ReserveState, NEW n \in Nat
  PROVE  LET m == LiquidityDeposited(r, n)
         IN  /\ m \in ReserveState
             /\ m.share_supply = r.share_supply + SharesFor(r, n)
             /\ m.total_underlying = r.total_underlying + n
             /\ m.liquidity = r.liquidity + n
             /\ m.apy_bps = r.apy_bps
             /\ m.last_accrual_ts = r.last_accrual_ts
<1>1. /\ r.share_supply + SharesFor(r, n) \in Nat
      /\ r.total_underlying + n \in Nat
      /\ r.liquidity + n \in Nat
  BY ReserveTypes, SharesForType
<1>. DEFINE m == LiquidityDeposited(r, n)
            total == r.total_underlying + n
            supply == r.share_supply + SharesFor(r, n)
            liquidity == r.liquidity + n
<1>2. m = [r EXCEPT !.total_underlying = total, !.share_supply = supply,
                    !.liquidity = liquidity]
  BY Zenon DEF LiquidityDeposited
<1>. HIDE DEF m, total, supply, liquidity
<1>3. /\ m \in ReserveState
      /\ m.share_supply = supply
      /\ m.total_underlying = total
      /\ m.liquidity = liquidity
      /\ m.apy_bps = r.apy_bps
      /\ m.last_accrual_ts = r.last_accrual_ts
  <2>1. total \in Nat /\ supply \in Nat /\ liquidity \in Nat
    BY <1>1 DEF total, supply, liquidity
  <2>. QED BY <1>2, <2>1, Zenon DEF ReserveState
<1>. QED BY <1>3 DEF m, total, supply, liquidity

LEMMA UnderlyingForType ==
  ASSUME NEW r \in ReserveState, NEW n \in Nat, r.share_supply > 0
  PROVE  UnderlyingFor(r, n) \in Nat
BY ReserveTypes, Product, Quotient DEF UnderlyingFor

LEMMA RedeemedType ==
  ASSUME NEW r \in ReserveState, NEW n \in Nat, CanRedeem(r, n)
  PROVE  LET m == Redeemed(r, n)
         IN  /\ m \in ReserveState
             /\ m.share_supply = r.share_supply - n
             /\ m.total_underlying = r.total_underlying - UnderlyingFor(r, n)
             /\ m.liquidity = r.liquidity - UnderlyingFor(r, n)
             /\ m.apy_bps = r.apy_bps
             /\ m.last_accrual_ts = r.last_accrual_ts
             /\ UnderlyingFor(r, n) \in Nat
<1>1. UnderlyingFor(r, n) \in Nat
  BY UnderlyingForType DEF CanRedeem
<1>2. /\ r.share_supply - n \in Nat
      /\ r.total_underlying - UnderlyingFor(r, n) \in Nat
      /\ r.liquidity - UnderlyingFor(r, n) \in Nat
  BY <1>1, ReserveTypes DEF CanRedeem
<1>. QED BY <1>1, <1>2 DEF Redeemed, ReserveState

\* usdc_to_cusdc and cusdc_to_usdc.
LEMMA ConversionTypes ==
  ASSUME NEW r \in ReserveState, NEW n \in Nat
  PROVE  /\ CusdcToUsdc(n, r) \in Nat
         /\ CanUsdcToCusdc(n, r) => UsdcToCusdc(n, r) \in Nat
<1>1. CusdcToUsdc(n, r) \in Nat
  <2>1. CASE r.share_supply = 0 \/ n = 0
    BY <2>1 DEF CusdcToUsdc
  <2>2. CASE ~(r.share_supply = 0 \/ n = 0)
    <3>1. CusdcToUsdc(n, r) = (n * r.total_underlying) \div r.share_supply
      BY <2>2 DEF CusdcToUsdc
    <3>. QED BY <2>2, <3>1, ReserveTypes, Product, Quotient
  <2>. QED BY <2>1, <2>2
<1>2. ASSUME CanUsdcToCusdc(n, r) PROVE UsdcToCusdc(n, r) \in Nat
  <2>1. CASE n = 0
    BY <2>1 DEF UsdcToCusdc
  <2>2. CASE n > 0
    <3>1. UsdcToCusdc(n, r) = (n * r.share_supply) \div r.total_underlying
      BY <2>2 DEF UsdcToCusdc
    <3>. QED BY <1>2, <2>2, <3>1, ReserveTypes, Product, Quotient DEF CanUsdcToCusdc
  <2>. QED BY <2>1, <2>2
<1>. QED BY <1>1, <1>2

-----------------------------------------------------------------------------
(***************************************************************************)
(* The strategy.                                                           *)
(***************************************************************************)
\* A strategy whose index is at least one, so that conversions are defined.
Sound == {s \in StrategyState : s.user_index >= IndexOne}

LEMMA IndexOneType ==
  IndexOne \in Nat \ {0}
BY MaxU64Assumption DEF IndexOne

LEMMA ShareBpsRange ==
  MaxShareBps \in Nat /\ MaxShareBps <= 10000
BY ShareBpsAssumption

LEMMA StrategyTypes ==
  ASSUME NEW s \in Sound
  PROVE  /\ s \in StrategyState
         /\ s.protocol_yield_share_bps \in Nat /\ s.protocol_yield_share_bps <= 10000
         /\ s.user_index \in Nat \ {0} /\ s.user_index >= IndexOne
         /\ s.last_settled_underlying \in Nat
         /\ s.total_user_shares \in Nat
         /\ s.protocol_owed_underlying \in Nat
<1>1. s \in StrategyState /\ s.user_index >= IndexOne
  BY DEF Sound
<1>2. /\ s.protocol_yield_share_bps \in 0 .. MaxShareBps
      /\ s.user_index \in Nat
      /\ s.last_settled_underlying \in Nat
      /\ s.total_user_shares \in Nat
      /\ s.protocol_owed_underlying \in Nat
  BY <1>1, Zenon DEF StrategyState
<1>3. s.protocol_yield_share_bps \in Nat /\ s.protocol_yield_share_bps <= 10000
  BY <1>2, ShareBpsRange
<1>4. s.user_index \in Nat \ {0}
  BY <1>1, <1>2, IndexOneType
<1>. QED BY <1>1, <1>2, <1>3, <1>4

LEMMA UserValueTypes ==
  ASSUME NEW s \in Sound, NEW n \in Nat
  PROVE  UsdcToShares(s, n) \in Nat /\ SharesToUsdc(s, n) \in Nat /\ UserOwed(s) \in Nat
<1>1. /\ n * IndexOne \in Nat /\ n * s.user_index \in Nat
      /\ s.total_user_shares * s.user_index \in Nat
  BY StrategyTypes, IndexOneType, Product
<1>2. IndexOne \in Nat \ {0} /\ s.user_index \in Nat \ {0}
  BY StrategyTypes, IndexOneType
<1>. QED BY <1>1, <1>2, Quotient DEF UsdcToShares, SharesToUsdc, UserOwed

\* The protocol's part of new value is a part of it.
LEMMA PartOfValue ==
  ASSUME NEW delta \in Nat, NEW bps \in Nat, bps <= 10000
  PROVE  (delta * bps) \div 10000 \in 0 .. delta
<1>1. delta * bps \in Nat /\ delta * bps <= delta * 10000
  OBVIOUS
<1>2. (delta * bps) \div 10000 \in Nat /\ 10000 * ((delta * bps) \div 10000) <= delta * bps
  BY <1>1, Quotient
<1>3. 10000 * ((delta * bps) \div 10000) <= delta * 10000
  BY <1>1, <1>2
<1>. QED BY <1>2, <1>3

LEMMA ProtocolCutType ==
  ASSUME NEW s \in Sound, NEW delta \in Nat
  PROVE  ProtocolCut(s, delta) \in 0 .. delta
BY StrategyTypes, PartOfValue DEF ProtocolCut

\* New value raises the index and the protocol's claim, and nothing else.
LEMMA ApplyYieldDeltaType ==
  ASSUME NEW s \in Sound, NEW delta \in Nat
  PROVE  LET m == ApplyYieldDelta(s, delta)
         IN  /\ m \in Sound
             /\ m.user_index >= s.user_index
             /\ m.protocol_owed_underlying >= s.protocol_owed_underlying
             /\ m.total_user_shares = s.total_user_shares
<1>. DEFINE m == ApplyYieldDelta(s, delta)
<1>0. s \in StrategyState /\ s.user_index \in Nat /\ s.user_index >= IndexOne
  BY StrategyTypes
<1>1. CASE s.total_user_shares = 0
  <2>. DEFINE owed == s.protocol_owed_underlying + delta
  <2>1. owed \in Nat /\ owed >= s.protocol_owed_underlying
    BY StrategyTypes
  <2>2. m = [s EXCEPT !.protocol_owed_underlying = owed]
    BY <1>1 DEF ApplyYieldDelta
  <2>. HIDE DEF owed, m
  <2>3. /\ m \in StrategyState
        /\ m.user_index = s.user_index
        /\ m.protocol_owed_underlying = owed
        /\ m.total_user_shares = s.total_user_shares
    BY <1>0, <2>1, <2>2, Zenon DEF StrategyState
  <2>4. m \in Sound
    BY <1>0, <2>3 DEF Sound
  <2>. QED BY <1>0, <2>1, <2>3, <2>4 DEF m
<1>2. CASE s.total_user_shares # 0
  <2>. DEFINE owed == s.protocol_owed_underlying + ProtocolCut(s, delta)
              index == s.user_index + IndexDelta(s, delta)
  <2>1. IndexDelta(s, delta) \in Nat
    <3>1. delta - ProtocolCut(s, delta) \in Nat
      BY ProtocolCutType
    <3>2. (delta - ProtocolCut(s, delta)) * IndexOne \in Nat
      BY <3>1, Product, IndexOneType
    <3>. QED BY <1>2, <3>2, StrategyTypes, Quotient DEF IndexDelta
  <2>2. /\ owed \in Nat /\ owed >= s.protocol_owed_underlying
        /\ index \in Nat /\ index >= s.user_index
    BY <2>1, StrategyTypes, ProtocolCutType
  <2>3. m = [s EXCEPT !.user_index = index, !.protocol_owed_underlying = owed]
    BY <1>2 DEF ApplyYieldDelta
  <2>. HIDE DEF owed, index, m
  <2>4. /\ m \in StrategyState
        /\ m.user_index = index
        /\ m.protocol_owed_underlying = owed
        /\ m.total_user_shares = s.total_user_shares
    BY <1>0, <2>2, <2>3, Zenon DEF StrategyState
  <2>5. m \in Sound
    BY <1>0, <2>2, <2>4, IndexOneType DEF Sound
  <2>. QED BY <2>2, <2>4, <2>5 DEF m
<1>. QED BY <1>1, <1>2

\* accrue_strategy lowers neither the index nor the protocol's claim, whatever
\* the share vault is worth by now.
LEMMA AccruedStrategyType ==
  ASSUME NEW s \in Sound, NEW r \in ReserveState, NEW n \in Nat
  PROVE  LET m == AccruedStrategy(s, r, n)
         IN  /\ m \in Sound
             /\ m.user_index >= s.user_index
             /\ m.protocol_owed_underlying >= s.protocol_owed_underlying
             /\ m.total_user_shares = s.total_user_shares
             /\ m.last_settled_underlying = CusdcToUsdc(n, r)
<1>. DEFINE delta == NewYield(s, r, n)
            grown == IF delta > 0 THEN ApplyYieldDelta(s, delta) ELSE s
            worth == CusdcToUsdc(n, r)
            m == AccruedStrategy(s, r, n)
<1>1. worth \in Nat
  BY ConversionTypes
<1>2. delta \in Nat
  <2>1. delta = IF worth > s.last_settled_underlying
                THEN worth - s.last_settled_underlying
                ELSE 0
    BY Zenon DEF NewYield
  <2>2. s.last_settled_underlying \in Nat
    BY StrategyTypes
  <2>3. ASSUME NEW a \in Nat, NEW b \in Nat
        PROVE  (IF a > b THEN a - b ELSE 0) \in Nat
    OBVIOUS
  <2>. HIDE DEF delta, worth
  <2>. QED BY <1>1, <2>1, <2>2, <2>3, Zenon
<1>3. m = [grown EXCEPT !.last_settled_underlying = worth]
  BY Zenon DEF AccruedStrategy
<1>. HIDE DEF delta, worth, m
<1>4. /\ grown \in Sound
      /\ grown.user_index >= s.user_index
      /\ grown.protocol_owed_underlying >= s.protocol_owed_underlying
      /\ grown.total_user_shares = s.total_user_shares
  <2>1. CASE delta > 0
    <3>1. grown = ApplyYieldDelta(s, delta)
      BY <2>1
    <3>. HIDE DEF grown
    <3>. QED BY <1>2, <3>1, ApplyYieldDeltaType
  <2>2. CASE ~(delta > 0)
    <3>1. grown = s
      BY <2>2
    <3>2. /\ s.user_index >= s.user_index
          /\ s.protocol_owed_underlying >= s.protocol_owed_underlying
      BY StrategyTypes
    <3>. QED BY <3>1, <3>2
  <2>. QED BY <2>1, <2>2
<1>. HIDE DEF grown
<1>5. grown \in StrategyState /\ grown.user_index >= IndexOne
  BY <1>4, StrategyTypes
<1>6. /\ m \in StrategyState
      /\ m.user_index = grown.user_index
      /\ m.protocol_owed_underlying = grown.protocol_owed_underlying
      /\ m.total_user_shares = grown.total_user_shares
      /\ m.last_settled_underlying = worth
  BY <1>1, <1>3, <1>5, Zenon DEF StrategyState
<1>7. m \in Sound
  BY <1>5, <1>6 DEF Sound
<1>. QED BY <1>4, <1>6, <1>7 DEF m, worth

LEMMA SharesMintedType ==
  ASSUME NEW s \in Sound, NEW n \in Nat
  PROVE  LET m == SharesMinted(s, n)
         IN  /\ m \in Sound
             /\ m.user_index = s.user_index
             /\ m.protocol_owed_underlying = s.protocol_owed_underlying
             /\ m.total_user_shares = s.total_user_shares + UsdcToShares(s, n)
             /\ m.last_settled_underlying = s.last_settled_underlying + n
<1>. DEFINE shares == s.total_user_shares + UsdcToShares(s, n)
            settled == s.last_settled_underlying + n
            m == SharesMinted(s, n)
<1>1. shares \in Nat /\ settled \in Nat
  BY StrategyTypes, UserValueTypes
<1>2. m = [s EXCEPT !.total_user_shares = shares, !.last_settled_underlying = settled]
  BY Zenon DEF SharesMinted
<1>3. s \in StrategyState /\ s.user_index >= IndexOne
  BY StrategyTypes
<1>. HIDE DEF shares, settled, m
<1>4. /\ m \in StrategyState
      /\ m.user_index = s.user_index
      /\ m.protocol_owed_underlying = s.protocol_owed_underlying
      /\ m.total_user_shares = shares
      /\ m.last_settled_underlying = settled
  BY <1>1, <1>2, <1>3, Zenon DEF StrategyState
<1>5. m \in Sound
  BY <1>3, <1>4 DEF Sound
<1>. QED BY <1>4, <1>5 DEF m, shares, settled

LEMMA SharesBurnedType ==
  ASSUME NEW s \in Sound, NEW n \in Nat, n <= s.total_user_shares, NEW u \in Nat
  PROVE  LET m == SharesBurned(s, n, u)
         IN  /\ m \in Sound
             /\ m.user_index = s.user_index
             /\ m.protocol_owed_underlying = s.protocol_owed_underlying
             /\ m.total_user_shares = s.total_user_shares - n
             /\ m.last_settled_underlying = Greater(s.last_settled_underlying - u, 0)
<1>. DEFINE shares == s.total_user_shares - n
            settled == Greater(s.last_settled_underlying - u, 0)
            m == SharesBurned(s, n, u)
<1>1. shares \in Nat /\ settled \in Nat
  BY StrategyTypes DEF Greater
<1>2. m = [s EXCEPT !.total_user_shares = shares, !.last_settled_underlying = settled]
  BY Zenon DEF SharesBurned
<1>3. s \in StrategyState /\ s.user_index >= IndexOne
  BY StrategyTypes
<1>. HIDE DEF shares, settled, m
<1>4. /\ m \in StrategyState
      /\ m.user_index = s.user_index
      /\ m.protocol_owed_underlying = s.protocol_owed_underlying
      /\ m.total_user_shares = shares
      /\ m.last_settled_underlying = settled
  BY <1>1, <1>2, <1>3, Zenon DEF StrategyState
<1>5. m \in Sound
  BY <1>3, <1>4 DEF Sound
<1>. QED BY <1>4, <1>5 DEF m, shares, settled

-----------------------------------------------------------------------------
(***************************************************************************)
(* The state once reserve and strategy have accrued.                       *)
(***************************************************************************)
\* The wrapper's own part of the types.
WrapperTypes ==
  strategy \in Sound /\ reserve \in ReserveState /\ shareVault \in 0 .. reserve.share_supply

LEMMA YieldTypesByPart ==
  YieldTypeOK <=> TypeOK /\ WrapperTypes
BY DEF YieldTypeOK, WrapperTypes, Sound

LEMMA Fresh ==
  ASSUME TypeOK, WrapperTypes
  PROVE  /\ FreshReserve \in ReserveState
         /\ FreshReserve.share_supply = reserve.share_supply
         /\ FreshReserve.liquidity = reserve.liquidity
         /\ FreshReserve.total_underlying >= reserve.total_underlying
         /\ FreshStrategy \in Sound
         /\ FreshStrategy.user_index >= strategy.user_index
         /\ FreshStrategy.protocol_owed_underlying >= strategy.protocol_owed_underlying
         /\ FreshStrategy.total_user_shares = strategy.total_user_shares
         /\ FreshStrategy.last_settled_underlying = CusdcToUsdc(shareVault, FreshReserve)
         /\ shareVault \in Nat /\ shareVault <= reserve.share_supply
<1>1. now \in Nat
  BY DEF TypeOK
<1>2. reserve \in ReserveState /\ strategy \in Sound
  BY DEF WrapperTypes
<1>3. shareVault \in Nat /\ shareVault <= reserve.share_supply
  BY <1>2, ReserveTypes DEF WrapperTypes
<1>4. /\ FreshReserve \in ReserveState
      /\ FreshReserve.share_supply = reserve.share_supply
      /\ FreshReserve.liquidity = reserve.liquidity
      /\ FreshReserve.total_underlying >= reserve.total_underlying
  BY <1>1, <1>2, AccruedType DEF FreshReserve
<1>. QED BY <1>2, <1>3, <1>4, AccruedStrategyType DEF FreshStrategy

-----------------------------------------------------------------------------
(***************************************************************************)
(* What an instruction on the wrapper does to the books.                   *)
(***************************************************************************)
\* An entry moves by what is paid in or out of it.
Moves(a, d) ==
  /\ slot'[a] \in Entry /\ EntryKept(a)
  /\ Total(slot'[a]) = Total(slot[a]) + d
  /\ funded'[a] = funded[a] + d

\* p's shares and plain tokens move, the plain vault by what they need at
\* least, and the strategy's share counter with the shares; tokens that leave
\* one vault for the other are not made or lost on the way.
Transfers(p, shares, tokens) ==
  /\ slot' \in [Accounts -> Entry] /\ funded' \in [Accounts -> Int]
  /\ vault' \in [Tokens -> Nat]
  /\ Moves(<<p, Wrapper>>, shares) /\ Moves(<<p, Plain>>, tokens)
  /\ \A a \in Accounts \ {<<p, Wrapper>>, <<p, Plain>>} :
       slot'[a] = slot[a] /\ funded'[a] = funded[a]
  /\ \A t \in Tokens \ {Plain} : vault'[t] = vault[t]
  /\ vault'[Plain] >= vault[Plain] + tokens
  /\ UNCHANGED <<now, laneVars, memberVars, signed>>
  /\ WrapperTypes'
  /\ strategy'.total_user_shares = strategy.total_user_shares + shares
  /\ vault[Plain] + reserve.liquidity <= Supply[Plain] => WithinSupply

LEMMA WrapperAccounts ==
  ASSUME NEW p \in Participants
  PROVE  /\ Plain \in Tokens /\ Wrapper \in Tokens /\ Plain # Wrapper
         /\ <<p, Wrapper>> \in Accounts /\ <<p, Plain>> \in Accounts
         /\ <<p, Wrapper>> # <<p, Plain>>
BY YieldAssumption DEF Accounts

LEMMA StillMoves ==
  ASSUME TypeOK, MissingEntriesAreBlank, NEW a \in Accounts,
         slot'[a] = slot[a], funded'[a] = funded[a]
  PROVE  Moves(a, 0)
BY AccountFacts DEF Moves, EntryKept, Blank

\* A step that moves the reserve and the share vault only.
Stands ==
  /\ UNCHANGED vars
  /\ WrapperTypes'
  /\ strategy'.total_user_shares = strategy.total_user_shares
  /\ vault[Plain] + reserve.liquidity <= Supply[Plain] => WithinSupply

LEMMA PlainVault ==
  ASSUME TypeOK
  PROVE  vault[Plain] \in Nat /\ Supply[Plain] \in Nat
BY YieldAssumption, SupplyAssumption DEF TypeOK

-----------------------------------------------------------------------------
(***************************************************************************)
(* Into the wrapper.                                                       *)
(***************************************************************************)
LEMMA MintTypes ==
  ASSUME TypeOK, WrapperTypes, NEW p \in Participants, NEW n \in Amounts, Mint(p, n)
  PROVE  /\ n \in Nat
         /\ WrapperTypes'
         /\ UsdcToShares(FreshStrategy, n) \in Nat
         /\ strategy'.total_user_shares
              = strategy.total_user_shares + UsdcToShares(FreshStrategy, n)
         /\ reserve'.liquidity = reserve.liquidity + n
<1>1. n \in Nat
  BY AmountsAssumption
<1>2. /\ FreshReserve \in ReserveState
      /\ FreshReserve.share_supply = reserve.share_supply
      /\ FreshReserve.liquidity = reserve.liquidity
      /\ FreshStrategy \in Sound
      /\ FreshStrategy.total_user_shares = strategy.total_user_shares
      /\ shareVault \in Nat /\ shareVault <= reserve.share_supply
  BY Fresh
<1>3. /\ reserve' = LiquidityDeposited(FreshReserve, n)
      /\ shareVault' = shareVault + SharesFor(FreshReserve, n)
      /\ strategy' = SharesMinted(FreshStrategy, n)
  BY DEF Mint
<1>4. /\ reserve' \in ReserveState
      /\ reserve'.share_supply = reserve.share_supply + SharesFor(FreshReserve, n)
      /\ reserve'.liquidity = reserve.liquidity + n
  BY <1>1, <1>2, <1>3, LiquidityDepositedType
<1>5. SharesFor(FreshReserve, n) \in Nat
  BY <1>1, <1>2, SharesForType
<1>6. /\ strategy' \in Sound
      /\ strategy'.total_user_shares
           = strategy.total_user_shares + UsdcToShares(FreshStrategy, n)
  BY <1>1, <1>2, <1>3, SharesMintedType
<1>7. shareVault' \in 0 .. reserve'.share_supply
  <2>1. reserve.share_supply \in Nat
    BY ReserveTypes DEF WrapperTypes
  <2>2. ASSUME NEW v \in Nat, NEW supply \in Nat, NEW shares \in Nat, v <= supply
        PROVE  v + shares \in 0 .. supply + shares
    BY <2>2
  <2>. QED BY <1>2, <1>3, <1>4, <1>5, <2>1, <2>2
<1>8. UsdcToShares(FreshStrategy, n) \in Nat
  BY <1>1, <1>2, UserValueTypes
<1>. QED BY <1>1, <1>4, <1>6, <1>7, <1>8 DEF WrapperTypes

LEMMA DepositYieldTransfers ==
  ASSUME TypeOK, WrapperTypes, MissingEntriesAreBlank,
         NEW p \in Participants, NEW n \in Amounts, DepositYieldBearing(p, n)
  PROVE  Transfers(p, UsdcToShares(FreshStrategy, n), 0)
<1>. DEFINE shares == UsdcToShares(FreshStrategy, n)
            own == <<p, Wrapper>>
<1>1. /\ slot' = [slot EXCEPT ![own] = Credit(@, shares)]
      /\ funded' = [funded EXCEPT ![own] = @ + shares]
      /\ UNCHANGED <<now, vault, laneVars, memberVars, signed>>
      /\ Mint(p, n) /\ WithinSupply
  BY DEF DepositYieldBearing
<1>2. /\ WrapperTypes' /\ shares \in Nat
      /\ strategy'.total_user_shares = strategy.total_user_shares + shares
  BY <1>1, MintTypes
<1>3. own \in Accounts /\ <<p, Plain>> \in Accounts /\ own # <<p, Plain>>
  BY WrapperAccounts
<1>. HIDE DEF shares, own
<1>4. /\ slot[own] \in Entry /\ Blank(slot[own]) /\ Total(slot[own]) \in Nat
      /\ funded[own] \in Int
  BY <1>3, AccountFacts
<1>5. /\ Credit(slot[own], shares) \in Entry
      /\ Total(Credit(slot[own], shares)) = Total(slot[own]) + shares
      /\ Credit(slot[own], shares).initialized
  BY <1>2, <1>4, CreditType, CreditTotal
<1>6. /\ slot' \in [Accounts -> Entry] /\ funded' \in [Accounts -> Int]
      /\ slot'[own] = Credit(slot[own], shares) /\ funded'[own] = funded[own] + shares
      /\ \A a \in Accounts \ {own} : slot'[a] = slot[a] /\ funded'[a] = funded[a]
  BY <1>1, <1>2, <1>3, <1>4, <1>5 DEF TypeOK, Entry
<1>7. Moves(own, shares)
  BY <1>5, <1>6 DEF Moves, EntryKept, Blank
<1>8. Moves(<<p, Plain>>, 0)
  BY <1>3, <1>6, StillMoves
<1>9. vault'[Plain] >= vault[Plain] + 0 /\ vault' \in [Tokens -> Nat]
  BY <1>1, PlainVault DEF TypeOK
<1>. QED BY <1>1, <1>2, <1>6, <1>7, <1>8, <1>9 DEF Transfers, own, shares

\* Two entries of one participant change.
LEMMA TwoEntriesMove ==
  ASSUME TypeOK, MissingEntriesAreBlank, NEW p \in Participants,
         NEW e, NEW f, NEW x \in Int, NEW y \in Int,
         e \in Entry, Blank(e), slot[<<p, Wrapper>>].initialized => e.initialized,
         Total(e) = Total(slot[<<p, Wrapper>>]) + x,
         f \in Entry, Blank(f), slot[<<p, Plain>>].initialized => f.initialized,
         Total(f) = Total(slot[<<p, Plain>>]) + y,
         slot' = [slot EXCEPT ![<<p, Wrapper>>] = e, ![<<p, Plain>>] = f],
         funded' \in [Accounts -> Int],
         funded'[<<p, Wrapper>>] = funded[<<p, Wrapper>>] + x,
         funded'[<<p, Plain>>] = funded[<<p, Plain>>] + y
  PROVE  /\ slot' \in [Accounts -> Entry]
         /\ Moves(<<p, Wrapper>>, x) /\ Moves(<<p, Plain>>, y)
         /\ \A a \in Accounts \ {<<p, Wrapper>>, <<p, Plain>>} : slot'[a] = slot[a]
<1>1. /\ <<p, Wrapper>> \in Accounts /\ <<p, Plain>> \in Accounts
      /\ <<p, Wrapper>> # <<p, Plain>>
  BY WrapperAccounts
<1>2. /\ slot' \in [Accounts -> Entry]
      /\ slot'[<<p, Wrapper>>] = e /\ slot'[<<p, Plain>>] = f
      /\ \A a \in Accounts \ {<<p, Wrapper>>, <<p, Plain>>} : slot'[a] = slot[a]
  BY <1>1 DEF TypeOK, Entry
<1>. QED BY <1>2 DEF Moves, EntryKept

LEMMA OptInTransfers ==
  ASSUME TypeOK, WrapperTypes, MissingEntriesAreBlank,
         NEW p \in Participants, NEW n \in Amounts, OptInYield(p, n)
  PROVE  Transfers(p, UsdcToShares(FreshStrategy, n), -n)
<1>. DEFINE shares == UsdcToShares(FreshStrategy, n)
            own == <<p, Wrapper>>
            plain == <<p, Plain>>
<1>1. /\ CanDebitAvailable(slot[plain], n)
      /\ vault[Plain] >= n
      /\ Mint(p, n)
      /\ slot' = [slot EXCEPT ![own] = Credit(@, shares), ![plain] = DebitAvailable(@, n)]
      /\ vault' = [vault EXCEPT ![Plain] = @ - n]
      /\ funded' = [funded EXCEPT ![own] = @ + shares, ![plain] = @ - n]
      /\ UNCHANGED <<now, laneVars, memberVars, signed>>
  BY DEF OptInYield
<1>2. /\ n \in Nat /\ WrapperTypes' /\ shares \in Nat
      /\ strategy'.total_user_shares = strategy.total_user_shares + shares
      /\ reserve'.liquidity = reserve.liquidity + n
  BY <1>1, MintTypes
<1>3. /\ own \in Accounts /\ plain \in Accounts /\ own # plain
      /\ Plain \in Tokens /\ reserve.liquidity \in Nat
  BY WrapperAccounts, ReserveTypes DEF WrapperTypes
<1>. HIDE DEF shares, own, plain
<1>4. /\ slot[own] \in Entry /\ Blank(slot[own]) /\ funded[own] \in Int
      /\ slot[plain] \in Entry /\ Blank(slot[plain]) /\ funded[plain] \in Int
      /\ Total(slot[plain]) \in Nat
  BY <1>3, AccountFacts
<1>5. /\ Credit(slot[own], shares) \in Entry /\ Blank(Credit(slot[own], shares))
      /\ Total(Credit(slot[own], shares)) = Total(slot[own]) + shares
      /\ Credit(slot[own], shares).initialized
  BY <1>2, <1>4, CreditType, CreditTotal DEF Blank
<1>6. /\ DebitAvailable(slot[plain], n) \in Entry /\ Blank(DebitAvailable(slot[plain], n))
      /\ Total(DebitAvailable(slot[plain], n)) = Total(slot[plain]) + (-n)
      /\ DebitAvailable(slot[plain], n).initialized
  <2>1. slot[plain].initialized /\ slot[plain].available_balance >= n
    BY <1>1 DEF CanDebitAvailable
  <2>2. /\ DebitAvailable(slot[plain], n) \in Entry
        /\ Total(DebitAvailable(slot[plain], n)) = Total(slot[plain]) - n
        /\ DebitAvailable(slot[plain], n).initialized
    BY <1>2, <1>4, <2>1, WithdrawalEntryType, DebitTotal
  <2>. QED BY <1>2, <1>4, <2>2 DEF Blank
<1>7. /\ funded' \in [Accounts -> Int]
      /\ funded'[own] = funded[own] + shares /\ funded'[plain] = funded[plain] + (-n)
      /\ \A a \in Accounts \ {own, plain} : funded'[a] = funded[a]
  BY <1>1, <1>2, <1>3, <1>4 DEF TypeOK
<1>8. slot' = [slot EXCEPT ![own] = Credit(slot[own], shares),
                           ![plain] = DebitAvailable(slot[plain], n)]
  BY <1>1, <1>3, Zenon DEF TypeOK
<1>9. /\ slot' \in [Accounts -> Entry]
      /\ Moves(own, shares) /\ Moves(plain, -n)
      /\ \A a \in Accounts \ {own, plain} : slot'[a] = slot[a]
  <2>1. shares \in Int /\ -n \in Int
    BY <1>2
  <2>. QED BY <1>5, <1>6, <1>7, <1>8, <2>1, TwoEntriesMove DEF own, plain
<1>10. /\ vault'[Plain] >= vault[Plain] + (-n) /\ vault' \in [Tokens -> Nat]
       /\ \A t \in Tokens \ {Plain} : vault'[t] = vault[t]
       /\ vault'[Plain] + reserve'.liquidity = vault[Plain] + reserve.liquidity
  <2>1. vault[Plain] \in Nat
    BY PlainVault
  <2>2. vault'[Plain] = vault[Plain] - n
    BY <1>1, <1>3 DEF TypeOK
  <2>3. vault[Plain] - n \in Nat
    BY <1>1, <1>2, <2>1
  <2>. QED BY <1>1, <1>2, <1>3, <2>1, <2>2, <2>3 DEF TypeOK
<1>11. vault[Plain] + reserve.liquidity <= Supply[Plain] => WithinSupply
  BY <1>10 DEF WithinSupply
<1>. QED BY <1>1, <1>2, <1>7, <1>9, <1>10, <1>11 DEF Transfers, own, shares, plain

-----------------------------------------------------------------------------
(***************************************************************************)
(* Out of the wrapper.                                                     *)
(***************************************************************************)
\* What a redemption pays is what the strategy counts on.
LEMMA RedemptionPaysWorth ==
  ASSUME NEW r, NEW n, CanRedeem(r, n), n # 0, r.share_supply # 0
  PROVE  UnderlyingFor(r, n) = CusdcToUsdc(n, r)
BY DEF UnderlyingFor, CusdcToUsdc

\* Redeeming part of the share vault.
LEMMA RedeemedFromVault ==
  ASSUME NEW r \in ReserveState, NEW v \in Nat, v <= r.share_supply,
         NEW n \in Nat, n <= v, CanRedeem(r, n)
  PROVE  /\ Redeemed(r, n) \in ReserveState
         /\ v - n \in 0 .. Redeemed(r, n).share_supply
         /\ Redeemed(r, n).liquidity = r.liquidity - UnderlyingFor(r, n)
         /\ UnderlyingFor(r, n) \in Nat
         /\ UnderlyingFor(r, n) = CusdcToUsdc(n, r)
<1>1. r.share_supply \in Nat /\ n # 0 /\ r.share_supply # 0
  BY ReserveTypes DEF CanRedeem
<1>2. /\ Redeemed(r, n) \in ReserveState
      /\ Redeemed(r, n).share_supply = r.share_supply - n
      /\ Redeemed(r, n).liquidity = r.liquidity - UnderlyingFor(r, n)
      /\ UnderlyingFor(r, n) \in Nat
  BY RedeemedType
<1>3. ASSUME NEW supply \in Nat, v <= supply
      PROVE  v - n \in 0 .. supply - n
  BY <1>3
<1>4. v - n \in 0 .. Redeemed(r, n).share_supply
  BY <1>1, <1>2, <1>3
<1>. QED BY <1>1, <1>2, <1>4, RedemptionPaysWorth

LEMMA OptOutTransfers ==
  ASSUME TypeOK, WrapperTypes, MissingEntriesAreBlank,
         NEW p \in Participants, NEW n \in Amounts, OptOutYield(p, n)
  PROVE  \E received \in Nat : Transfers(p, -n, received)
<1>. DEFINE owed == SharesToUsdc(FreshStrategy, n)
            cusdc == UsdcToCusdc(owed, FreshReserve)
            received == CusdcToUsdc(cusdc, FreshReserve)
            paid == UnderlyingFor(FreshReserve, cusdc)
            own == <<p, Wrapper>>
            plain == <<p, Plain>>
<1>1. /\ CanDebitAvailable(slot[own], n)
      /\ CanUsdcToCusdc(owed, FreshReserve)
      /\ cusdc <= shareVault
      /\ CanRedeem(FreshReserve, cusdc)
      /\ n <= strategy.total_user_shares
      /\ reserve' = Redeemed(FreshReserve, cusdc)
      /\ shareVault' = shareVault - cusdc
      /\ strategy' = SharesBurned(FreshStrategy, n, received)
      /\ slot' = [slot EXCEPT ![own] = DebitAvailable(@, n), ![plain] = Credit(@, received)]
      /\ vault' = [vault EXCEPT ![Plain] = @ + paid]
      /\ funded' = [funded EXCEPT ![own] = @ - n, ![plain] = @ + received]
      /\ UNCHANGED <<now, laneVars, memberVars, signed>>
  BY DEF OptOutYield
<1>2. /\ n \in Nat
      /\ own \in Accounts /\ plain \in Accounts /\ own # plain
      /\ Plain \in Tokens /\ reserve.liquidity \in Nat
  BY AmountsAssumption, WrapperAccounts, ReserveTypes DEF WrapperTypes
<1>3. /\ FreshReserve \in ReserveState
      /\ FreshReserve.share_supply = reserve.share_supply
      /\ FreshReserve.liquidity = reserve.liquidity
      /\ FreshStrategy \in Sound
      /\ FreshStrategy.total_user_shares = strategy.total_user_shares
      /\ shareVault \in Nat /\ shareVault <= FreshReserve.share_supply
  BY Fresh
<1>4. owed \in Nat
  BY <1>2, <1>3, UserValueTypes
<1>. HIDE DEF owed, own, plain
<1>5. cusdc \in Nat
  BY <1>1, <1>3, <1>4, ConversionTypes
<1>. HIDE DEF cusdc
<1>6. received \in Nat
  BY <1>3, <1>5, ConversionTypes
<1>7. /\ reserve' \in ReserveState
      /\ shareVault' \in 0 .. reserve'.share_supply
      /\ reserve'.liquidity = reserve.liquidity - paid
      /\ paid \in Nat /\ paid = received
  BY <1>1, <1>3, <1>5, RedeemedFromVault
<1>. HIDE DEF received, paid
<1>8. /\ strategy' \in Sound
      /\ strategy'.total_user_shares = strategy.total_user_shares - n
      /\ strategy.total_user_shares \in Nat
  BY <1>1, <1>2, <1>3, <1>6, SharesBurnedType, StrategyTypes
<1>9. /\ slot[own] \in Entry /\ Blank(slot[own]) /\ funded[own] \in Int
      /\ slot[plain] \in Entry /\ Blank(slot[plain]) /\ funded[plain] \in Int
      /\ Total(slot[own]) \in Nat
  BY <1>2, AccountFacts
<1>10. /\ Credit(slot[plain], received) \in Entry /\ Blank(Credit(slot[plain], received))
       /\ Total(Credit(slot[plain], received)) = Total(slot[plain]) + received
       /\ Credit(slot[plain], received).initialized
  BY <1>6, <1>9, CreditType, CreditTotal DEF Blank
<1>11. /\ DebitAvailable(slot[own], n) \in Entry /\ Blank(DebitAvailable(slot[own], n))
       /\ Total(DebitAvailable(slot[own], n)) = Total(slot[own]) + (-n)
       /\ DebitAvailable(slot[own], n).initialized
  <2>1. slot[own].initialized /\ slot[own].available_balance >= n
    BY <1>1 DEF CanDebitAvailable
  <2>2. /\ DebitAvailable(slot[own], n) \in Entry
        /\ Total(DebitAvailable(slot[own], n)) = Total(slot[own]) - n
        /\ DebitAvailable(slot[own], n).initialized
    BY <1>2, <1>9, <2>1, WithdrawalEntryType, DebitTotal
  <2>. QED BY <1>2, <1>9, <2>2 DEF Blank
<1>12. /\ funded' \in [Accounts -> Int]
       /\ funded'[own] = funded[own] + (-n) /\ funded'[plain] = funded[plain] + received
       /\ \A a \in Accounts \ {own, plain} : funded'[a] = funded[a]
  BY <1>1, <1>2, <1>6, <1>9 DEF TypeOK
<1>13. slot' = [slot EXCEPT ![own] = DebitAvailable(slot[own], n),
                            ![plain] = Credit(slot[plain], received)]
  BY <1>1, <1>2, Zenon DEF TypeOK
<1>14. /\ slot' \in [Accounts -> Entry]
       /\ Moves(own, -n) /\ Moves(plain, received)
       /\ \A a \in Accounts \ {own, plain} : slot'[a] = slot[a]
  <2>1. received \in Int /\ -n \in Int
    BY <1>2, <1>6
  <2>. QED BY <1>10, <1>11, <1>12, <1>13, <2>1, TwoEntriesMove DEF own, plain
<1>15. /\ vault'[Plain] >= vault[Plain] + received /\ vault' \in [Tokens -> Nat]
       /\ \A t \in Tokens \ {Plain} : vault'[t] = vault[t]
       /\ vault'[Plain] + reserve'.liquidity = vault[Plain] + reserve.liquidity
  <2>1. vault[Plain] \in Nat
    BY PlainVault
  <2>2. vault'[Plain] = vault[Plain] + paid
    BY <1>1, <1>2 DEF TypeOK
  <2>3. vault[Plain] + paid \in Nat
    BY <1>7, <2>1
  <2>. QED BY <1>1, <1>2, <1>7, <2>1, <2>2, <2>3 DEF TypeOK
<1>16. vault[Plain] + reserve.liquidity <= Supply[Plain] => WithinSupply
  BY <1>15 DEF WithinSupply
<1>17. strategy'.total_user_shares = strategy.total_user_shares + (-n)
  BY <1>2, <1>8
<1>18. Transfers(p, -n, received)
  BY <1>1, <1>7, <1>8, <1>12, <1>14, <1>15, <1>16, <1>17
  DEF Transfers, WrapperTypes, own, plain
<1>. QED BY <1>6, <1>18

\* One entry of the wrapper changes; no plain token moves between entries.
LEMMA WrapperEntryMoves ==
  ASSUME TypeOK, MissingEntriesAreBlank, NEW p \in Participants, NEW e, NEW x \in Int,
         e \in Entry, Blank(e), slot[<<p, Wrapper>>].initialized => e.initialized,
         Total(e) = Total(slot[<<p, Wrapper>>]) + x,
         slot' = [slot EXCEPT ![<<p, Wrapper>>] = e],
         funded'[<<p, Wrapper>>] = funded[<<p, Wrapper>>] + x,
         \A a \in Accounts \ {<<p, Wrapper>>} : funded'[a] = funded[a]
  PROVE  /\ slot' \in [Accounts -> Entry]
         /\ Moves(<<p, Wrapper>>, x) /\ Moves(<<p, Plain>>, 0)
         /\ \A a \in Accounts \ {<<p, Wrapper>>, <<p, Plain>>} :
              slot'[a] = slot[a] /\ funded'[a] = funded[a]
<1>. DEFINE own == <<p, Wrapper>>
            plain == <<p, Plain>>
<1>1. own \in Accounts /\ plain \in Accounts /\ own # plain
  BY WrapperAccounts
<1>. HIDE DEF own, plain
<1>2. funded[own] \in Int
  BY <1>1 DEF TypeOK
<1>3. /\ slot' \in [Accounts -> Entry] /\ slot'[own] = e
      /\ \A a \in Accounts \ {own} : slot'[a] = slot[a]
  BY <1>1 DEF TypeOK, Entry, own
<1>4. /\ funded'[own] = funded[own] + x
      /\ \A a \in Accounts \ {own} : funded'[a] = funded[a]
  BY DEF own
<1>5. Moves(own, x)
  BY <1>3, <1>4 DEF Moves, EntryKept, own
<1>6. Moves(plain, 0)
  BY <1>1, <1>3, <1>4, StillMoves
<1>. QED BY <1>3, <1>4, <1>5, <1>6 DEF own, plain

LEMMA RequestTransfers ==
  ASSUME TypeOK, WrapperTypes, MissingEntriesAreBlank, NEW p \in Participants,
         NEW n \in Amounts, NEW d \in Destinations, RequestWithdrawalYieldBearing(p, n, d)
  PROVE  Transfers(p, 0, 0)
<1>. DEFINE own == <<p, Wrapper>>
            at == now + WithdrawalTimelock
            e == InitiateWithdrawal(slot[own], n, d, at)
<1>1. /\ CanInitiateWithdrawal(slot[own], n)
      /\ slot' = [slot EXCEPT ![own] = e]
      /\ UNCHANGED <<now, vault, funded, laneVars, memberVars, signed, yieldVars>>
  BY DEF RequestWithdrawalYieldBearing
<1>2. n \in Nat /\ at \in Nat /\ own \in Accounts
  <2>1. n \in Nat /\ own \in Accounts
    BY AmountsAssumption, WrapperAccounts
  <2>2. now \in Nat /\ WithdrawalTimelock \in Nat
    BY ConfigAssumption DEF TypeOK
  <2>. QED BY <2>1, <2>2
<1>. HIDE DEF own, at
<1>3. /\ slot[own] \in Entry /\ Blank(slot[own]) /\ Total(slot[own]) \in Nat
      /\ funded[own] \in Int
  BY <1>2, AccountFacts
<1>4. slot[own].initialized /\ slot[own].available_balance >= n
  BY <1>1 DEF CanInitiateWithdrawal
<1>5. e \in Entry /\ Total(e) = Total(slot[own]) /\ e.initialized
  BY <1>2, <1>3, <1>4, WithdrawalEntryType, InitiateTotal
<1>. HIDE DEF e
<1>6. Blank(e) /\ Total(e) = Total(slot[own]) + 0
  BY <1>3, <1>5 DEF Blank
<1>7. /\ funded' \in [Accounts -> Int]
      /\ funded'[own] = funded[own] + 0
      /\ \A a \in Accounts \ {own} : funded'[a] = funded[a]
  BY <1>1, <1>2, <1>3 DEF TypeOK
<1>8. /\ slot' \in [Accounts -> Entry]
      /\ Moves(own, 0) /\ Moves(<<p, Plain>>, 0)
      /\ \A a \in Accounts \ {own, <<p, Plain>>} : slot'[a] = slot[a] /\ funded'[a] = funded[a]
  <2>1. 0 \in Int /\ (slot[own].initialized => e.initialized)
    BY <1>5
  <2>2. slot' = [slot EXCEPT ![own] = e]
    BY <1>1
  <2>. QED BY <1>5, <1>6, <1>7, <2>1, <2>2, WrapperEntryMoves DEF own
<1>9. vault'[Plain] >= vault[Plain] + 0 /\ vault' \in [Tokens -> Nat]
  BY <1>1, PlainVault DEF TypeOK
<1>10. /\ WrapperTypes' /\ strategy' = strategy /\ reserve' = reserve /\ vault' = vault
       /\ strategy.total_user_shares \in Nat
  BY <1>1, StrategyTypes DEF WrapperTypes, yieldVars
<1>11. /\ strategy'.total_user_shares = strategy.total_user_shares + 0
       /\ vault[Plain] + reserve.liquidity <= Supply[Plain] => WithinSupply
  BY <1>10 DEF WithinSupply
<1>. QED BY <1>1, <1>7, <1>8, <1>9, <1>10, <1>11 DEF Transfers, own

\* execute_withdrawal_timelocked_yield_bearing of a drained withdrawal.
LEMMA DrainedTransfers ==
  ASSUME TypeOK, WrapperTypes, MissingEntriesAreBlank, NEW p \in Participants,
         slot[<<p, Wrapper>>].initialized, ClearDrainedWithdrawal(p)
  PROVE  Transfers(p, 0, 0)
<1>. DEFINE own == <<p, Wrapper>>
            e == ClearWithdrawal(slot[own])
<1>1. /\ slot[own].withdrawing_balance = 0
      /\ slot' = [slot EXCEPT ![own] = e]
      /\ reserve' = FreshReserve /\ strategy' = FreshStrategy
      /\ UNCHANGED <<now, vault, funded, shareVault, laneVars, memberVars, signed>>
  BY DEF ClearDrainedWithdrawal
<1>2. own \in Accounts
  BY WrapperAccounts
<1>3. /\ slot[own] \in Entry /\ Blank(slot[own]) /\ Total(slot[own]) \in Nat
      /\ funded[own] \in Int
  BY <1>2, AccountFacts
<1>4. e \in Entry /\ Total(e) = Total(slot[own]) - 0 /\ e.initialized
  <2>1. slot[own].available_balance >= 0
    BY <1>3, EntryTypes
  <2>. QED BY <1>1, <1>3, <2>1, WithdrawalEntryType, WithdrawalTotals
<1>. HIDE DEF own, e
<1>5. Blank(e) /\ Total(e) = Total(slot[own]) + 0
  BY <1>3, <1>4 DEF Blank
<1>6. /\ funded' \in [Accounts -> Int]
      /\ funded'[own] = funded[own] + 0
      /\ \A a \in Accounts \ {own} : funded'[a] = funded[a]
  BY <1>1, <1>2, <1>3 DEF TypeOK
<1>7. /\ slot' \in [Accounts -> Entry]
      /\ Moves(own, 0) /\ Moves(<<p, Plain>>, 0)
      /\ \A a \in Accounts \ {own, <<p, Plain>>} : slot'[a] = slot[a] /\ funded'[a] = funded[a]
  <2>1. 0 \in Int /\ (slot[own].initialized => e.initialized)
    BY <1>4
  <2>2. slot' = [slot EXCEPT ![own] = e]
    BY <1>1
  <2>. QED BY <1>4, <1>5, <1>6, <2>1, <2>2, WrapperEntryMoves DEF own
<1>8. vault'[Plain] >= vault[Plain] + 0 /\ vault' \in [Tokens -> Nat]
  BY <1>1, PlainVault DEF TypeOK
<1>9. /\ strategy' \in Sound /\ reserve' \in ReserveState
      /\ strategy'.total_user_shares = strategy.total_user_shares
      /\ strategy.total_user_shares \in Nat
      /\ reserve'.share_supply = reserve.share_supply
      /\ reserve'.liquidity = reserve.liquidity /\ vault' = vault
      /\ shareVault' \in 0 .. reserve'.share_supply
  BY <1>1, Fresh, StrategyTypes DEF WrapperTypes
<1>10. /\ strategy'.total_user_shares = strategy.total_user_shares + 0
       /\ vault[Plain] + reserve.liquidity <= Supply[Plain] => WithinSupply
  BY <1>9 DEF WithinSupply
<1>. QED BY <1>1, <1>6, <1>7, <1>8, <1>9, <1>10 DEF Transfers, WrapperTypes, own

LEMMA RedeemedPart ==
  ASSUME NEW r \in ReserveState, NEW v \in Nat, v <= r.share_supply,
         NEW n \in Nat, n <= v, CanRedeemPart(r, n)
  PROVE  /\ RedeemPart(r, n) \in ReserveState
         /\ v - n \in Nat /\ v - n <= RedeemPart(r, n).share_supply
         /\ RedeemPart(r, n).liquidity <= r.liquidity
<1>1. CASE n = 0
  BY <1>1, ReserveTypes DEF RedeemPart
<1>2. CASE n > 0
  <2>1. CanRedeem(r, n) /\ RedeemPart(r, n) = Redeemed(r, n)
    BY <1>2 DEF CanRedeemPart, RedeemPart
  <2>2. /\ Redeemed(r, n) \in ReserveState
        /\ v - n \in 0 .. Redeemed(r, n).share_supply
        /\ Redeemed(r, n).liquidity = r.liquidity - UnderlyingFor(r, n)
        /\ UnderlyingFor(r, n) \in Nat
    BY <2>1, RedeemedFromVault
  <2>3. v - n \in Nat /\ v - n <= Redeemed(r, n).share_supply
    BY <2>2, ReserveTypes
  <2>4. Redeemed(r, n).liquidity <= r.liquidity
    BY <2>2, ReserveTypes
  <2>. QED BY <2>1, <2>2, <2>3, <2>4
<1>. QED BY <1>1, <1>2

\* The fee is a part of what is cashed.
LEMMA FeeIsPart ==
  ASSUME NEW gross \in Nat, ScaledMinFee(Wrapper) \in 0 .. MaxU64
  PROVE  WithdrawalFee(Wrapper, gross) \in Nat /\ gross - WithdrawalFee(Wrapper, gross) \in Nat
<1>1. WithdrawalFee(Wrapper, gross) \in Nat
  BY YieldAssumption, FeeType
<1>2. \E n : WithdrawalFee(Wrapper, gross) = Lesser(n, gross)
  BY DEF WithdrawalFee
<1>3. WithdrawalFee(Wrapper, gross) <= gross
  BY <1>1, <1>2 DEF Lesser
<1>. QED BY <1>1, <1>3

\* execute_withdrawal_timelocked_yield_bearing of shares.
LEMMA CashTransfers ==
  ASSUME TypeOK, WrapperTypes, MissingEntriesAreBlank, NEW p \in Participants,
         slot[<<p, Wrapper>>].initialized, CashWithdrawal(p)
  PROVE  \E shares \in Nat : Transfers(p, -shares, 0)
<1>. DEFINE own == <<p, Wrapper>>
            shares == slot[own].withdrawing_balance
            gross == SharesToUsdc(FreshStrategy, shares)
            fee == WithdrawalFee(Wrapper, gross)
            cusdcNet == UsdcToCusdc(gross - fee, FreshReserve)
            cusdcFee == UsdcToCusdc(fee, FreshReserve)
            netPaid == RedeemPart(FreshReserve, cusdcNet)
            paid == FreshReserve.liquidity - netPaid.liquidity
            e == ClearWithdrawal(slot[own])
<1>1. /\ ScaledMinFee(Wrapper) \in 0 .. MaxU64
      /\ CanUsdcToCusdc(gross - fee, FreshReserve)
      /\ CanUsdcToCusdc(fee, FreshReserve)
      /\ cusdcNet + cusdcFee <= shareVault
      /\ CanRedeemPart(FreshReserve, cusdcNet)
      /\ CanRedeemPart(netPaid, cusdcFee)
      /\ shares <= strategy.total_user_shares
      /\ reserve' = RedeemPart(netPaid, cusdcFee)
      /\ shareVault' = shareVault - cusdcNet - cusdcFee
      /\ strategy' = SharesBurned(FreshStrategy, shares, gross)
      /\ slot' = [slot EXCEPT ![own] = e]
      /\ vault' = IF slot[own].withdrawal_destination = VaultAccount
                  THEN [vault EXCEPT ![Plain] = @ + paid]
                  ELSE vault
      /\ funded' = [funded EXCEPT ![own] = @ - shares]
      /\ UNCHANGED <<now, laneVars, memberVars, signed>>
  BY DEF CashWithdrawal
<1>2. own \in Accounts /\ Plain \in Tokens
  BY WrapperAccounts
<1>3. /\ slot[own] \in Entry /\ Blank(slot[own]) /\ Total(slot[own]) \in Nat
      /\ slot[own].available_balance \in Nat
      /\ funded[own] \in Int /\ shares \in Nat
  BY <1>2, AccountFacts, EntryTypes
<1>4. /\ e \in Entry /\ Total(e) = Total(slot[own]) - shares /\ e.initialized
  <2>1. slot[own].available_balance >= 0
    BY <1>3
  <2>. QED BY <1>3, <2>1, WithdrawalEntryType, WithdrawalTotals
<1>5. /\ FreshReserve \in ReserveState
      /\ FreshReserve.share_supply = reserve.share_supply
      /\ FreshReserve.liquidity = reserve.liquidity
      /\ FreshStrategy \in Sound
      /\ FreshStrategy.total_user_shares = strategy.total_user_shares
      /\ shareVault \in Nat /\ shareVault <= FreshReserve.share_supply
      /\ reserve.liquidity \in Nat
  BY Fresh, ReserveTypes DEF WrapperTypes
<1>. HIDE DEF own, shares, e
<1>6. gross \in Nat
  BY <1>3, <1>5, UserValueTypes
<1>. HIDE DEF gross
<1>7. fee \in Nat /\ gross - fee \in Nat
  BY <1>1, <1>6, FeeIsPart
<1>. HIDE DEF fee
<1>8. cusdcNet \in Nat /\ cusdcFee \in Nat
  BY <1>1, <1>5, <1>7, ConversionTypes
<1>. HIDE DEF cusdcNet, cusdcFee
<1>9. cusdcNet <= shareVault /\ cusdcFee <= shareVault - cusdcNet
  BY <1>1, <1>5, <1>8
<1>10. /\ netPaid \in ReserveState
       /\ shareVault - cusdcNet \in Nat /\ shareVault - cusdcNet <= netPaid.share_supply
       /\ netPaid.liquidity <= FreshReserve.liquidity
  BY <1>1, <1>5, <1>8, <1>9, RedeemedPart
<1>11. netPaid.liquidity \in Nat
  BY <1>10, ReserveTypes
<1>12. paid \in Nat /\ netPaid.liquidity = reserve.liquidity - paid
  BY <1>5, <1>10, <1>11
<1>. HIDE DEF netPaid, paid
<1>13. /\ reserve' \in ReserveState
       /\ shareVault' \in Nat /\ shareVault' <= reserve'.share_supply
       /\ reserve'.liquidity <= netPaid.liquidity
  <2>1. ASSUME NEW v \in Nat, v = shareVault - cusdcNet
        PROVE  /\ RedeemPart(netPaid, cusdcFee) \in ReserveState
               /\ v - cusdcFee \in Nat
               /\ v - cusdcFee <= RedeemPart(netPaid, cusdcFee).share_supply
               /\ RedeemPart(netPaid, cusdcFee).liquidity <= netPaid.liquidity
    <3>1. v <= netPaid.share_supply /\ cusdcFee <= v
      BY <1>9, <1>10, <2>1
    <3>. QED BY <1>1, <1>8, <1>10, <3>1, RedeemedPart
  <2>. QED BY <1>1, <1>10, <2>1
<1>14. shareVault' \in 0 .. reserve'.share_supply /\ reserve'.liquidity \in Nat
  BY <1>13, ReserveTypes
<1>15. /\ strategy' \in Sound
       /\ strategy'.total_user_shares = strategy.total_user_shares + (-shares)
  <2>1. /\ strategy' \in Sound
        /\ strategy'.total_user_shares = strategy.total_user_shares - shares
        /\ strategy.total_user_shares \in Nat
    BY <1>1, <1>3, <1>5, <1>6, SharesBurnedType, StrategyTypes
  <2>. QED BY <1>3, <2>1
<1>16. /\ funded' \in [Accounts -> Int]
       /\ funded'[own] = funded[own] + (-shares)
       /\ \A a \in Accounts \ {own} : funded'[a] = funded[a]
  BY <1>1, <1>2, <1>3 DEF TypeOK
<1>17. /\ slot' \in [Accounts -> Entry]
       /\ Moves(own, -shares) /\ Moves(<<p, Plain>>, 0)
       /\ \A a \in Accounts \ {own, <<p, Plain>>} : slot'[a] = slot[a] /\ funded'[a] = funded[a]
  <2>1. -shares \in Int /\ Blank(e) /\ Total(e) = Total(slot[own]) + (-shares)
    BY <1>3, <1>4 DEF Blank
  <2>2. slot[own].initialized => e.initialized
    BY <1>4
  <2>3. slot' = [slot EXCEPT ![own] = e]
    BY <1>1
  <2>. QED BY <1>4, <1>16, <2>1, <2>2, <2>3, WrapperEntryMoves DEF own
<1>18. /\ vault' \in [Tokens -> Nat]
       /\ \A t \in Tokens \ {Plain} : vault'[t] = vault[t]
       /\ vault'[Plain] >= vault[Plain] + 0 /\ vault'[Plain] <= vault[Plain] + paid
  <2>1. vault[Plain] \in Nat
    BY PlainVault
  <2>2. CASE vault' = vault
    BY <1>12, <2>1, <2>2 DEF TypeOK
  <2>3. CASE vault' = [vault EXCEPT ![Plain] = @ + paid]
    <3>1. vault'[Plain] = vault[Plain] + paid /\ vault[Plain] + paid \in Nat
      BY <1>2, <1>12, <2>1, <2>3 DEF TypeOK
    <3>2. /\ vault' \in [Tokens -> Nat]
          /\ \A t \in Tokens \ {Plain} : vault'[t] = vault[t]
      BY <1>2, <2>3, <3>1 DEF TypeOK
    <3>3. ASSUME NEW v \in Nat, v = vault[Plain]
          PROVE  v + paid >= v + 0 /\ v + paid <= v + paid
      BY <1>12
    <3>. QED BY <2>1, <3>1, <3>2, <3>3
  <2>. QED BY <1>1, <2>2, <2>3
<1>19. vault[Plain] + reserve.liquidity <= Supply[Plain] => WithinSupply
  <2>1. vault[Plain] \in Nat /\ vault'[Plain] \in Nat /\ Supply[Plain] \in Nat
    BY <1>2, <1>18, PlainVault
  <2>. QED BY <1>5, <1>11, <1>12, <1>13, <1>14, <1>18, <2>1 DEF WithinSupply
<1>20. Transfers(p, -shares, 0)
  BY <1>1, <1>13, <1>14, <1>15, <1>16, <1>17, <1>18, <1>19 DEF Transfers, WrapperTypes, own
<1>. QED BY <1>3, <1>20

-----------------------------------------------------------------------------
(***************************************************************************)
(* Steps that move the reserve and the share vault only.                   *)
(***************************************************************************)
LEMMA LessLiquidity ==
  ASSUME TypeOK, WrapperTypes, vault' = vault, reserve'.liquidity \in Nat,
         reserve'.liquidity <= reserve.liquidity
  PROVE  vault[Plain] + reserve.liquidity <= Supply[Plain] => WithinSupply
BY PlainVault, ReserveTypes DEF WithinSupply, WrapperTypes

LEMMA AccruesStand ==
  ASSUME TypeOK, WrapperTypes, UNCHANGED <<vars, shareVault>>,
         reserve' = FreshReserve, strategy' \in {strategy, FreshStrategy}
  PROVE  Stands
<1>1. /\ reserve' \in ReserveState /\ strategy' \in Sound
      /\ reserve'.share_supply = reserve.share_supply
      /\ reserve'.liquidity = reserve.liquidity
      /\ strategy'.total_user_shares = strategy.total_user_shares
  BY Fresh DEF WrapperTypes
<1>2. shareVault' \in 0 .. reserve'.share_supply
  BY <1>1 DEF WrapperTypes
<1>3. reserve'.liquidity \in Nat /\ reserve'.liquidity <= reserve.liquidity
  BY <1>1, ReserveTypes
<1>4. vault' = vault
  BY DEF vars, balanceVars
<1>. QED BY <1>1, <1>2, <1>3, <1>4, LessLiquidity DEF Stands, WrapperTypes

LEMMA ClaimStands ==
  ASSUME TypeOK, WrapperTypes, NEW n \in Amounts, ClaimProtocolYieldFee(n)
  PROVE  Stands
<1>. DEFINE cusdc == UsdcToCusdc(n, FreshReserve)
            burned == SharesBurned(FreshStrategy, 0, n)
            owed == burned.protocol_owed_underlying - n
<1>1. /\ n <= FreshStrategy.protocol_owed_underlying
      /\ CanUsdcToCusdc(n, FreshReserve)
      /\ cusdc <= shareVault
      /\ CanRedeem(FreshReserve, cusdc)
      /\ reserve' = Redeemed(FreshReserve, cusdc)
      /\ shareVault' = shareVault - cusdc
      /\ strategy' = [burned EXCEPT !.protocol_owed_underlying = owed]
      /\ UNCHANGED vars
  BY Zenon DEF ClaimProtocolYieldFee
<1>2. n \in Nat
  BY AmountsAssumption
<1>3. /\ FreshReserve \in ReserveState
      /\ FreshReserve.share_supply = reserve.share_supply
      /\ FreshReserve.liquidity = reserve.liquidity
      /\ FreshStrategy \in Sound
      /\ FreshStrategy.total_user_shares = strategy.total_user_shares
      /\ shareVault \in Nat /\ shareVault <= FreshReserve.share_supply
      /\ reserve.liquidity \in Nat
  BY Fresh, ReserveTypes DEF WrapperTypes
<1>4. cusdc \in Nat
  BY <1>1, <1>2, <1>3, ConversionTypes
<1>. HIDE DEF cusdc
<1>5. /\ reserve' \in ReserveState
      /\ shareVault' \in 0 .. reserve'.share_supply
      /\ reserve'.liquidity = reserve.liquidity - UnderlyingFor(FreshReserve, cusdc)
      /\ UnderlyingFor(FreshReserve, cusdc) \in Nat
  BY <1>1, <1>3, <1>4, RedeemedFromVault
<1>6. /\ burned \in Sound
      /\ burned.total_user_shares = strategy.total_user_shares
      /\ burned.protocol_owed_underlying = FreshStrategy.protocol_owed_underlying
  <2>1. 0 \in Nat /\ 0 <= FreshStrategy.total_user_shares
    BY <1>3, StrategyTypes
  <2>2. /\ burned \in Sound
        /\ burned.total_user_shares = FreshStrategy.total_user_shares - 0
        /\ burned.protocol_owed_underlying = FreshStrategy.protocol_owed_underlying
    BY <1>2, <1>3, <2>1, SharesBurnedType
  <2>. QED BY <1>3, <2>2, StrategyTypes
<1>7. owed \in Nat
  BY <1>1, <1>2, <1>3, <1>6, StrategyTypes
<1>. HIDE DEF burned, owed
<1>8. burned \in StrategyState /\ burned.user_index >= IndexOne
  BY <1>6, StrategyTypes
<1>9. /\ strategy' \in StrategyState
      /\ strategy'.user_index = burned.user_index
      /\ strategy'.total_user_shares = burned.total_user_shares
  BY <1>1, <1>7, <1>8, Zenon DEF StrategyState
<1>10. strategy' \in Sound
  BY <1>8, <1>9 DEF Sound
<1>11. reserve'.liquidity \in Nat /\ reserve'.liquidity <= reserve.liquidity
  BY <1>3, <1>5, ReserveTypes
<1>12. vault' = vault
  BY <1>1 DEF vars, balanceVars
<1>. QED BY <1>1, <1>5, <1>6, <1>9, <1>10, <1>11, <1>12, LessLiquidity DEF Stands, WrapperTypes

LEMMA UpdatedApyType ==
  ASSUME NEW r \in ReserveState, NEW ts \in Nat, NEW apy \in 0 .. MaxApyBps
  PROVE  LET m == UpdatedApy(r, apy, ts)
         IN  /\ m \in ReserveState
             /\ m.share_supply = r.share_supply
             /\ m.liquidity = r.liquidity
             /\ m.total_underlying = Accrued(r, ts).total_underlying
             /\ m.last_accrual_ts = Accrued(r, ts).last_accrual_ts
<1>. DEFINE fresh == Accrued(r, ts)
            m == UpdatedApy(r, apy, ts)
<1>1. fresh \in ReserveState /\ fresh.share_supply = r.share_supply /\ fresh.liquidity = r.liquidity
  BY AccruedType
<1>2. m = [fresh EXCEPT !.apy_bps = apy]
  BY Zenon DEF UpdatedApy
<1>. HIDE DEF fresh, m
<1>3. /\ m \in ReserveState
      /\ m.share_supply = fresh.share_supply
      /\ m.liquidity = fresh.liquidity
      /\ m.total_underlying = fresh.total_underlying
      /\ m.last_accrual_ts = fresh.last_accrual_ts
  BY <1>1, <1>2, Zenon DEF ReserveState
<1>. QED BY <1>1, <1>3 DEF fresh, m

LEMMA ReserveStands ==
  ASSUME TypeOK, WrapperTypes, ReserveNext
  PROVE  Stands
<1>0. /\ FreshReserve \in ReserveState
      /\ FreshReserve.share_supply = reserve.share_supply
      /\ FreshReserve.liquidity = reserve.liquidity
      /\ shareVault \in Nat /\ shareVault <= FreshReserve.share_supply
      /\ reserve.liquidity \in Nat /\ reserve.share_supply \in Nat
      /\ reserve \in ReserveState /\ strategy \in Sound
  BY Fresh, ReserveTypes DEF WrapperTypes
<1>1. CASE AccrueReserve
  BY <1>1, AccruesStand DEF AccrueReserve
<1>2. ASSUME NEW apy \in Apys, UpdateApyBps(apy) PROVE Stands
  <2>1. apy \in 0 .. MaxApyBps /\ now \in Nat
    BY YieldAssumption DEF TypeOK
  <2>2. /\ reserve' = UpdatedApy(reserve, apy, now)
        /\ UNCHANGED <<vars, strategy, shareVault>>
    BY <1>2 DEF UpdateApyBps
  <2>3. /\ reserve' \in ReserveState
        /\ reserve'.share_supply = reserve.share_supply
        /\ reserve'.liquidity = reserve.liquidity
    BY <1>0, <2>1, <2>2, UpdatedApyType
  <2>4. shareVault' \in 0 .. reserve'.share_supply
    BY <2>2, <2>3 DEF WrapperTypes
  <2>5. reserve'.liquidity \in Nat /\ reserve'.liquidity <= reserve.liquidity
    BY <1>0, <2>3
  <2>6. vault' = vault
    BY <2>2 DEF vars, balanceVars
  <2>. QED BY <1>0, <2>2, <2>3, <2>4, <2>5, <2>6, LessLiquidity DEF Stands, WrapperTypes
<1>3. ASSUME NEW n \in Amounts, DepositReserveLiquidity(n) PROVE Stands
  <2>1. n \in Nat
    BY AmountsAssumption
  <2>2. /\ reserve' = LiquidityDeposited(FreshReserve, n)
        /\ UNCHANGED <<vars, strategy, shareVault>>
        /\ WithinSupply
    BY <1>3 DEF DepositReserveLiquidity
  <2>3. /\ reserve' \in ReserveState
        /\ reserve'.share_supply = reserve.share_supply + SharesFor(FreshReserve, n)
        /\ SharesFor(FreshReserve, n) \in Nat
    <3>1. SharesFor(FreshReserve, n) \in Nat
      BY <1>0, <2>1, SharesForType
    <3>2. /\ reserve' \in ReserveState
          /\ reserve'.share_supply = FreshReserve.share_supply + SharesFor(FreshReserve, n)
      BY <1>0, <2>1, <2>2, LiquidityDepositedType
    <3>. QED BY <1>0, <3>1, <3>2
  <2>4. shareVault' \in 0 .. reserve'.share_supply
    <3>1. ASSUME NEW v \in Nat, NEW supply \in Nat, NEW shares \in Nat, v <= supply
          PROVE  v \in 0 .. supply + shares
      BY <3>1
    <3>. QED BY <1>0, <2>2, <2>3, <3>1
  <2>. QED BY <1>0, <2>2, <2>3, <2>4 DEF Stands, WrapperTypes
<1>4. ASSUME NEW n \in Amounts, RedeemReserveCollateral(n) PROVE Stands
  <2>1. n \in Nat
    BY AmountsAssumption
  <2>2. /\ n <= reserve.share_supply - shareVault
        /\ CanRedeem(FreshReserve, n)
        /\ reserve' = Redeemed(FreshReserve, n)
        /\ UNCHANGED <<vars, strategy, shareVault>>
    BY <1>4 DEF RedeemReserveCollateral
  <2>3. /\ reserve' \in ReserveState
        /\ reserve'.share_supply = reserve.share_supply - n
        /\ reserve'.liquidity = reserve.liquidity - UnderlyingFor(FreshReserve, n)
        /\ UnderlyingFor(FreshReserve, n) \in Nat
    BY <1>0, <2>1, <2>2, RedeemedType
  <2>4. shareVault' \in 0 .. reserve'.share_supply
    BY <1>0, <2>1, <2>2, <2>3
  <2>5. reserve'.liquidity \in Nat /\ reserve'.liquidity <= reserve.liquidity
    BY <1>0, <2>3, ReserveTypes
  <2>6. vault' = vault
    BY <2>2 DEF vars, balanceVars
  <2>. QED BY <1>0, <2>2, <2>3, <2>4, <2>5, <2>6, LessLiquidity DEF Stands, WrapperTypes
<1>. QED BY <1>1, <1>2, <1>3, <1>4 DEF ReserveNext

\* Every instruction on the wrapper, by its effect on the books.
LEMMA WrapperSteps ==
  ASSUME TypeOK, WrapperTypes, MissingEntriesAreBlank, WrapperNext
  PROVE  \/ Stands
         \/ \E p \in Participants, shares \in Int, tokens \in Int : Transfers(p, shares, tokens)
<1>1. CASE AccrueYield
  BY <1>1, AccruesStand DEF AccrueYield
<1>2. ASSUME NEW p \in Participants, NEW n \in Amounts, DepositYieldBearing(p, n)
      PROVE  \E shares \in Int, tokens \in Int : Transfers(p, shares, tokens)
  <2>1. UsdcToShares(FreshStrategy, n) \in Int /\ 0 \in Int
    BY <1>2, MintTypes DEF DepositYieldBearing
  <2>. QED BY <1>2, <2>1, DepositYieldTransfers
<1>3. ASSUME NEW p \in Participants, NEW n \in Amounts, OptInYield(p, n)
      PROVE  \E shares \in Int, tokens \in Int : Transfers(p, shares, tokens)
  <2>1. UsdcToShares(FreshStrategy, n) \in Int /\ -n \in Int
    BY <1>3, MintTypes DEF OptInYield
  <2>. QED BY <1>3, <2>1, OptInTransfers
<1>4. ASSUME NEW p \in Participants, NEW n \in Amounts, OptOutYield(p, n)
      PROVE  \E shares \in Int, tokens \in Int : Transfers(p, shares, tokens)
  <2>1. -n \in Int
    BY AmountsAssumption
  <2>2. \E received \in Int : Transfers(p, -n, received)
    BY <1>4, OptOutTransfers
  <2>. QED BY <2>1, <2>2
<1>5. ASSUME NEW p \in Participants, NEW n \in Amounts, NEW d \in Destinations,
             RequestWithdrawalYieldBearing(p, n, d)
      PROVE  \E shares \in Int, tokens \in Int : Transfers(p, shares, tokens)
  BY <1>5, RequestTransfers
<1>6. ASSUME NEW p \in Participants, ExecuteWithdrawalYieldBearing(p)
      PROVE  \E shares \in Int, tokens \in Int : Transfers(p, shares, tokens)
  <2>1. slot[<<p, Wrapper>>].initialized /\ (ClearDrainedWithdrawal(p) \/ CashWithdrawal(p))
    BY <1>6 DEF ExecuteWithdrawalYieldBearing
  <2>2. CASE ClearDrainedWithdrawal(p)
    BY <2>1, <2>2, DrainedTransfers
  <2>3. CASE CashWithdrawal(p)
    <3>1. PICK shares \in Nat : Transfers(p, -shares, 0)
      BY <2>1, <2>3, CashTransfers
    <3>2. -shares \in Int /\ 0 \in Int
      OBVIOUS
    <3>. QED BY <3>1, <3>2
  <2>. QED BY <2>1, <2>2, <2>3
<1>7. ASSUME NEW n \in Amounts, ClaimProtocolYieldFee(n) PROVE Stands
  BY <1>7, ClaimStands
<1>. QED BY <1>1, <1>2, <1>3, <1>4, <1>5, <1>6, <1>7 DEF WrapperNext

-----------------------------------------------------------------------------
(***************************************************************************)
(* The invariant.  Conservation covers the wrapper's shares like any       *)
(* token; a vault's worth is claimed for plain tokens only, since wrapper  *)
(* shares are backed by the share vault; and the strategy's counter is     *)
(* what was paid in in shares.  That tokens do not exceed the mint's       *)
(* supply counts those in the reserve's vault too.                         *)
(***************************************************************************)
PlainTokensExist == vault[Plain] + reserve.liquidity <= Supply[Plain]

WrapperInvariant ==
  /\ YieldTypeOK
  /\ NoticeInvariant
  /\ EveryPaymentCountsOnce /\ MissingEntriesAreBlank /\ CollateralHasAnEntry
  /\ strategy.total_user_shares = FundedBy(Wrapper)
  /\ \A t \in Tokens \ YieldTokens : VaultHoldsFunds(t)
  /\ PlainTokensExist

LEMMA WrapperInit == YieldInit => WrapperInvariant
<1>. SUFFICES ASSUME YieldInit PROVE WrapperInvariant
  OBVIOUS
<1>1. Init /\ strategy = InitialStrategy(YieldShareBps) /\ shareVault = 0
  BY DEF YieldInit
<1>2. TypeOK /\ NoticeInvariant /\ ConservationInvariant
  BY <1>1, InitTypeOK, NoticeInit, ConservationInit
<1>3. PICK apy \in Apys : reserve = InitialReserve(apy, now, Buffer)
  BY DEF YieldInit
<1>4. Buffer \in Nat /\ Buffer <= Supply[Plain] /\ apy \in 0 .. MaxApyBps /\ now \in Nat
  BY <1>2, YieldAssumption, PlainVault DEF TypeOK
<1>5. /\ reserve \in ReserveState /\ reserve.liquidity = Buffer
      /\ reserve.share_supply = 0
  BY <1>3, <1>4 DEF InitialReserve, ReserveState
<1>6. /\ strategy \in StrategyState /\ strategy.user_index = IndexOne
      /\ strategy.total_user_shares = 0
  BY <1>1, YieldAssumption, ShareBpsAssumption, IndexOneType
  DEF InitialStrategy, StrategyState
<1>7. YieldTypeOK
  BY <1>1, <1>2, <1>5, <1>6, IndexOneType DEF YieldTypeOK
<1>8. FundedBy(Wrapper) = 0
  <2>1. \A p \in Participants : FundedOf(Wrapper)[p] = 0
    BY <1>1, WrapperAccounts DEF FundedOf, Init
  <2>. QED BY <1>2, <2>1, FundedSum, FinitenessAssumption, SumOfZeros, YieldAssumption
<1>9. PlainTokensExist
  <2>1. vault[Plain] = 0
    BY <1>1, YieldAssumption DEF Init
  <2>. QED BY <1>4, <1>5, <2>1 DEF PlainTokensExist
<1>. QED BY <1>2, <1>6, <1>7, <1>8, <1>9 DEF WrapperInvariant, ConservationInvariant

\* A transfer pays in or out of its participant's two entries.
LEMMA TransfersConserve ==
  ASSUME TypeOK, MissingEntriesAreBlank, NEW p \in Participants,
         NEW x \in Int, NEW y \in Int, Transfers(p, x, y)
  PROVE  TypeOK' /\ Conserves
<1>1. /\ slot' \in [Accounts -> Entry] /\ funded' \in [Accounts -> Int]
      /\ vault' \in [Tokens -> Nat]
      /\ UNCHANGED <<now, laneVars, memberVars, signed>>
  BY DEF Transfers
<1>2. TypeOK' /\ lane' = lane
  BY <1>1 DEF TypeOK, laneVars, memberVars, Entry
<1>3. ASSUME NEW a \in Accounts
      PROVE  /\ Total(slot'[a]) - Total(slot[a]) = funded'[a] - funded[a]
             /\ EntryKept(a)
  <2>1. /\ Total(slot[a]) \in Nat /\ funded[a] \in Int
        /\ Blank(slot[a])
    BY AccountFacts
  <2>2. CASE a \in {<<p, Wrapper>>, <<p, Plain>>}
    <3>1. PICK d \in {x, y} : Moves(a, d)
      BY <2>2 DEF Transfers
    <3>. QED BY <2>1, <3>1 DEF Moves
  <2>3. CASE a \notin {<<p, Wrapper>>, <<p, Plain>>}
    BY <2>1, <2>3 DEF Transfers, EntryKept
  <2>. QED BY <2>2, <2>3
<1>4. ASSUME NEW q \in Participants, NEW t \in Tokens PROVE Flow(q, t)
  <2>1. <<q, t>> \in Accounts /\ funded'[<<q, t>>] \in Int
    BY <1>2, HeldType, HeldTypeAfter
  <2>. QED BY <1>2, <1>3, <2>1, PaidInOrOut
<1>5. \A l \in Lanes : CollateralKept(l)
  BY <1>2 DEF CollateralKept
<1>. QED BY <1>2, <1>3, <1>4, <1>5 DEF Conserves

\* deposit, deposit_for and execute_withdrawal_timelocked refuse the wrapper,
\* and nothing else in the core pays in or out.
LEMMA CoreKeepsShares ==
  ASSUME TypeOK, [Next]_vars, NEW p \in Participants
  PROVE  funded'[<<p, Wrapper>>] = funded[<<p, Wrapper>>]
<1>. DEFINE own == <<p, Wrapper>>
<1>1. own \in Accounts /\ own[2] = Wrapper /\ Wrapper \in YieldTokens
      /\ funded \in [Accounts -> Int]
  BY WrapperAccounts, YieldAssumption DEF TypeOK
<1>. HIDE DEF own
<1>2. CASE OwnerNext
  <2>1. ASSUME NEW q \in Participants, NEW u \in Tokens, NEW n \in Amounts, Deposit(q, u, n)
        PROVE  funded'[own] = funded[own]
    <3>1. u \notin YieldTokens /\ funded' = [funded EXCEPT ![<<q, u>>] = @ + n]
      BY <2>1 DEF Deposit
    <3>2. own # <<q, u>>
      BY <1>1, <3>1 DEF own
    <3>. QED BY <1>1, <3>1, <3>2
  <2>2. ASSUME NEW u \in Tokens, NEW k \in 1 .. MaxRecipients,
               NEW credits \in [1 .. k -> Participants \X Amounts], DepositFor(u, credits)
        PROVE  funded'[own] = funded[own]
    <3>. DEFINE credited(a) == a[2] = u /\ a[1] \in {credits[i][1] : i \in DOMAIN credits}
    <3>1. /\ u \notin YieldTokens
          /\ funded' = [a \in Accounts |->
                          IF credited(a)
                          THEN funded[a] + CreditTo(credits, a[1])
                          ELSE funded[a]]
      BY <2>2, Zenon DEF DepositFor
    <3>2. ~credited(own)
      BY <1>1, <3>1
    <3>. HIDE DEF credited
    <3>. QED BY <1>1, <3>1, <3>2
  <2>3. \/ funded' = funded
        \/ \E q \in Participants, u \in Tokens, n \in Amounts : Deposit(q, u, n)
        \/ \E u \in Tokens, k \in 1 .. MaxRecipients :
             \E credits \in [1 .. k -> Participants \X Amounts] : DepositFor(u, credits)
    BY <1>2 DEF OwnerNext, RequestWithdrawal, CancelWithdrawal, UpdateInboundPolicy,
                RegisterBlsKey, balanceVars
  <2>. QED BY <2>1, <2>2, <2>3 DEF own
<1>3. CASE LaneNext
  BY <1>3
  DEF LaneNext, CreateChannel, LockChannelFunds, RequestUnlock, ExecuteUnlock,
      CooperativeUnlock, RequestSignerUpdate, ExecuteSignerUpdate, balanceVars
<1>4. CASE SettleNext
  BY <1>4, SettleNextApplies DEF ApplySettlement
<1>5. ASSUME NEW a \in Accounts, ExecuteWithdrawal(a)
      PROVE  funded'[own] = funded[own]
  <2>1. a[2] \notin YieldTokens
        /\ (funded' = funded
             \/ funded' = [funded EXCEPT ![a] = @ - slot[a].withdrawing_balance])
    BY <1>5 DEF ExecuteWithdrawal
  <2>2. own # a
    BY <1>1, <2>1
  <2>. QED BY <1>1, <2>1, <2>2
<1>6. CASE \/ \E c \in Commitments : SignCommitment(c)
           \/ \E r \in Rounds, q \in Participants : SignRound(r, q)
           \/ Tick
           \/ UNCHANGED vars
  BY <1>6 DEF SignCommitment, SignRound, Tick, vars, balanceVars
<1>. QED BY <1>2, <1>3, <1>4, <1>5, <1>6 DEF Next, own

\* The books after a transfer: shares and plain tokens.
LEMMA TransfersFund ==
  ASSUME TypeOK, TypeOK', WrapperTypes, NEW p \in Participants,
         NEW x \in Int, NEW y \in Int, Transfers(p, x, y)
  PROVE  /\ FundedBy(Wrapper)' = FundedBy(Wrapper) + x
         /\ FundedBy(Plain)' = FundedBy(Plain) + y
         /\ \A t \in Tokens \ {Plain, Wrapper} : FundedBy(t)' = FundedBy(t)
<1>1. /\ Plain \in Tokens /\ Wrapper \in Tokens /\ Plain # Wrapper
  BY WrapperAccounts
<1>2. /\ funded'[<<p, Wrapper>>] = funded[<<p, Wrapper>>] + x
      /\ funded'[<<p, Plain>>] = funded[<<p, Plain>>] + y
  BY DEF Transfers, Moves
<1>3. \A q \in Participants, t \in Tokens :
        <<q, t>> \notin {<<p, Wrapper>>, <<p, Plain>>} =>
          funded'[<<q, t>>] = funded[<<q, t>>]
  BY DEF Transfers, Accounts
<1>4. \A q \in Participants \ {p} : /\ funded'[<<q, Wrapper>>] = funded[<<q, Wrapper>>]
                                    /\ funded'[<<q, Plain>>] = funded[<<q, Plain>>]
  BY <1>1, <1>3
<1>5. ASSUME NEW t \in Tokens \ {Plain, Wrapper} PROVE FundedBy(t)' = FundedBy(t)
  BY <1>3, SameFunds
<1>. QED BY <1>1, <1>2, <1>4, <1>5, OneAccountFunds

\* Every step is a transfer, or moves no share and leaves the wrapper's own
\* types in order.
CoreSettles ==
  /\ [Next]_vars
  /\ WrapperTypes'
  /\ strategy'.total_user_shares = strategy.total_user_shares
  /\ WithinSupply

LEMMA EveryYieldStep ==
  ASSUME TypeOK, WrapperTypes, MissingEntriesAreBlank, PlainTokensExist, [YieldNext]_allVars
  PROVE  \/ CoreSettles
         \/ \E p \in Participants, shares \in Int, tokens \in Int : Transfers(p, shares, tokens)
<1>1. ASSUME Stands PROVE CoreSettles
  BY <1>1 DEF Stands, CoreSettles, PlainTokensExist
<1>2. ASSUME UNCHANGED yieldVars PROVE WrapperTypes'
  BY <1>2 DEF yieldVars, WrapperTypes
<1>3. CASE CoreNext
  <2>1. Next /\ UNCHANGED yieldVars /\ WithinSupply
    BY <1>3 DEF CoreNext
  <2>. QED BY <1>2, <2>1 DEF CoreSettles, yieldVars
<1>4. CASE UNCHANGED allVars
  <2>1. UNCHANGED vars /\ UNCHANGED yieldVars
    BY <1>4 DEF allVars
  <2>2. WithinSupply
    BY <2>1 DEF WithinSupply, PlainTokensExist, vars, balanceVars, yieldVars
  <2>. QED BY <1>2, <2>1, <2>2 DEF CoreSettles, yieldVars
<1>5. CASE ReserveNext
  BY <1>1, <1>5, ReserveStands
<1>6. CASE WrapperNext
  BY <1>1, <1>6, WrapperSteps
<1>. QED BY <1>3, <1>4, <1>5, <1>6 DEF YieldNext

LEMMA CoreSettlesKeeps ==
  ASSUME WrapperInvariant, CoreSettles
  PROVE  WrapperInvariant'
<1>1. /\ TypeOK /\ NoticeInvariant /\ ClosedLanesAreBlank
      /\ EveryPaymentCountsOnce /\ MissingEntriesAreBlank /\ CollateralHasAnEntry
  BY YieldTypesByPart DEF WrapperInvariant, NoticeInvariant
<1>2. [Next]_vars /\ WrapperTypes'
  BY DEF CoreSettles
<1>3. TypeOK'
  BY <1>1, <1>2, NextTypeOK
<1>4. NoticeInvariant'
  BY <1>1, <1>2, <1>3, NoticeNext
<1>5. Conserves /\ \A t \in Tokens : VaultKept(t)
  BY <1>1, <1>2, <1>3, NextConserves
<1>6. EveryPaymentCountsOnce' /\ MissingEntriesAreBlank' /\ CollateralHasAnEntry'
  BY <1>1, <1>3, <1>5, ConservesKeepsInvariant
<1>7. \A t \in Tokens \ YieldTokens : VaultHoldsFunds(t)'
  BY <1>5 DEF WrapperInvariant, VaultKept
<1>8. strategy'.total_user_shares = FundedBy(Wrapper)'
  <2>1. \A p \in Participants : funded'[<<p, Wrapper>>] = funded[<<p, Wrapper>>]
    BY <1>1, <1>2, CoreKeepsShares
  <2>2. FundedBy(Wrapper)' = FundedBy(Wrapper)
    BY <1>1, <1>3, <2>1, SameFunds, WrapperAccounts, YieldAssumption
  <2>. QED BY <2>2 DEF CoreSettles, WrapperInvariant
<1>9. YieldTypeOK'
  BY <1>2, <1>3 DEF YieldTypeOK, WrapperTypes, Sound
<1>10. PlainTokensExist'
  BY DEF CoreSettles, WithinSupply, PlainTokensExist
<1>. QED BY <1>4, <1>6, <1>7, <1>8, <1>9, <1>10 DEF WrapperInvariant

LEMMA TransferKeeps ==
  ASSUME WrapperInvariant, NEW p \in Participants, NEW x \in Int, NEW y \in Int,
         Transfers(p, x, y)
  PROVE  WrapperInvariant'
<1>1. /\ TypeOK /\ WrapperTypes /\ NoticeInvariant
      /\ EveryPaymentCountsOnce /\ MissingEntriesAreBlank /\ CollateralHasAnEntry
      /\ PlainTokensExist
  BY YieldTypesByPart DEF WrapperInvariant
<1>2. TypeOK' /\ Conserves
  BY <1>1, TransfersConserve
<1>3. /\ WrapperTypes' /\ UNCHANGED laneVars
      /\ strategy'.total_user_shares = strategy.total_user_shares + x
      /\ vault'[Plain] >= vault[Plain] + y
      /\ \A t \in Tokens \ {Plain} : vault'[t] = vault[t]
      /\ WithinSupply
  BY <1>1 DEF Transfers, PlainTokensExist
<1>4. NoticeInvariant'
  BY <1>1, <1>3 DEF laneVars, NoticeInvariant, PendingUnlockIsNoticed, UnlockHistoryIsHeld,
                    PendingSignerIsNoticed, ClosedLanesAreBlank
<1>5. EveryPaymentCountsOnce' /\ MissingEntriesAreBlank' /\ CollateralHasAnEntry'
  BY <1>1, <1>2, ConservesKeepsInvariant
<1>6. /\ FundedBy(Wrapper)' = FundedBy(Wrapper) + x
      /\ FundedBy(Plain)' = FundedBy(Plain) + y
      /\ \A t \in Tokens \ {Plain, Wrapper} : FundedBy(t)' = FundedBy(t)
  BY <1>1, <1>2, TransfersFund
<1>7. strategy'.total_user_shares = FundedBy(Wrapper)'
  BY <1>3, <1>6 DEF WrapperInvariant
<1>8. ASSUME NEW t \in Tokens \ YieldTokens PROVE VaultHoldsFunds(t)'
  <2>1. /\ t # Wrapper /\ VaultHoldsFunds(t)
        /\ FundedBy(t) \in Int /\ vault[t] \in Nat /\ vault'[t] \in Nat /\ Supply[t] \in Nat
    BY <1>1, <1>2, FundedSum, SupplyAssumption, YieldAssumption DEF WrapperInvariant, TypeOK
  <2>2. CASE t # Plain
    BY <1>3, <1>6, <2>1, <2>2 DEF VaultHoldsFunds
  <2>3. CASE t = Plain
    <3>1. reserve'.liquidity \in Nat
      BY <1>3 DEF WrapperTypes, ReserveState
    <3>2. vault'[t] <= Supply[t]
      BY <1>3, <2>1, <2>3, <3>1 DEF WithinSupply
    <3>3. FundedBy(t)' <= vault'[t]
      BY <1>3, <1>6, <2>1, <2>3 DEF VaultHoldsFunds
    <3>. QED BY <3>2, <3>3 DEF VaultHoldsFunds
  <2>. QED BY <2>2, <2>3
<1>9. YieldTypeOK'
  BY <1>2, <1>3 DEF YieldTypeOK, WrapperTypes, Sound
<1>10. PlainTokensExist'
  BY <1>3 DEF WithinSupply, PlainTokensExist
<1>. QED BY <1>4, <1>5, <1>7, <1>8, <1>9, <1>10 DEF WrapperInvariant

LEMMA WrapperStep ==
  WrapperInvariant /\ [YieldNext]_allVars => WrapperInvariant'
<1>. SUFFICES ASSUME WrapperInvariant, [YieldNext]_allVars
              PROVE  WrapperInvariant'
  OBVIOUS
<1>1. TypeOK /\ WrapperTypes /\ MissingEntriesAreBlank /\ PlainTokensExist
  BY YieldTypesByPart DEF WrapperInvariant
<1>2. \/ CoreSettles
      \/ \E p \in Participants, shares \in Int, tokens \in Int : Transfers(p, shares, tokens)
  BY <1>1, EveryYieldStep
<1>. QED BY <1>2, CoreSettlesKeeps, TransferKeeps

\* Every operation on wrapper tokens keeps books, entries and the vault's tokens
\* in agreement (the handlers of yield_bearing.rs).
THEOREM WrapperInvariance == YieldSpec => []WrapperInvariant
BY WrapperInit, WrapperStep, PTL DEF YieldSpec

-----------------------------------------------------------------------------
(***************************************************************************)
(* What follows from it.                                                   *)
(***************************************************************************)
\* No counter of the strategy, the reserve or an entry is ever negative, the
\* index never falls below one and the share vault never holds reserve shares
\* that were not issued.
THEOREM WrapperTypeCorrectness == YieldSpec => []YieldTypeOK
<1>1. WrapperInvariant => YieldTypeOK
  BY DEF WrapperInvariant
<1>. QED BY <1>1, WrapperInvariance, PTL

\* The strategy's share counter is what participants and their lanes hold:
\* deposits, opt-ins and redemptions book what entries get and give, and lanes,
\* settlements and drained withdrawals only move shares between entries.
THEOREM SharesAccounted == YieldSpec => []SharesAreAccounted
<1>1. WrapperInvariant => SharesAreAccounted
  <2>. SUFFICES ASSUME WrapperInvariant PROVE SharesAreAccounted
    OBVIOUS
  <2>1. TypeOK /\ EveryPaymentCountsOnce /\ strategy.total_user_shares = FundedBy(Wrapper)
    BY DEF WrapperInvariant, YieldTypeOK
  <2>2. HeldBy(Wrapper) + LockedOn(LanesOf(Wrapper)) = FundedBy(Wrapper)
    BY <2>1, LiabilitiesAreFunded, YieldAssumption
  <2>. QED BY <2>1, <2>2 DEF SharesAreAccounted, HeldShares, LockedShares, LanesOf
<1>. QED BY <1>1, WrapperInvariance, PTL

\* The vaults of plain tokens back all balances and collateral also while the
\* wrapper moves tokens between the plain vault and the reserve.
THEOREM WrapperSolvency == YieldSpec => []VaultBacksLiabilities
<1>1. WrapperInvariant => VaultBacksLiabilities
  <2>. SUFFICES ASSUME WrapperInvariant, NEW t \in Tokens \ YieldTokens
                PROVE  vault[t] >= HeldBy(t) + LockedOn({l \in Lanes : l.token = t})
    BY DEF VaultBacksLiabilities
  <2>1. TypeOK /\ EveryPaymentCountsOnce /\ VaultHoldsFunds(t)
    BY DEF WrapperInvariant, YieldTypeOK
  <2>2. HeldBy(t) + LockedOn(LanesOf(t)) = FundedBy(t)
    BY <2>1, LiabilitiesAreFunded
  <2>3. FundedBy(t) \in Int /\ vault[t] \in Nat
    BY <2>1, FundedSum DEF TypeOK
  <2>. QED BY <2>1, <2>2, <2>3 DEF VaultHoldsFunds, LanesOf
<1>. QED BY <1>1, WrapperInvariance, PTL

-----------------------------------------------------------------------------
(***************************************************************************)
(* What a step does to the reserve: it accrues, and then at most takes a   *)
(* deposit, pays two redemptions, or takes a new rate.                     *)
(***************************************************************************)
Invests(n) ==
  CanDepositLiquidity(FreshReserve, n) /\ reserve' = LiquidityDeposited(FreshReserve, n)

Redeems(n, k) ==
  /\ n + k <= FreshReserve.share_supply
  /\ CanRedeemPart(FreshReserve, n)
  /\ CanRedeemPart(RedeemPart(FreshReserve, n), k)
  /\ reserve' = RedeemPart(RedeemPart(FreshReserve, n), k)

ReserveStep ==
  \/ reserve' = reserve
  \/ \E n \in Nat : Invests(n)
  \/ \E n \in Nat, k \in Nat : Redeems(n, k)
  \/ \E apy \in Apys : reserve' = UpdatedApy(reserve, apy, now)

LEMMA AccruedOnly ==
  ASSUME TypeOK, WrapperTypes, reserve' = FreshReserve
  PROVE  ReserveStep
<1>1. RedeemPart(FreshReserve, 0) = FreshReserve
  BY DEF RedeemPart
<1>2. CanRedeemPart(FreshReserve, 0)
  BY DEF CanRedeemPart
<1>3. 0 + 0 <= FreshReserve.share_supply
  BY Fresh, ReserveTypes
<1>4. Redeems(0, 0)
  BY <1>1, <1>2, <1>3 DEF Redeems
<1>. QED BY <1>4 DEF ReserveStep

LEMMA RedeemsOnce ==
  ASSUME TypeOK, WrapperTypes, NEW n \in Nat, n <= FreshReserve.share_supply,
         CanRedeem(FreshReserve, n), reserve' = Redeemed(FreshReserve, n)
  PROVE  ReserveStep
<1>1. n > 0
  BY DEF CanRedeem
<1>2. RedeemPart(FreshReserve, n) = Redeemed(FreshReserve, n) /\ CanRedeemPart(FreshReserve, n)
  BY <1>1 DEF RedeemPart, CanRedeemPart
<1>3. /\ RedeemPart(Redeemed(FreshReserve, n), 0) = Redeemed(FreshReserve, n)
      /\ CanRedeemPart(Redeemed(FreshReserve, n), 0)
  BY DEF RedeemPart, CanRedeemPart
<1>4. n + 0 <= FreshReserve.share_supply
  OBVIOUS
<1>5. Redeems(n, 0)
  BY <1>2, <1>3, <1>4 DEF Redeems
<1>. QED BY <1>5 DEF ReserveStep

LEMMA EveryReserveStep ==
  ASSUME TypeOK, WrapperTypes, [YieldNext]_allVars
  PROVE  ReserveStep
<1>0. /\ \A n \in Amounts : n \in Nat
      /\ FreshReserve \in ReserveState /\ FreshStrategy \in Sound
      /\ shareVault \in Nat /\ shareVault <= FreshReserve.share_supply
      /\ FreshReserve.share_supply = reserve.share_supply
      /\ FreshReserve.share_supply \in Nat
  <2>1. FreshReserve \in ReserveState /\ FreshStrategy \in Sound
        /\ shareVault \in Nat /\ shareVault <= reserve.share_supply
        /\ FreshReserve.share_supply = reserve.share_supply
    BY Fresh
  <2>. QED BY <2>1, AmountsAssumption, ReserveTypes
<1>1. CASE CoreNext \/ UNCHANGED allVars
  BY <1>1 DEF CoreNext, allVars, yieldVars, ReserveStep
<1>2. CASE AccrueYield \/ AccrueReserve
  BY <1>2, AccruedOnly DEF AccrueYield, AccrueReserve
<1>3. ASSUME NEW p \in Participants, NEW n \in Amounts, Mint(p, n)
      PROVE  ReserveStep
  BY <1>0, <1>3 DEF Mint, ReserveStep, Invests
<1>4. ASSUME NEW p \in Participants, NEW n \in Amounts, OptOutYield(p, n)
      PROVE  ReserveStep
  <2>. DEFINE owed == SharesToUsdc(FreshStrategy, n)
              cusdc == UsdcToCusdc(owed, FreshReserve)
  <2>1. /\ CanUsdcToCusdc(owed, FreshReserve) /\ cusdc <= shareVault
        /\ CanRedeem(FreshReserve, cusdc) /\ reserve' = Redeemed(FreshReserve, cusdc)
    BY <1>4 DEF OptOutYield
  <2>2. owed \in Nat
    BY <1>0, UserValueTypes
  <2>. HIDE DEF owed
  <2>3. cusdc \in Nat
    BY <1>0, <2>1, <2>2, ConversionTypes
  <2>. HIDE DEF cusdc
  <2>4. cusdc <= FreshReserve.share_supply
    BY <1>0, <2>1, <2>3
  <2>. QED BY <2>1, <2>3, <2>4, RedeemsOnce
<1>5. ASSUME NEW p \in Participants, NEW n \in Amounts, NEW d \in Destinations,
             RequestWithdrawalYieldBearing(p, n, d)
      PROVE  ReserveStep
  BY <1>5 DEF RequestWithdrawalYieldBearing, yieldVars, ReserveStep
<1>6. ASSUME NEW p \in Participants, ClearDrainedWithdrawal(p) PROVE ReserveStep
  BY <1>6, AccruedOnly DEF ClearDrainedWithdrawal
<1>7. ASSUME NEW p \in Participants, CashWithdrawal(p) PROVE ReserveStep
  <2>. DEFINE shares == slot[<<p, Wrapper>>].withdrawing_balance
              gross == SharesToUsdc(FreshStrategy, shares)
              fee == WithdrawalFee(Wrapper, gross)
              cusdcNet == UsdcToCusdc(gross - fee, FreshReserve)
              cusdcFee == UsdcToCusdc(fee, FreshReserve)
  <2>1. /\ ScaledMinFee(Wrapper) \in 0 .. MaxU64
        /\ CanUsdcToCusdc(gross - fee, FreshReserve)
        /\ CanUsdcToCusdc(fee, FreshReserve)
        /\ cusdcNet + cusdcFee <= shareVault
        /\ CanRedeemPart(FreshReserve, cusdcNet)
        /\ CanRedeemPart(RedeemPart(FreshReserve, cusdcNet), cusdcFee)
        /\ reserve' = RedeemPart(RedeemPart(FreshReserve, cusdcNet), cusdcFee)
    BY <1>7 DEF CashWithdrawal
  <2>2. shares \in Nat
    <3>1. <<p, Wrapper>> \in Accounts
      BY WrapperAccounts
    <3>2. slot[<<p, Wrapper>>] \in Entry
      BY <3>1 DEF TypeOK, Entry
    <3>. QED BY <3>2, EntryTypes
  <2>. HIDE DEF shares
  <2>3. gross \in Nat
    BY <1>0, <2>2, UserValueTypes
  <2>. HIDE DEF gross
  <2>4. fee \in Nat /\ gross - fee \in Nat
    BY <2>1, <2>3, FeeIsPart
  <2>. HIDE DEF fee
  <2>5. cusdcNet \in Nat /\ cusdcFee \in Nat
    BY <1>0, <2>1, <2>4, ConversionTypes
  <2>. HIDE DEF cusdcNet, cusdcFee
  <2>6. cusdcNet + cusdcFee <= FreshReserve.share_supply
    BY <1>0, <2>1, <2>5
  <2>. QED BY <2>1, <2>5, <2>6 DEF Redeems, ReserveStep
<1>8. ASSUME NEW n \in Amounts, ClaimProtocolYieldFee(n) PROVE ReserveStep
  <2>. DEFINE cusdc == UsdcToCusdc(n, FreshReserve)
  <2>1. /\ CanUsdcToCusdc(n, FreshReserve) /\ cusdc <= shareVault
        /\ CanRedeem(FreshReserve, cusdc) /\ reserve' = Redeemed(FreshReserve, cusdc)
    BY <1>8 DEF ClaimProtocolYieldFee
  <2>2. cusdc \in Nat
    BY <1>0, <2>1, ConversionTypes
  <2>. HIDE DEF cusdc
  <2>3. cusdc <= FreshReserve.share_supply
    BY <1>0, <2>1, <2>2
  <2>. QED BY <2>1, <2>2, <2>3, RedeemsOnce
<1>9. ASSUME NEW apy \in Apys, UpdateApyBps(apy) PROVE ReserveStep
  BY <1>9 DEF UpdateApyBps, ReserveStep
<1>10. ASSUME NEW n \in Amounts, DepositReserveLiquidity(n) PROVE ReserveStep
  BY <1>0, <1>10 DEF DepositReserveLiquidity, ReserveStep, Invests
<1>11. ASSUME NEW n \in Amounts, RedeemReserveCollateral(n) PROVE ReserveStep
  <2>1. CanRedeem(FreshReserve, n) /\ reserve' = Redeemed(FreshReserve, n)
    BY <1>11 DEF RedeemReserveCollateral
  <2>2. n <= FreshReserve.share_supply
    BY <2>1 DEF CanRedeem
  <2>. QED BY <1>0, <2>1, <2>2, RedeemsOnce
<1>12. CASE WrapperNext
  BY <1>2, <1>3, <1>4, <1>5, <1>6, <1>7, <1>8, <1>12
  DEF WrapperNext, DepositYieldBearing, OptInYield, ExecuteWithdrawalYieldBearing
<1>. QED BY <1>1, <1>2, <1>9, <1>10, <1>11, <1>12 DEF YieldNext, ReserveNext

-----------------------------------------------------------------------------
(***************************************************************************)
(* A reserve share keeps its worth: total_underlying over share_supply     *)
(* never falls, compared by cross multiplication.                          *)
(***************************************************************************)
WorthKept(r, s) ==
  r.share_supply > 0 /\ s.share_supply > 0 =>
    s.total_underlying * r.share_supply >= r.total_underlying * s.share_supply

LEMMA DepositArithmetic ==
  ASSUME NEW T \in Nat, NEW S \in Nat, NEW n \in Nat, NEW q \in Nat, T * q <= n * S
  PROVE  (T + n) * S >= T * (S + q)
<1>1. (T + n) * S = T * S + n * S
  OBVIOUS
<1>2. T * (S + q) = T * S + T * q
  OBVIOUS
<1>. QED BY <1>1, <1>2, Product

LEMMA RedeemArithmetic ==
  ASSUME NEW T \in Nat, NEW S \in Nat, NEW n \in Nat, NEW u \in Nat,
         u <= T, n <= S, S * u <= n * T
  PROVE  (T - u) * S >= T * (S - n)
<1>1. (T - u) * S = T * S - S * u
  OBVIOUS
<1>2. T * (S - n) = T * S - n * T
  OBVIOUS
<1>. QED BY <1>1, <1>2, Product

LEMMA CancelFactor ==
  ASSUME NEW a \in Nat, NEW b \in Nat, NEW c \in Nat \ {0}, a * c >= b * c
  PROVE  a >= b
<1>. SUFFICES ASSUME a < b PROVE FALSE
  OBVIOUS
<1>1. PICK d \in Nat : b = a + 1 + d
  BY b = a + 1 + (b - a - 1)
<1>2. b * c = a * c + c + d * c
  BY <1>1
<1>. QED BY <1>2, Product

LEMMA Scales ==
  ASSUME NEW a \in Nat, NEW b \in Nat, NEW c \in Nat, a >= b
  PROVE  a * c >= b * c
<1>1. PICK d \in Nat : a = b + d
  BY a = b + (a - b)
<1>2. a * c = b * c + d * c
  BY <1>1
<1>. QED BY <1>2, Product

\* Two steps, the reserve not empty between them.
LEMMA WorthTransitive ==
  ASSUME NEW T1 \in Nat, NEW S1 \in Nat, NEW T2 \in Nat, NEW S2 \in Nat \ {0},
         NEW T3 \in Nat, NEW S3 \in Nat,
         T2 * S1 >= T1 * S2, T3 * S2 >= T2 * S3
  PROVE  T3 * S1 >= T1 * S3
<1>. DEFINE x == T2 * S1
            y == T1 * S2
            z == T3 * S2
            w == T2 * S3
<1>1. x \in Nat /\ y \in Nat /\ z \in Nat /\ w \in Nat
  BY Product
<1>2. x * S3 >= y * S3 /\ z * S1 >= w * S1
  <2>1. x >= y /\ z >= w
    OBVIOUS
  <2>. HIDE DEF x, y, z, w
  <2>. QED BY <1>1, <2>1, Scales
<1>3. x * S3 = w * S1
  OBVIOUS
<1>4. z * S1 = (T3 * S1) * S2 /\ y * S3 = (T1 * S3) * S2
  OBVIOUS
<1>5. z * S1 \in Nat /\ y * S3 \in Nat /\ x * S3 \in Nat /\ w * S1 \in Nat
  BY <1>1, Product
<1>6. z * S1 >= y * S3
  <2>. HIDE DEF x, y, z, w
  <2>. QED BY <1>2, <1>3, <1>5
<1>7. (T3 * S1) * S2 >= (T1 * S3) * S2
  BY <1>4, <1>6
<1>8. T3 * S1 \in Nat /\ T1 * S3 \in Nat
  BY Product
<1>. QED BY <1>7, <1>8, CancelFactor

LEMMA AccrualKeepsWorth ==
  ASSUME NEW r \in ReserveState, NEW s \in ReserveState,
         s.share_supply = r.share_supply, s.total_underlying >= r.total_underlying
  PROVE  WorthKept(r, s)
BY Scales, ReserveTypes DEF WorthKept

LEMMA DepositKeepsWorth ==
  ASSUME NEW r \in ReserveState, NEW n \in Nat
  PROVE  WorthKept(r, LiquidityDeposited(r, n))
<1>. DEFINE m == LiquidityDeposited(r, n)
            q == SharesFor(r, n)
<1>1. /\ m \in ReserveState
      /\ m.share_supply = r.share_supply + q
      /\ m.total_underlying = r.total_underlying + n
  BY LiquidityDepositedType
<1>2. q \in Nat
  BY SharesForType
<1>3. r.total_underlying \in Nat /\ r.share_supply \in Nat
  BY ReserveTypes
<1>. HIDE DEF m
<1>4. CASE r.share_supply = 0 \/ r.total_underlying = 0
  <2>1. m.total_underlying * r.share_supply >= 0 /\ m.share_supply \in Nat
    BY <1>1, ReserveTypes, Product
  <2>2. CASE r.total_underlying = 0
    BY <2>1, <2>2 DEF WorthKept, m
  <2>. QED BY <1>4, <2>2 DEF WorthKept, m
<1>5. CASE r.share_supply > 0 /\ r.total_underlying > 0
  <2>1. q = (n * r.share_supply) \div r.total_underlying
    BY <1>5 DEF SharesFor
  <2>. HIDE DEF q
  <2>2. r.total_underlying * q <= n * r.share_supply
    <3>1. n * r.share_supply \in Nat /\ r.total_underlying \in Nat \ {0}
      BY <1>3, <1>5, Product
    <3>. QED BY <2>1, <3>1, Quotient
  <2>3. (r.total_underlying + n) * r.share_supply
          >= r.total_underlying * (r.share_supply + q)
    BY <1>2, <1>3, <2>2, DepositArithmetic
  <2>. QED BY <1>1, <2>3 DEF WorthKept, m
<1>. QED BY <1>3, <1>4, <1>5

LEMMA RedemptionKeepsWorth ==
  ASSUME NEW r \in ReserveState, NEW n \in Nat, CanRedeemPart(r, n)
  PROVE  /\ RedeemPart(r, n) \in ReserveState
         /\ RedeemPart(r, n).share_supply = r.share_supply - n
         /\ RedeemPart(r, n).last_accrual_ts = r.last_accrual_ts
         /\ RedeemPart(r, n).apy_bps = r.apy_bps
         /\ WorthKept(r, RedeemPart(r, n))
<1>1. r.total_underlying \in Nat /\ r.share_supply \in Nat
  BY ReserveTypes
<1>2. CASE n = 0
  <2>1. RedeemPart(r, n) = r
    BY <1>2 DEF RedeemPart
  <2>2. r.total_underlying >= r.total_underlying
    BY <1>1
  <2>. QED BY <1>1, <1>2, <2>1, <2>2, AccrualKeepsWorth
<1>3. CASE n > 0
  <2>. DEFINE u == UnderlyingFor(r, n)
  <2>1. CanRedeem(r, n) /\ RedeemPart(r, n) = Redeemed(r, n)
    BY <1>3 DEF CanRedeemPart, RedeemPart
  <2>2. /\ RedeemPart(r, n) \in ReserveState
        /\ RedeemPart(r, n).share_supply = r.share_supply - n
        /\ RedeemPart(r, n).total_underlying = r.total_underlying - u
        /\ RedeemPart(r, n).apy_bps = r.apy_bps
        /\ RedeemPart(r, n).last_accrual_ts = r.last_accrual_ts
        /\ u \in Nat
    BY <2>1, RedeemedType
  <2>3. n <= r.share_supply /\ r.share_supply > 0 /\ u <= r.total_underlying
    BY <2>1 DEF CanRedeem
  <2>4. u = (n * r.total_underlying) \div r.share_supply
    BY DEF UnderlyingFor
  <2>. HIDE DEF u
  <2>5. r.share_supply * u <= n * r.total_underlying
    BY <1>1, <2>3, <2>4, Product, Quotient
  <2>6. (r.total_underlying - u) * r.share_supply >= r.total_underlying * (r.share_supply - n)
    BY <1>1, <2>2, <2>3, <2>5, RedeemArithmetic
  <2>. QED BY <2>2, <2>6 DEF WorthKept
<1>. QED BY <1>2, <1>3

\* The two redemptions of one cashing: shares left at the end were there
\* between them.
LEMMA RedemptionsKeepWorth ==
  ASSUME NEW r \in ReserveState, NEW n \in Nat, NEW k \in Nat,
         n + k <= r.share_supply,
         CanRedeemPart(r, n), CanRedeemPart(RedeemPart(r, n), k)
  PROVE  LET s == RedeemPart(RedeemPart(r, n), k)
         IN  /\ s \in ReserveState
             /\ s.share_supply = r.share_supply - n - k
             /\ s.last_accrual_ts = r.last_accrual_ts
             /\ s.apy_bps = r.apy_bps
             /\ WorthKept(r, s)
<1>. DEFINE m == RedeemPart(r, n)
            s == RedeemPart(m, k)
<1>1. /\ m \in ReserveState /\ m.share_supply = r.share_supply - n
      /\ m.last_accrual_ts = r.last_accrual_ts /\ m.apy_bps = r.apy_bps
      /\ WorthKept(r, m)
  BY RedemptionKeepsWorth
<1>. HIDE DEF m
<1>2. CanRedeemPart(m, k)
  BY DEF m
<1>3. /\ s \in ReserveState /\ s.share_supply = m.share_supply - k
      /\ s.last_accrual_ts = m.last_accrual_ts /\ s.apy_bps = m.apy_bps
      /\ WorthKept(m, s)
  BY <1>1, <1>2, RedemptionKeepsWorth
<1>. HIDE DEF s
<1>4. /\ r.total_underlying \in Nat /\ r.share_supply \in Nat
      /\ m.total_underlying \in Nat /\ m.share_supply \in Nat
      /\ s.total_underlying \in Nat /\ s.share_supply \in Nat
  BY <1>1, <1>3, ReserveTypes
<1>5. ASSUME r.share_supply > 0, s.share_supply > 0
      PROVE  s.total_underlying * r.share_supply >= r.total_underlying * s.share_supply
  <2>1. m.share_supply > 0
    BY <1>3, <1>4, <1>5
  <2>2. /\ m.total_underlying * r.share_supply >= r.total_underlying * m.share_supply
        /\ s.total_underlying * m.share_supply >= m.total_underlying * s.share_supply
    BY <1>1, <1>3, <1>5, <2>1 DEF WorthKept
  <2>3. m.share_supply \in Nat \ {0}
    BY <1>4, <2>1
  <2>. QED BY <1>4, <2>2, <2>3, WorthTransitive
<1>. QED BY <1>1, <1>3, <1>4, <1>5 DEF WorthKept, m, s

\* Worth kept since the accrual is kept since before it.
LEMMA WorthSinceAccrual ==
  ASSUME TypeOK, WrapperTypes, reserve' \in ReserveState, WorthKept(FreshReserve, reserve')
  PROVE  WorthKept(reserve, reserve')
<1>. DEFINE f == FreshReserve
<1>. SUFFICES ASSUME NEW s \in ReserveState, s = reserve', WorthKept(f, s),
                     reserve.share_supply > 0, s.share_supply > 0
              PROVE  s.total_underlying * reserve.share_supply
                       >= reserve.total_underlying * s.share_supply
  BY DEF WorthKept
<1>1. /\ f \in ReserveState /\ f.share_supply = reserve.share_supply
      /\ f.total_underlying >= reserve.total_underlying
      /\ reserve \in ReserveState
  BY Fresh DEF WrapperTypes
<1>. HIDE DEF f
<1>2. WorthKept(reserve, f)
  BY <1>1, AccrualKeepsWorth
<1>3. /\ f.total_underlying * reserve.share_supply >= reserve.total_underlying * f.share_supply
      /\ s.total_underlying * f.share_supply >= f.total_underlying * s.share_supply
  BY <1>1, <1>2 DEF WorthKept
<1>4. /\ reserve.total_underlying \in Nat /\ reserve.share_supply \in Nat
      /\ f.total_underlying \in Nat /\ f.share_supply \in Nat \ {0}
      /\ s.total_underlying \in Nat /\ s.share_supply \in Nat
  <2>1. /\ reserve.total_underlying \in Nat /\ reserve.share_supply \in Nat
        /\ f.total_underlying \in Nat /\ f.share_supply \in Nat
        /\ s.total_underlying \in Nat /\ s.share_supply \in Nat
    BY <1>1, ReserveTypes
  <2>. QED BY <1>1, <2>1
<1>. QED BY <1>3, <1>4, WorthTransitive

LEMMA StepsKeepWorth ==
  ASSUME TypeOK, WrapperTypes, [YieldNext]_allVars
  PROVE  WorthKept(reserve, reserve')
<1>0. ReserveStep
  BY EveryReserveStep
<1>1. FreshReserve \in ReserveState /\ reserve \in ReserveState
  BY Fresh DEF WrapperTypes
<1>2. CASE reserve' = reserve
  <2>1. reserve' \in ReserveState /\ reserve'.total_underlying >= reserve.total_underlying
        /\ reserve'.share_supply = reserve.share_supply
    BY <1>1, <1>2, ReserveTypes
  <2>. QED BY <1>1, <2>1, AccrualKeepsWorth
<1>3. ASSUME NEW n \in Nat, Invests(n) PROVE WorthKept(reserve, reserve')
  <2>1. reserve' = LiquidityDeposited(FreshReserve, n)
    BY <1>3 DEF Invests
  <2>2. reserve' \in ReserveState
    BY <1>1, <2>1, LiquidityDepositedType
  <2>3. WorthKept(FreshReserve, reserve')
    BY <1>1, <2>1, DepositKeepsWorth
  <2>. QED BY <2>2, <2>3, WorthSinceAccrual
<1>4. ASSUME NEW n \in Nat, NEW k \in Nat, Redeems(n, k) PROVE WorthKept(reserve, reserve')
  <2>1. /\ n + k <= FreshReserve.share_supply
        /\ CanRedeemPart(FreshReserve, n) /\ CanRedeemPart(RedeemPart(FreshReserve, n), k)
        /\ reserve' = RedeemPart(RedeemPart(FreshReserve, n), k)
    BY <1>4 DEF Redeems
  <2>2. reserve' \in ReserveState /\ WorthKept(FreshReserve, reserve')
    BY <1>1, <2>1, RedemptionsKeepWorth
  <2>. QED BY <2>2, WorthSinceAccrual
<1>5. ASSUME NEW apy \in Apys, reserve' = UpdatedApy(reserve, apy, now)
      PROVE  WorthKept(reserve, reserve')
  <2>1. apy \in 0 .. MaxApyBps /\ now \in Nat
    BY YieldAssumption DEF TypeOK
  <2>2. /\ reserve' \in ReserveState
        /\ reserve'.share_supply = FreshReserve.share_supply
        /\ reserve'.total_underlying = FreshReserve.total_underlying
    <3>1. FreshReserve.share_supply = reserve.share_supply
      BY Fresh
    <3>2. /\ reserve' \in ReserveState
          /\ reserve'.share_supply = reserve.share_supply
          /\ reserve'.total_underlying = Accrued(reserve, now).total_underlying
      BY <1>1, <1>5, <2>1, UpdatedApyType
    <3>. QED BY <3>1, <3>2 DEF FreshReserve
  <2>3. reserve'.total_underlying >= FreshReserve.total_underlying
    BY <1>1, <2>2, ReserveTypes
  <2>4. WorthKept(FreshReserve, reserve')
    BY <1>1, <2>2, <2>3, AccrualKeepsWorth
  <2>. QED BY <2>2, <2>4, WorthSinceAccrual
<1>. QED BY <1>0, <1>2, <1>3, <1>4, <1>5 DEF ReserveStep

\* Whoever deposits, redeems, cashes or claims, and however conversions round,
\* a share of the reserve is worth at least what it was.
THEOREM ReserveWorth == YieldSpec => ReserveShareKeepsValue
<1>1. WrapperInvariant /\ [YieldNext]_allVars =>
        (reserve.share_supply > 0 /\ reserve'.share_supply > 0 =>
           reserve'.total_underlying * reserve.share_supply
             >= reserve.total_underlying * reserve'.share_supply)
  <2>. SUFFICES ASSUME WrapperInvariant, [YieldNext]_allVars PROVE WorthKept(reserve, reserve')
    BY DEF WorthKept
  <2>1. TypeOK /\ WrapperTypes
    BY YieldTypesByPart DEF WrapperInvariant
  <2>. QED BY <2>1, StepsKeepWorth
<1>. QED BY <1>1, WrapperInvariance, PTL DEF YieldSpec, ReserveShareKeepsValue

\* Accruing again at the same time earns nothing, at whatever rate.
LEMMA FreshStays ==
  ASSUME TypeOK, WrapperTypes, now' = now, NEW s \in ReserveState, reserve' = s,
         s.total_underlying = FreshReserve.total_underlying,
         s.last_accrual_ts = FreshReserve.last_accrual_ts
  PROVE  FreshReserve'.total_underlying = FreshReserve.total_underlying
<1>1. now \in Nat /\ reserve \in ReserveState
  BY DEF TypeOK, WrapperTypes
<1>2. /\ FreshReserve.last_accrual_ts = Greater(reserve.last_accrual_ts, now)
      /\ reserve.last_accrual_ts \in Nat
  BY <1>1, AccruedType, ReserveTypes DEF FreshReserve
<1>3. now <= s.last_accrual_ts
  BY <1>1, <1>2 DEF Greater
<1>4. FreshReserve' = Accrued(s, now)
  BY DEF FreshReserve
<1>5. Accrued(s, now) = s
  BY <1>3 DEF Accrued
<1>. QED BY <1>4, <1>5

\* While the clock stands still and no reserve share is issued or redeemed,
\* neither accruing again nor a new rate changes what the reserve is worth.
THEOREM RatesForward == YieldSpec => RatesApplyForward
<1>1. ASSUME TypeOK, WrapperTypes, [YieldNext]_allVars,
             now' = now, reserve'.share_supply = reserve.share_supply
      PROVE  FreshReserve'.total_underlying = FreshReserve.total_underlying
  <2>0. ReserveStep
    BY <1>1, EveryReserveStep
  <2>1. /\ FreshReserve \in ReserveState /\ reserve \in ReserveState
        /\ FreshReserve.share_supply = reserve.share_supply
        /\ FreshReserve.share_supply \in Nat
    <3>1. FreshReserve \in ReserveState /\ FreshReserve.share_supply = reserve.share_supply
      BY <1>1, Fresh
    <3>. QED BY <1>1, <3>1, ReserveTypes DEF WrapperTypes
  <2>2. CASE reserve' = reserve
    BY <1>1, <2>2 DEF FreshReserve
  <2>3. ASSUME NEW n \in Nat, Invests(n) PROVE FALSE
    <3>1. /\ reserve' = LiquidityDeposited(FreshReserve, n)
          /\ SharesFor(FreshReserve, n) > 0
      BY <2>3 DEF Invests, CanDepositLiquidity
    <3>2. SharesFor(FreshReserve, n) \in Nat
      BY <2>1, SharesForType
    <3>3. reserve'.share_supply = FreshReserve.share_supply + SharesFor(FreshReserve, n)
      BY <2>1, <3>1, LiquidityDepositedType
    <3>. QED BY <1>1, <2>1, <3>1, <3>2, <3>3
  <2>4. ASSUME NEW n \in Nat, NEW k \in Nat, Redeems(n, k)
        PROVE  FreshReserve'.total_underlying = FreshReserve.total_underlying
    <3>1. /\ n + k <= FreshReserve.share_supply
          /\ CanRedeemPart(FreshReserve, n) /\ CanRedeemPart(RedeemPart(FreshReserve, n), k)
          /\ reserve' = RedeemPart(RedeemPart(FreshReserve, n), k)
      BY <2>4 DEF Redeems
    <3>2. reserve'.share_supply = FreshReserve.share_supply - n - k
      BY <2>1, <3>1, RedemptionsKeepWorth
    <3>3. n = 0 /\ k = 0
      BY <1>1, <2>1, <3>2
    <3>4. reserve' = FreshReserve
      BY <3>1, <3>3 DEF RedeemPart
    <3>. QED BY <1>1, <2>1, <3>4, FreshStays
  <2>5. ASSUME NEW apy \in Apys, reserve' = UpdatedApy(reserve, apy, now)
        PROVE  FreshReserve'.total_underlying = FreshReserve.total_underlying
    <3>1. apy \in 0 .. MaxApyBps /\ now \in Nat
      BY <1>1, YieldAssumption DEF TypeOK
    <3>2. PICK s : s = UpdatedApy(reserve, apy, now)
      OBVIOUS
    <3>3. /\ s \in ReserveState
          /\ s.total_underlying = Accrued(reserve, now).total_underlying
          /\ s.last_accrual_ts = Accrued(reserve, now).last_accrual_ts
      BY <2>1, <3>1, <3>2, UpdatedApyType
    <3>4. /\ s.total_underlying = FreshReserve.total_underlying
          /\ s.last_accrual_ts = FreshReserve.last_accrual_ts
          /\ reserve' = s
      BY <2>5, <3>2, <3>3 DEF FreshReserve
    <3>. QED BY <1>1, <3>3, <3>4, FreshStays
  <2>. QED BY <2>0, <2>2, <2>3, <2>4, <2>5 DEF ReserveStep
<1>2. WrapperInvariant => TypeOK /\ WrapperTypes
  BY YieldTypesByPart DEF WrapperInvariant
<1>3. WrapperInvariant /\ [YieldNext]_allVars =>
        (now' = now /\ reserve'.share_supply = reserve.share_supply =>
           FreshReserve'.total_underlying = FreshReserve.total_underlying)
  BY <1>1, <1>2
<1>. QED BY <1>3, WrapperInvariance, PTL DEF YieldSpec, RatesApplyForward

-----------------------------------------------------------------------------
(***************************************************************************)
(* What was attributed stays attributed.                                   *)
(***************************************************************************)
Attributes ==
  /\ strategy'.user_index >= strategy.user_index
  /\ strategy'.protocol_owed_underlying < strategy.protocol_owed_underlying =>
       \E n \in Amounts : ClaimProtocolYieldFee(n)

\* Minting and burning shares change neither the index nor the claim.
LEMMA SharesMoveOnly ==
  ASSUME NEW s \in Sound, NEW n, NEW u
  PROVE  /\ SharesMinted(s, u).user_index = s.user_index
         /\ SharesMinted(s, u).protocol_owed_underlying = s.protocol_owed_underlying
         /\ SharesBurned(s, n, u).user_index = s.user_index
         /\ SharesBurned(s, n, u).protocol_owed_underlying = s.protocol_owed_underlying
         /\ [SharesBurned(s, n, u) EXCEPT !.protocol_owed_underlying = @ - u].user_index
              = s.user_index
<1>1. s \in StrategyState
  BY DEF Sound
<1>. QED BY <1>1, Zenon DEF SharesMinted, SharesBurned, StrategyState

LEMMA EveryStepAttributes ==
  ASSUME TypeOK, WrapperTypes, [YieldNext]_allVars
  PROVE  Attributes
<1>0. /\ FreshStrategy \in Sound /\ strategy \in Sound
      /\ FreshStrategy.user_index >= strategy.user_index
      /\ FreshStrategy.protocol_owed_underlying >= strategy.protocol_owed_underlying
      /\ strategy.user_index \in Nat /\ strategy.protocol_owed_underlying \in Nat
      /\ FreshStrategy.user_index \in Nat /\ FreshStrategy.protocol_owed_underlying \in Nat
  <2>1. FreshStrategy \in Sound /\ strategy \in Sound
    BY Fresh DEF WrapperTypes
  <2>. QED BY <2>1, Fresh, StrategyTypes
<1>1. ASSUME NEW s, strategy' = s, s.user_index = FreshStrategy.user_index,
             s.protocol_owed_underlying = FreshStrategy.protocol_owed_underlying
      PROVE  Attributes
  BY <1>0, <1>1 DEF Attributes
<1>2. CASE CoreNext \/ ReserveNext \/ UNCHANGED allVars
  <2>1. strategy' = strategy
    BY <1>2
    DEF CoreNext, ReserveNext, AccrueReserve, UpdateApyBps, DepositReserveLiquidity,
        RedeemReserveCollateral, allVars, yieldVars
  <2>. QED BY <1>0, <2>1 DEF Attributes
<1>3. CASE AccrueYield
  BY <1>1, <1>3 DEF AccrueYield
<1>4. ASSUME NEW p \in Participants, NEW n \in Amounts, Mint(p, n) PROVE Attributes
  <2>1. strategy' = SharesMinted(FreshStrategy, n)
    BY <1>4 DEF Mint
  <2>. QED BY <1>0, <1>1, <2>1, SharesMoveOnly
<1>5. ASSUME NEW n, NEW u, strategy' = SharesBurned(FreshStrategy, n, u) PROVE Attributes
  BY <1>0, <1>1, <1>5, SharesMoveOnly
<1>6. ASSUME NEW p \in Participants, NEW n \in Amounts, OptOutYield(p, n) PROVE Attributes
  <2>1. \E u : strategy' = SharesBurned(FreshStrategy, n, u)
    BY <1>6 DEF OptOutYield
  <2>. QED BY <1>5, <2>1
<1>7. ASSUME NEW p \in Participants, NEW n \in Amounts, NEW d \in Destinations,
             RequestWithdrawalYieldBearing(p, n, d)
      PROVE  Attributes
  BY <1>0, <1>7 DEF RequestWithdrawalYieldBearing, yieldVars, Attributes
<1>8. ASSUME NEW p \in Participants, ExecuteWithdrawalYieldBearing(p) PROVE Attributes
  <2>1. CASE ClearDrainedWithdrawal(p)
    BY <1>1, <2>1 DEF ClearDrainedWithdrawal
  <2>2. CASE CashWithdrawal(p)
    <3>1. \E n, u : strategy' = SharesBurned(FreshStrategy, n, u)
      BY <2>2 DEF CashWithdrawal
    <3>. QED BY <1>5, <3>1
  <2>. QED BY <1>8, <2>1, <2>2 DEF ExecuteWithdrawalYieldBearing
<1>9. ASSUME NEW n \in Amounts, ClaimProtocolYieldFee(n) PROVE Attributes
  <2>1. strategy' = [SharesBurned(FreshStrategy, 0, n)
                       EXCEPT !.protocol_owed_underlying = @ - n]
    BY <1>9 DEF ClaimProtocolYieldFee
  <2>2. strategy'.user_index = FreshStrategy.user_index
    BY <1>0, <2>1, SharesMoveOnly
  <2>. QED BY <1>0, <1>9, <2>2 DEF Attributes
<1>10. CASE WrapperNext
  BY <1>3, <1>4, <1>6, <1>7, <1>8, <1>9, <1>10
  DEF WrapperNext, DepositYieldBearing, OptInYield
<1>. QED BY <1>2, <1>10 DEF YieldNext

\* A wrapper share is never worth less than before, and only a claim by the
\* fee recipient lowers what is owed to the protocol, also when the reserve
\* loses value between two accruals.
THEOREM AttributedYield == YieldSpec => AttributedYieldIsKept
<1>1. WrapperInvariant /\ [YieldNext]_allVars => Attributes
  <2>1. WrapperInvariant => TypeOK /\ WrapperTypes
    BY YieldTypesByPart DEF WrapperInvariant
  <2>. QED BY <2>1, EveryStepAttributes
<1>. QED BY <1>1, WrapperInvariance, PTL DEF YieldSpec, AttributedYieldIsKept, Attributes

-----------------------------------------------------------------------------
(***************************************************************************)
(* Roundings do not add up.  Two facts carry the bound: a reserve share is *)
(* worth at least one token, and what is settled is covered by the share   *)
(* vault and one share more.                                               *)
(***************************************************************************)
AtPar(r) == r.total_underlying >= r.share_supply

\* v shares of r are worth what is settled, before any rounding.
Covered(settled, v, r) ==
  /\ r.total_underlying * v >= settled * r.share_supply
  /\ v = 0 => settled = 0

\* The same with one share more.
Backed(settled, v, r) ==
  /\ r.total_underlying * (v + 1) >= settled * r.share_supply
  /\ v = 0 => settled = 0

LEMMA DepositAtPar ==
  ASSUME NEW r \in ReserveState, NEW n \in Nat, AtPar(r)
  PROVE  AtPar(LiquidityDeposited(r, n))
<1>. DEFINE q == SharesFor(r, n)
<1>1. /\ LiquidityDeposited(r, n).share_supply = r.share_supply + q
      /\ LiquidityDeposited(r, n).total_underlying = r.total_underlying + n
  BY LiquidityDepositedType
<1>2. q \in Nat /\ r.total_underlying \in Nat /\ r.share_supply \in Nat
  BY SharesForType, ReserveTypes
<1>3. CASE r.share_supply = 0 \/ r.total_underlying = 0
  <2>1. q = n
    BY <1>3 DEF SharesFor
  <2>. HIDE DEF q
  <2>. QED BY <1>1, <1>2, <2>1 DEF AtPar
<1>4. CASE r.share_supply > 0 /\ r.total_underlying > 0
  <2>1. q = (n * r.share_supply) \div r.total_underlying
    BY <1>4 DEF SharesFor
  <2>2. n * r.share_supply \in Nat /\ r.total_underlying \in Nat \ {0}
    BY <1>2, <1>4, Product
  <2>. HIDE DEF q
  <2>3. r.total_underlying * q <= n * r.share_supply
    BY <2>1, <2>2, Quotient
  <2>4. r.total_underlying * n >= r.share_supply * n
    BY <1>2, Scales DEF AtPar
  <2>5. q <= n
    <3>1. ASSUME NEW T \in Nat \ {0}, NEW S \in Nat, NEW k \in Nat,
                 T * k <= n * S, T * n >= S * n
          PROVE  k <= n
      <4>1. n * T >= k * T
        BY <3>1
      <4>. QED BY <4>1, CancelFactor
    <3>. QED BY <1>2, <2>2, <2>3, <2>4, <3>1
  <2>. QED BY <1>1, <1>2, <2>5 DEF AtPar
<1>. QED BY <1>2, <1>3, <1>4

LEMMA RedemptionAtPar ==
  ASSUME NEW r \in ReserveState, NEW n \in Nat, CanRedeemPart(r, n), AtPar(r)
  PROVE  AtPar(RedeemPart(r, n))
<1>1. CASE n = 0
  BY <1>1 DEF RedeemPart
<1>2. CASE n > 0
  <2>. DEFINE u == UnderlyingFor(r, n)
  <2>1. CanRedeem(r, n) /\ RedeemPart(r, n) = Redeemed(r, n)
    BY <1>2 DEF CanRedeemPart, RedeemPart
  <2>2. /\ Redeemed(r, n).share_supply = r.share_supply - n
        /\ Redeemed(r, n).total_underlying = r.total_underlying - u
        /\ u \in Nat
    BY <2>1, RedeemedType
  <2>3. n <= r.share_supply /\ r.share_supply > 0
    BY <2>1 DEF CanRedeem
  <2>4. u = (n * r.total_underlying) \div r.share_supply
    BY DEF UnderlyingFor
  <2>. HIDE DEF u
  <2>5. /\ r.total_underlying \in Nat /\ r.share_supply \in Nat \ {0}
        /\ n * r.total_underlying \in Nat
    BY <2>3, ReserveTypes, Product
  <2>6. r.share_supply * u <= n * r.total_underlying
    BY <2>4, <2>5, Quotient
  <2>7. ASSUME NEW T \in Nat, NEW S \in Nat \ {0}, NEW k \in Nat,
               T >= S, n <= S, S * k <= n * T
        PROVE  T - k >= S - n
    <3>1. PICK d \in Nat : T = S + d
      BY <2>7, T = S + (T - S)
    <3>2. S * d >= n * d
      BY <2>7, Scales
    <3>3. n * T = n * S + n * d
      BY <3>1
    <3>4. (n + d) * S = n * S + S * d /\ k * S = S * k
      OBVIOUS
    <3>5. (n + d) * S >= k * S
      BY <2>7, <3>2, <3>3, <3>4, Product
    <3>6. n + d >= k
      BY <3>5, CancelFactor
    <3>. QED BY <3>1, <3>6
  <2>8. r.total_underlying - u >= r.share_supply - n
    BY <2>2, <2>3, <2>5, <2>6, <2>7 DEF AtPar
  <2>. QED BY <2>1, <2>2, <2>8 DEF AtPar
<1>. QED BY <1>1, <1>2

LEMMA StepsStayAtPar ==
  ASSUME TypeOK, WrapperTypes, [YieldNext]_allVars, AtPar(reserve)
  PROVE  AtPar(FreshReserve) /\ AtPar(reserve')
<1>1. FreshReserve \in ReserveState /\ reserve \in ReserveState /\ now \in Nat
  BY Fresh DEF WrapperTypes, TypeOK
<1>2. AtPar(FreshReserve)
  <2>1. /\ FreshReserve.share_supply = reserve.share_supply
        /\ FreshReserve.total_underlying >= reserve.total_underlying
    BY Fresh
  <2>. QED BY <1>1, <2>1, ReserveTypes DEF AtPar
<1>3. ReserveStep
  BY EveryReserveStep
<1>4. ASSUME NEW n \in Nat, Invests(n) PROVE AtPar(reserve')
  BY <1>1, <1>2, <1>4, DepositAtPar DEF Invests
<1>5. ASSUME NEW n \in Nat, NEW k \in Nat, Redeems(n, k) PROVE AtPar(reserve')
  <2>. DEFINE m == RedeemPart(FreshReserve, n)
  <2>1. /\ CanRedeemPart(FreshReserve, n) /\ CanRedeemPart(m, k)
        /\ reserve' = RedeemPart(m, k)
    BY <1>5 DEF Redeems
  <2>2. m \in ReserveState /\ AtPar(m)
    BY <1>1, <1>2, <2>1, RedemptionKeepsWorth, RedemptionAtPar
  <2>. HIDE DEF m
  <2>. QED BY <2>1, <2>2, RedemptionAtPar
<1>6. ASSUME NEW apy \in Apys, reserve' = UpdatedApy(reserve, apy, now)
      PROVE  AtPar(reserve')
  <2>1. apy \in 0 .. MaxApyBps
    BY YieldAssumption
  <2>2. /\ reserve'.share_supply = reserve.share_supply
        /\ reserve'.total_underlying = Accrued(reserve, now).total_underlying
    BY <1>1, <1>6, <2>1, UpdatedApyType
  <2>3. FreshReserve.share_supply = reserve.share_supply
    BY Fresh
  <2>. QED BY <1>2, <2>2, <2>3 DEF AtPar, FreshReserve
<1>. QED BY <1>2, <1>3, <1>4, <1>5, <1>6 DEF ReserveStep

LEMMA CoveredIsBacked ==
  ASSUME NEW r \in ReserveState, NEW settled \in Nat, NEW v \in Nat, Covered(settled, v, r)
  PROVE  Backed(settled, v, r)
<1>1. ASSUME NEW T \in Nat, NEW x \in Nat, T * v >= x
      PROVE  T * (v + 1) >= x
  <2>1. T * (v + 1) = T * v + T
    OBVIOUS
  <2>. QED BY <1>1, <2>1, Product
<1>2. r.total_underlying \in Nat /\ settled * r.share_supply \in Nat
  BY ReserveTypes, Product
<1>. QED BY <1>1, <1>2 DEF Covered, Backed

\* A gain of worth per share keeps the cover.
LEMMA StillBacked ==
  ASSUME NEW r \in ReserveState, NEW s \in ReserveState,
         NEW settled \in Nat, NEW v \in Nat, v <= r.share_supply,
         Backed(settled, v, r), WorthKept(r, s)
  PROVE  Backed(settled, v, s)
<1>1. /\ r.total_underlying \in Nat /\ r.share_supply \in Nat
      /\ s.total_underlying \in Nat /\ s.share_supply \in Nat
  BY ReserveTypes
<1>2. CASE v = 0
  <2>1. settled = 0
    BY <1>2 DEF Backed
  <2>. QED BY <1>1, <1>2, <2>1 DEF Backed
<1>3. CASE s.share_supply = 0
  <2>1. s.total_underlying * (v + 1) \in Nat
    BY <1>1, Product
  <2>2. settled * s.share_supply = 0
    BY <1>3
  <2>. QED BY <2>1, <2>2 DEF Backed
<1>4. CASE v # 0 /\ s.share_supply # 0
  <2>1. r.share_supply \in Nat \ {0} /\ v + 1 \in Nat
    BY <1>1, <1>4
  <2>2. /\ r.total_underlying * (v + 1) >= settled * r.share_supply
        /\ s.total_underlying * r.share_supply >= r.total_underlying * s.share_supply
    BY <1>1, <1>4, <2>1 DEF Backed, WorthKept
  <2>3. s.total_underlying * (v + 1) >= settled * s.share_supply
    BY <1>1, <2>1, <2>2, WorthTransitive
  <2>. QED BY <1>4, <2>3 DEF Backed
<1>. QED BY <1>2, <1>3, <1>4

\* The share vault covers what it is worth in whole tokens.
LEMMA WorthIsCovered ==
  ASSUME NEW r \in ReserveState, NEW v \in Nat, v <= r.share_supply
  PROVE  Covered(CusdcToUsdc(v, r), v, r)
<1>1. r.total_underlying \in Nat /\ r.share_supply \in Nat
  BY ReserveTypes
<1>2. CASE v = 0 \/ r.share_supply = 0
  <2>1. CusdcToUsdc(v, r) = 0
    BY <1>2 DEF CusdcToUsdc
  <2>2. r.total_underlying * v \in Nat
    BY <1>1, Product
  <2>. QED BY <1>1, <2>1, <2>2 DEF Covered
<1>3. CASE v # 0 /\ r.share_supply # 0
  <2>1. PICK worth : worth = (v * r.total_underlying) \div r.share_supply
    OBVIOUS
  <2>2. CusdcToUsdc(v, r) = worth
    BY <1>3, <2>1 DEF CusdcToUsdc
  <2>3. r.share_supply \in Nat \ {0} /\ v * r.total_underlying \in Nat
    BY <1>1, <1>3, Product
  <2>4. worth \in Nat /\ r.share_supply * worth <= v * r.total_underlying
    BY <2>1, <2>3, Quotient
  <2>5. r.total_underlying * v >= worth * r.share_supply
    BY <1>1, <2>4
  <2>. QED BY <1>3, <2>2, <2>5 DEF Covered
<1>. QED BY <1>2, <1>3

\* Shares given for an amount are worth no more than it.
LEMMA SharesAreWorthLess ==
  ASSUME NEW r \in ReserveState, NEW n \in Nat, CanUsdcToCusdc(n, r)
  PROVE  /\ UsdcToCusdc(n, r) \in Nat
         /\ UsdcToCusdc(n, r) * r.total_underlying <= n * r.share_supply
<1>1. r.total_underlying \in Nat /\ r.share_supply \in Nat
  BY ReserveTypes
<1>2. CASE n = 0
  <2>1. UsdcToCusdc(n, r) = 0
    BY <1>2 DEF UsdcToCusdc
  <2>. QED BY <1>1, <1>2, <2>1
<1>3. CASE n > 0
  <2>1. PICK shares : shares = (n * r.share_supply) \div r.total_underlying
    OBVIOUS
  <2>2. UsdcToCusdc(n, r) = shares
    BY <1>3, <2>1 DEF UsdcToCusdc
  <2>3. r.total_underlying \in Nat \ {0} /\ n * r.share_supply \in Nat
    BY <1>1, <1>3, Product DEF CanUsdcToCusdc
  <2>4. shares \in Nat /\ r.total_underlying * shares <= n * r.share_supply
    BY <2>1, <2>3, Quotient
  <2>5. shares * r.total_underlying = r.total_underlying * shares
    BY <1>1, <2>4
  <2>. QED BY <2>2, <2>4, <2>5
<1>. QED BY <1>2, <1>3

\* Paying out shares that are worth no more than what is taken off the books.
LEMMA PayingKeepsCover ==
  ASSUME NEW r \in ReserveState, NEW settled \in Nat, NEW v \in Nat, v <= r.share_supply,
         Covered(settled, v, r), NEW g \in Nat, NEW c \in Nat, c <= v,
         c * r.total_underlying <= g * r.share_supply
  PROVE  Covered(Greater(settled - g, 0), v - c, r)
<1>. DEFINE T == r.total_underlying
            S == r.share_supply
<1>1. T \in Nat /\ S \in Nat
  BY ReserveTypes
<1>2. T * v >= settled * S /\ c * T <= g * S
  BY DEF Covered
<1>3. v - c \in Nat /\ (v = 0 => settled = 0)
  BY DEF Covered
<1>. HIDE DEF T, S
<1>4. CASE settled <= g
  <2>1. Greater(settled - g, 0) = 0
    BY <1>4 DEF Greater
  <2>2. T * (v - c) \in Nat /\ 0 * S = 0
    BY <1>1, <1>3, Product
  <2>. QED BY <2>1, <2>2 DEF Covered, T, S
<1>5. CASE settled > g
  <2>1. Greater(settled - g, 0) = settled - g
    BY <1>5 DEF Greater
  <2>2. T * (v - c) = T * v - c * T
    BY <1>1
  <2>3. (settled - g) * S = settled * S - g * S
    BY <1>1
  <2>4. T * v \in Nat /\ c * T \in Nat /\ settled * S \in Nat /\ g * S \in Nat
    BY <1>1, Product
  <2>5. T * (v - c) >= (settled - g) * S
    BY <1>2, <2>2, <2>3, <2>4
  <2>6. v - c # 0
    <3>1. SUFFICES ASSUME v = c PROVE FALSE
      BY <1>3
    <3>2. v # 0
      BY <1>3, <1>5
    <3>3. S \in Nat \ {0}
      BY <1>1, <3>2 DEF S
    <3>4. (settled - g) * S >= 1 * S
      <4>1. settled - g \in Nat /\ settled - g >= 1
        BY <1>5
      <4>. QED BY <1>1, <4>1, Scales
    <3>5. T * (v - c) = 0
      BY <1>1, <3>1
    <3>6. (settled - g) * S \in Nat
      BY <1>1, <1>5, Product
    <3>. QED BY <2>5, <3>3, <3>4, <3>5, <3>6
  <2>. QED BY <2>1, <2>5, <2>6 DEF Covered, T, S
<1>. QED BY <1>4, <1>5

\* Paying out shares for what they are worth rounded down: what stays is short
\* of one share at most, since a share is worth at least a token.
LEMMA RoundedPayIsBacked ==
  ASSUME NEW r \in ReserveState, AtPar(r), NEW v \in Nat, v <= r.share_supply,
         NEW c \in Nat, c <= v, c > 0
  PROVE  Backed(Greater(CusdcToUsdc(v, r) - CusdcToUsdc(c, r), 0), v - c, r)
<1>. DEFINE T == r.total_underlying
            S == r.share_supply
<1>1. T \in Nat /\ S \in Nat \ {0} /\ T >= S
  BY ReserveTypes DEF AtPar
<1>2. PICK settled \in Nat, paid \in Nat :
        settled = CusdcToUsdc(v, r) /\ paid = CusdcToUsdc(c, r)
  BY ConversionTypes
<1>3. T * v >= settled * S
  BY <1>2, WorthIsCovered DEF Covered
<1>4. paid * S + S >= c * T + 1
  <2>1. paid = (c * T) \div S
    BY <1>1, <1>2 DEF CusdcToUsdc
  <2>2. c * T \in Nat
    BY <1>1, Product
  <2>. HIDE DEF T, S
  <2>3. c * T < S * paid + S
    BY <1>1, <2>1, <2>2, Quotient
  <2>4. S * paid = paid * S /\ paid * S \in Nat
    BY <1>1, Product
  <2>. QED BY <1>1, <2>2, <2>3, <2>4
<1>5. v - c \in Nat /\ v - c + 1 \in Nat
  OBVIOUS
<1>6. v - c = 0 => Greater(settled - paid, 0) = 0
  BY <1>2 DEF Greater
<1>. HIDE DEF T, S
<1>7. CASE settled <= paid
  <2>1. Greater(settled - paid, 0) = 0
    BY <1>7 DEF Greater
  <2>2. T * (v - c + 1) \in Nat /\ 0 * S = 0
    BY <1>1, <1>5, Product
  <2>. QED BY <1>2, <2>1, <2>2 DEF Backed, T, S
<1>8. CASE settled > paid
  <2>1. Greater(settled - paid, 0) = settled - paid
    BY <1>8 DEF Greater
  <2>2. T * (v - c + 1) = T * v - c * T + T
    BY <1>1
  <2>3. (settled - paid) * S = settled * S - paid * S
    BY <1>1
  <2>4. T * v \in Nat /\ c * T \in Nat /\ settled * S \in Nat /\ paid * S \in Nat
    BY <1>1, Product
  <2>5. T * (v - c + 1) >= (settled - paid) * S
    BY <1>1, <1>3, <1>4, <2>2, <2>3, <2>4
  <2>. QED BY <1>2, <1>6, <2>1, <2>5 DEF Backed, T, S
<1>. QED BY <1>7, <1>8

\* A deposit of n buys shares worth n rounded down: the books may count one
\* share's worth more than the vault holds.
LEMMA DepositIsBacked ==
  ASSUME NEW r \in ReserveState, AtPar(r), NEW settled \in Nat,
         NEW v \in Nat, v <= r.share_supply, Covered(settled, v, r),
         NEW n \in Nat, CanDepositLiquidity(r, n)
  PROVE  Backed(settled + n, v + SharesFor(r, n), LiquidityDeposited(r, n))
<1>. DEFINE T == r.total_underlying
            S == r.share_supply
            q == SharesFor(r, n)
<1>1. /\ LiquidityDeposited(r, n).share_supply = S + q
      /\ LiquidityDeposited(r, n).total_underlying = T + n
  BY LiquidityDepositedType
<1>2. T \in Nat /\ S \in Nat /\ T >= S /\ q \in Nat /\ q > 0
  BY ReserveTypes, SharesForType DEF AtPar, CanDepositLiquidity
<1>3. T * v >= settled * S /\ (v = 0 => settled = 0)
  BY DEF Covered
<1>4. v + q \in Nat /\ v + q # 0
  BY <1>2
<1>5. (T + n) * ((v + q) + 1) = T * v + T * q + T + n * v + n * q + n
  BY <1>2
<1>6. (settled + n) * (S + q) = settled * S + settled * q + n * S + n * q
  BY <1>2
<1>7. /\ T * v \in Nat /\ T * q \in Nat /\ n * v \in Nat /\ n * q \in Nat
      /\ settled * S \in Nat /\ settled * q \in Nat /\ n * S \in Nat
  BY <1>2, Product
<1>8. T * q + T + n * v + n >= n * S + settled * q
  <2>1. CASE S = 0
    <3>1. settled = 0
      BY <1>3, <2>1
    <3>2. n * S = 0 /\ settled * q = 0
      BY <1>2, <2>1, <3>1
    <3>. HIDE DEF T, S, q
    <3>. QED BY <1>2, <1>7, <3>2
  <2>2. CASE S > 0
    <3>1. T \in Nat \ {0} /\ S \in Nat \ {0}
      BY <1>2, <2>2
    <3>2. q = (n * S) \div T
      BY <3>1 DEF SharesFor
    <3>. HIDE DEF T, S, q
    <3>3. T * q <= n * S /\ n * S < T * q + T
      BY <1>7, <3>1, <3>2, Quotient
    <3>4. n * v >= settled * q
      BY <1>2, <1>3, <3>1, <3>3, WorthTransitive
    <3>. QED BY <1>2, <1>7, <3>3, <3>4
  <2>. QED BY <1>2, <2>1, <2>2
<1>9. (T + n) * ((v + q) + 1) >= (settled + n) * (S + q)
  <2>. HIDE DEF T, S, q
  <2>. QED BY <1>2, <1>3, <1>5, <1>6, <1>7, <1>8
<1>. QED BY <1>1, <1>4, <1>9 DEF Backed

\* What ShortfallIsOneReserveShare rests on: the books are backed up to one
\* share, and every handler that changes them ends by checking the owed against
\* them.
BooksAreBacked == Backed(strategy.last_settled_underlying, shareVault, reserve)
BooksCoverOwing == Owing(strategy) <= strategy.last_settled_underlying

WorthInvariant == AtPar(reserve) /\ BooksAreBacked /\ BooksCoverOwing

LEMMA WorthInit == YieldInit => WorthInvariant
<1>. SUFFICES ASSUME YieldInit PROVE WorthInvariant
  OBVIOUS
<1>1. strategy = InitialStrategy(YieldShareBps) /\ shareVault = 0
  BY DEF YieldInit
<1>2. PICK apy \in Apys : reserve = InitialReserve(apy, now, Buffer)
  BY DEF YieldInit
<1>3. reserve.total_underlying = 0 /\ reserve.share_supply = 0
  BY <1>2 DEF InitialReserve
<1>4. /\ strategy.last_settled_underlying = 0 /\ strategy.total_user_shares = 0
      /\ strategy.protocol_owed_underlying = 0 /\ strategy.user_index = IndexOne
  BY <1>1 DEF InitialStrategy
<1>5. Owing(strategy) = 0
  <2>1. (0 * IndexOne) \div IndexOne = 0
    <3>1. 0 * IndexOne = 0
      BY IndexOneType
    <3>2. 0 \div IndexOne \in Nat /\ IndexOne * (0 \div IndexOne) <= 0
      BY IndexOneType, Quotient
    <3>3. 0 \div IndexOne = 0
      <4>1. ASSUME NEW d \in Nat, NEW one \in Nat \ {0}, one * d <= 0
            PROVE  d = 0
        <5>. SUFFICES ASSUME d >= 1 PROVE FALSE
          OBVIOUS
        <5>1. d * one >= 1 * one
          BY Scales
        <5>. QED BY <4>1, <5>1
      <4>. QED BY <3>2, <4>1, IndexOneType
    <3>. QED BY <3>1, <3>3
  <2>. QED BY <1>4, <2>1 DEF Owing, UserOwed
<1>. QED BY <1>1, <1>3, <1>4, <1>5 DEF WorthInvariant, AtPar, BooksAreBacked, Backed, BooksCoverOwing

LEMMA StepsCoverOwing ==
  ASSUME TypeOK, WrapperTypes, [YieldNext]_allVars, WrapperTypes', BooksCoverOwing
  PROVE  BooksCoverOwing'
<1>1. CASE strategy' = strategy
  BY <1>1 DEF BooksCoverOwing
<1>2. ASSUME RequireSolvent(strategy', strategy'.last_settled_underlying) PROVE BooksCoverOwing'
  <2>1. PICK s : s = strategy'
    OBVIOUS
  <2>2. s \in Sound
    BY <2>1 DEF WrapperTypes
  <2>3. s.last_settled_underlying >= Owing(s)
    BY <1>2, <2>1 DEF RequireSolvent
  <2>4. Owing(s) <= s.last_settled_underlying
    BY <2>2, <2>3, StrategyTypes, UserValueTypes DEF Owing
  <2>. QED BY <2>1, <2>4 DEF BooksCoverOwing
<1>3. CASE CoreNext \/ ReserveNext \/ UNCHANGED allVars
  BY <1>1, <1>3
  DEF CoreNext, ReserveNext, AccrueReserve, UpdateApyBps, DepositReserveLiquidity,
      RedeemReserveCollateral, allVars, yieldVars
<1>4. ASSUME NEW p \in Participants, ClearDrainedWithdrawal(p) PROVE BooksCoverOwing'
  <2>1. /\ strategy' = FreshStrategy
        /\ RequireSolvent(strategy', CusdcToUsdc(shareVault, FreshReserve))
    BY <1>4 DEF ClearDrainedWithdrawal
  <2>2. FreshStrategy.last_settled_underlying = CusdcToUsdc(shareVault, FreshReserve)
    BY Fresh
  <2>. QED BY <1>2, <2>1, <2>2
<1>5. CASE WrapperNext
  BY <1>1, <1>2, <1>4, <1>5
  DEF WrapperNext, AccrueYield, DepositYieldBearing, OptInYield, Mint, OptOutYield,
      RequestWithdrawalYieldBearing, ExecuteWithdrawalYieldBearing, CashWithdrawal,
      ClaimProtocolYieldFee, EndsSolvent, yieldVars
<1>. QED BY <1>3, <1>5 DEF YieldNext

\* Shares paid out of the share vault, and the books lowered by what they were
\* given for.
LEMMA PayingStaysBacked ==
  ASSUME TypeOK, WrapperTypes, reserve' \in ReserveState, WorthKept(FreshReserve, reserve'),
         NEW g \in Nat, NEW c \in Nat, c <= shareVault,
         c * FreshReserve.total_underlying <= g * FreshReserve.share_supply,
         shareVault' = shareVault - c,
         strategy'.last_settled_underlying
           = Greater(FreshStrategy.last_settled_underlying - g, 0)
  PROVE  BooksAreBacked'
<1>1. /\ FreshReserve \in ReserveState
      /\ FreshStrategy.last_settled_underlying = CusdcToUsdc(shareVault, FreshReserve)
      /\ shareVault \in Nat /\ shareVault <= FreshReserve.share_supply
      /\ FreshReserve.share_supply \in Nat
  BY Fresh, ReserveTypes
<1>2. PICK settled \in Nat : settled = CusdcToUsdc(shareVault, FreshReserve)
  BY <1>1, ConversionTypes
<1>3. Covered(settled, shareVault, FreshReserve)
  BY <1>1, <1>2, WorthIsCovered
<1>4. PICK left \in Nat : left = Greater(settled - g, 0)
  <2>1. Greater(settled - g, 0) \in Nat
    BY DEF Greater
  <2>. QED BY <2>1
<1>5. shareVault - c \in Nat /\ shareVault - c <= FreshReserve.share_supply
  BY <1>1
<1>6. Covered(left, shareVault - c, FreshReserve)
  BY <1>1, <1>3, <1>4, PayingKeepsCover
<1>7. Backed(left, shareVault - c, FreshReserve)
  BY <1>1, <1>5, <1>6, CoveredIsBacked
<1>8. Backed(left, shareVault - c, reserve')
  BY <1>1, <1>5, <1>7, StillBacked
<1>. QED BY <1>1, <1>2, <1>4, <1>8 DEF BooksAreBacked

LEMMA StepsStayBacked ==
  ASSUME TypeOK, WrapperTypes, [YieldNext]_allVars, WrapperTypes', AtPar(reserve),
         BooksAreBacked
  PROVE  BooksAreBacked'
<1>0. /\ \A n \in Amounts : n \in Nat
      /\ FreshReserve \in ReserveState /\ FreshStrategy \in Sound
      /\ reserve' \in ReserveState /\ reserve \in ReserveState
      /\ shareVault \in Nat /\ shareVault <= FreshReserve.share_supply
      /\ shareVault <= reserve.share_supply
      /\ FreshReserve.share_supply \in Nat
      /\ FreshStrategy.last_settled_underlying = CusdcToUsdc(shareVault, FreshReserve)
      /\ strategy.last_settled_underlying \in Nat
      /\ AtPar(FreshReserve)
  <2>1. /\ FreshReserve \in ReserveState /\ FreshStrategy \in Sound
        /\ shareVault \in Nat /\ shareVault <= reserve.share_supply
        /\ FreshReserve.share_supply = reserve.share_supply
        /\ FreshStrategy.last_settled_underlying = CusdcToUsdc(shareVault, FreshReserve)
    BY Fresh
  <2>2. reserve' \in ReserveState /\ reserve \in ReserveState /\ strategy \in Sound
    BY DEF WrapperTypes
  <2>. QED BY <2>1, <2>2, AmountsAssumption, ReserveTypes, StrategyTypes, StepsStayAtPar
<1>1. CASE UNCHANGED <<strategy, shareVault>>
  <2>1. WorthKept(reserve, reserve')
    BY StepsKeepWorth
  <2>2. Backed(strategy.last_settled_underlying, shareVault, reserve')
    BY <1>0, <2>1, StillBacked DEF BooksAreBacked
  <2>. QED BY <1>1, <2>2 DEF BooksAreBacked
<1>2. CASE strategy' = FreshStrategy /\ reserve' = FreshReserve /\ shareVault' = shareVault
  <2>1. PICK settled \in Nat : settled = CusdcToUsdc(shareVault, FreshReserve)
    BY <1>0, ConversionTypes
  <2>2. Backed(settled, shareVault, FreshReserve)
    BY <1>0, <2>1, WorthIsCovered, CoveredIsBacked
  <2>. QED BY <1>0, <1>2, <2>1, <2>2 DEF BooksAreBacked
<1>3. ASSUME NEW p \in Participants, NEW n \in Amounts, Mint(p, n) PROVE BooksAreBacked'
  <2>1. /\ CanDepositLiquidity(FreshReserve, n)
        /\ reserve' = LiquidityDeposited(FreshReserve, n)
        /\ shareVault' = shareVault + SharesFor(FreshReserve, n)
        /\ strategy' = SharesMinted(FreshStrategy, n)
    BY <1>3 DEF Mint
  <2>2. PICK settled \in Nat : settled = CusdcToUsdc(shareVault, FreshReserve)
    BY <1>0, ConversionTypes
  <2>3. Covered(settled, shareVault, FreshReserve)
    BY <1>0, <2>2, WorthIsCovered
  <2>4. Backed(settled + n, shareVault + SharesFor(FreshReserve, n), reserve')
    BY <1>0, <2>1, <2>3, DepositIsBacked
  <2>5. strategy'.last_settled_underlying = settled + n
    <3>1. SharesMinted(FreshStrategy, n).last_settled_underlying
            = FreshStrategy.last_settled_underlying + n
      BY <1>0, SharesMintedType
    <3>. QED BY <1>0, <2>1, <2>2, <3>1
  <2>. QED BY <2>1, <2>4, <2>5 DEF BooksAreBacked
<1>4. ASSUME NEW p \in Participants, NEW n \in Amounts, OptOutYield(p, n) PROVE BooksAreBacked'
  <2>. DEFINE owed == SharesToUsdc(FreshStrategy, n)
              cusdc == UsdcToCusdc(owed, FreshReserve)
              received == CusdcToUsdc(cusdc, FreshReserve)
  <2>1. /\ CanUsdcToCusdc(owed, FreshReserve) /\ cusdc <= shareVault /\ cusdc > 0
        /\ CanRedeem(FreshReserve, cusdc) /\ reserve' = Redeemed(FreshReserve, cusdc)
        /\ n <= strategy.total_user_shares
        /\ shareVault' = shareVault - cusdc
        /\ strategy' = SharesBurned(FreshStrategy, n, received)
    BY <1>4 DEF OptOutYield
  <2>2. owed \in Nat
    BY <1>0, UserValueTypes
  <2>. HIDE DEF owed
  <2>3. cusdc \in Nat
    BY <1>0, <2>1, <2>2, ConversionTypes
  <2>. HIDE DEF cusdc
  <2>4. received \in Nat
    BY <1>0, <2>3, ConversionTypes
  <2>5. WorthKept(FreshReserve, reserve')
    <3>1. CanRedeemPart(FreshReserve, cusdc)
          /\ RedeemPart(FreshReserve, cusdc) = Redeemed(FreshReserve, cusdc)
      BY <2>1 DEF CanRedeemPart, RedeemPart
    <3>. QED BY <1>0, <2>1, <2>3, <3>1, RedemptionKeepsWorth
  <2>6. PICK left \in Nat : left = Greater(CusdcToUsdc(shareVault, FreshReserve) - received, 0)
    <3>1. CusdcToUsdc(shareVault, FreshReserve) \in Nat
      BY <1>0, ConversionTypes
    <3>. HIDE DEF received
    <3>2. Greater(CusdcToUsdc(shareVault, FreshReserve) - received, 0) \in Nat
      BY <2>4, <3>1 DEF Greater
    <3>. QED BY <3>2
  <2>7. Backed(left, shareVault - cusdc, FreshReserve)
    BY <1>0, <2>1, <2>3, <2>6, RoundedPayIsBacked
  <2>8. shareVault - cusdc \in Nat /\ shareVault - cusdc <= FreshReserve.share_supply
    BY <1>0, <2>1, <2>3
  <2>9. Backed(left, shareVault - cusdc, reserve')
    BY <1>0, <2>5, <2>7, <2>8, StillBacked
  <2>10. strategy'.last_settled_underlying = left
    <3>1. n <= FreshStrategy.total_user_shares
      BY <2>1, Fresh
    <3>. HIDE DEF received
    <3>. QED BY <1>0, <2>1, <2>4, <2>6, <3>1, SharesBurnedType
  <2>. QED BY <2>1, <2>9, <2>10 DEF BooksAreBacked
<1>5. ASSUME NEW p \in Participants, CashWithdrawal(p) PROVE BooksAreBacked'
  <2>. DEFINE shares == slot[<<p, Wrapper>>].withdrawing_balance
              gross == SharesToUsdc(FreshStrategy, shares)
              fee == WithdrawalFee(Wrapper, gross)
              cusdcNet == UsdcToCusdc(gross - fee, FreshReserve)
              cusdcFee == UsdcToCusdc(fee, FreshReserve)
  <2>1. /\ ScaledMinFee(Wrapper) \in 0 .. MaxU64
        /\ CanUsdcToCusdc(gross - fee, FreshReserve)
        /\ CanUsdcToCusdc(fee, FreshReserve)
        /\ cusdcNet + cusdcFee <= shareVault
        /\ CanRedeemPart(FreshReserve, cusdcNet)
        /\ CanRedeemPart(RedeemPart(FreshReserve, cusdcNet), cusdcFee)
        /\ shares <= strategy.total_user_shares
        /\ reserve' = RedeemPart(RedeemPart(FreshReserve, cusdcNet), cusdcFee)
        /\ shareVault' = shareVault - cusdcNet - cusdcFee
        /\ strategy' = SharesBurned(FreshStrategy, shares, gross)
    BY <1>5 DEF CashWithdrawal
  <2>2. shares \in Nat
    <3>1. <<p, Wrapper>> \in Accounts
      BY WrapperAccounts
    <3>2. slot[<<p, Wrapper>>] \in Entry
      BY <3>1 DEF TypeOK, Entry
    <3>. QED BY <3>2, EntryTypes
  <2>. HIDE DEF shares
  <2>3. gross \in Nat
    BY <1>0, <2>2, UserValueTypes
  <2>. HIDE DEF gross
  <2>4. fee \in Nat /\ gross - fee \in Nat
    BY <2>1, <2>3, FeeIsPart
  <2>. HIDE DEF fee
  <2>5. /\ cusdcNet \in Nat /\ cusdcFee \in Nat
        /\ cusdcNet * FreshReserve.total_underlying
             <= (gross - fee) * FreshReserve.share_supply
        /\ cusdcFee * FreshReserve.total_underlying <= fee * FreshReserve.share_supply
    BY <1>0, <2>1, <2>4, SharesAreWorthLess
  <2>. HIDE DEF cusdcNet, cusdcFee
  <2>6. cusdcNet + cusdcFee \in Nat
        /\ (cusdcNet + cusdcFee) * FreshReserve.total_underlying
             <= gross * FreshReserve.share_supply
    <3>1. ASSUME NEW T \in Nat, NEW S \in Nat, NEW a \in Nat, NEW b \in Nat,
                 NEW x \in Nat, NEW f \in Nat, x - f \in Nat,
                 a * T <= (x - f) * S, b * T <= f * S
          PROVE  (a + b) * T <= x * S
      <4>1. (a + b) * T = a * T + b * T /\ (x - f) * S = x * S - f * S
        OBVIOUS
      <4>2. a * T \in Nat /\ b * T \in Nat /\ x * S \in Nat /\ f * S \in Nat
        BY Product
      <4>. QED BY <3>1, <4>1, <4>2
    <3>2. FreshReserve.total_underlying \in Nat
      BY <1>0, ReserveTypes
    <3>. QED BY <1>0, <2>3, <2>4, <2>5, <3>1, <3>2
  <2>7. WorthKept(FreshReserve, reserve')
    <3>1. cusdcNet + cusdcFee <= FreshReserve.share_supply
      BY <1>0, <2>1, <2>5
    <3>. QED BY <1>0, <2>1, <2>5, <3>1, RedemptionsKeepWorth
  <2>8. strategy'.last_settled_underlying
          = Greater(FreshStrategy.last_settled_underlying - gross, 0)
    <3>1. shares <= FreshStrategy.total_user_shares
      BY <2>1, Fresh
    <3>. QED BY <1>0, <2>1, <2>2, <2>3, <3>1, SharesBurnedType
  <2>9. shareVault' = shareVault - (cusdcNet + cusdcFee)
    BY <1>0, <2>1, <2>5
  <2>. QED BY <1>0, <2>1, <2>3, <2>6, <2>7, <2>8, <2>9, PayingStaysBacked
<1>6. ASSUME NEW n \in Amounts, ClaimProtocolYieldFee(n) PROVE BooksAreBacked'
  <2>. DEFINE cusdc == UsdcToCusdc(n, FreshReserve)
              burned == SharesBurned(FreshStrategy, 0, n)
  <2>1. /\ CanUsdcToCusdc(n, FreshReserve) /\ cusdc <= shareVault
        /\ CanRedeem(FreshReserve, cusdc) /\ reserve' = Redeemed(FreshReserve, cusdc)
        /\ shareVault' = shareVault - cusdc
        /\ strategy' = [burned EXCEPT !.protocol_owed_underlying = @ - n]
    BY <1>6, Zenon DEF ClaimProtocolYieldFee
  <2>2. /\ cusdc \in Nat
        /\ cusdc * FreshReserve.total_underlying <= n * FreshReserve.share_supply
    BY <1>0, <2>1, SharesAreWorthLess
  <2>. HIDE DEF cusdc
  <2>3. WorthKept(FreshReserve, reserve')
    <3>1. CanRedeemPart(FreshReserve, cusdc)
          /\ RedeemPart(FreshReserve, cusdc) = Redeemed(FreshReserve, cusdc)
      BY <2>1 DEF CanRedeemPart, RedeemPart, CanRedeem
    <3>. QED BY <1>0, <2>1, <2>2, <3>1, RedemptionKeepsWorth
  <2>4. strategy'.last_settled_underlying
          = Greater(FreshStrategy.last_settled_underlying - n, 0)
    <3>1. /\ burned \in StrategyState
          /\ burned.last_settled_underlying
               = Greater(FreshStrategy.last_settled_underlying - n, 0)
      <4>1. 0 <= FreshStrategy.total_user_shares /\ 0 \in Nat
        BY <1>0, StrategyTypes
      <4>. QED BY <1>0, <4>1, SharesBurnedType, StrategyTypes
    <3>. HIDE DEF burned
    <3>. QED BY <2>1, <3>1, Zenon DEF StrategyState
  <2>. QED BY <1>0, <1>6, <2>1, <2>2, <2>3, <2>4, PayingStaysBacked
<1>7. CASE CoreNext \/ ReserveNext \/ UNCHANGED allVars
  BY <1>1, <1>7
  DEF CoreNext, ReserveNext, AccrueReserve, UpdateApyBps, DepositReserveLiquidity,
      RedeemReserveCollateral, allVars, yieldVars
<1>8. CASE WrapperNext
  BY <1>1, <1>2, <1>3, <1>4, <1>5, <1>6, <1>8
  DEF WrapperNext, AccrueYield, DepositYieldBearing, OptInYield,
      RequestWithdrawalYieldBearing, ExecuteWithdrawalYieldBearing, ClearDrainedWithdrawal,
      yieldVars
<1>. QED BY <1>7, <1>8 DEF YieldNext

LEMMA WorthStep ==
  ASSUME WrapperInvariant, WrapperInvariant', WorthInvariant, [YieldNext]_allVars
  PROVE  WorthInvariant'
<1>1. TypeOK /\ WrapperTypes /\ WrapperTypes'
  BY YieldTypesByPart, Zenon DEF WrapperInvariant, YieldTypeOK, WrapperTypes, Sound
<1>2. AtPar(reserve')
  BY <1>1, StepsStayAtPar DEF WorthInvariant
<1>3. BooksAreBacked'
  BY <1>1, StepsStayBacked DEF WorthInvariant
<1>4. BooksCoverOwing'
  BY <1>1, StepsCoverOwing DEF WorthInvariant
<1>. QED BY <1>2, <1>3, <1>4 DEF WorthInvariant

\* From the books' cover to whole tokens: two quotients rounded apart.
LEMMA ShortfallBound ==
  ASSUME WrapperTypes, WorthInvariant
  PROVE  ShortfallIsOneReserveShare
<1>. DEFINE T == reserve.total_underlying
            S == reserve.share_supply
            settled == strategy.last_settled_underlying
<1>1. /\ reserve \in ReserveState /\ strategy \in Sound
      /\ T \in Nat /\ S \in Nat /\ settled \in Nat
      /\ shareVault \in Nat /\ shareVault <= S
  <2>1. reserve \in ReserveState /\ strategy \in Sound
    BY DEF WrapperTypes
  <2>. QED BY <2>1, ReserveTypes, StrategyTypes DEF WrapperTypes
<1>2. /\ T * (shareVault + 1) >= settled * S
      /\ shareVault = 0 => settled = 0
      /\ T >= S
  BY DEF WorthInvariant, BooksAreBacked, Backed, AtPar
<1>3. PICK owing \in Nat : owing = Owing(strategy)
  <2>1. Owing(strategy) \in Nat
    BY <1>1, UserValueTypes, StrategyTypes DEF Owing
  <2>. QED BY <2>1
<1>4. owing <= settled
  BY <1>3 DEF WorthInvariant, BooksCoverOwing
<1>5. CASE S = 0
  <2>1. settled = 0
    BY <1>1, <1>2, <1>5
  <2>. HIDE DEF settled
  <2>2. owing = 0
    BY <1>4, <2>1
  <2>. QED BY <1>3, <1>5, <2>2 DEF ShortfallIsOneReserveShare
<1>6. CASE S # 0
  <2>1. ShareVaultValue \in Nat /\ S * ShareVaultValue + S >= shareVault * T + 1
    <3>1. CASE shareVault = 0
      <4>1. ShareVaultValue = 0
        BY <3>1 DEF ShareVaultValue, CusdcToUsdc
      <4>. HIDE DEF S, T
      <4>. QED BY <1>1, <1>6, <3>1, <4>1
    <3>2. CASE shareVault # 0
      <4>1. ShareVaultValue = (shareVault * T) \div S
        BY <1>6, <3>2 DEF ShareVaultValue, CusdcToUsdc
      <4>. HIDE DEF S, T
      <4>2. shareVault * T \in Nat /\ S \in Nat \ {0}
        BY <1>1, <1>6, Product
      <4>3. ShareVaultValue \in Nat /\ shareVault * T < S * ShareVaultValue + S
        BY <4>1, <4>2, Quotient
      <4>4. S * ShareVaultValue \in Nat
        BY <1>1, <4>3, Product
      <4>. QED BY <1>1, <4>2, <4>3, <4>4
    <3>. QED BY <3>1, <3>2
  <2>2. OneReserveShare \in Nat /\ S * OneReserveShare >= T
    <3>1. OneReserveShare = (T + S - 1) \div S
      BY DEF OneReserveShare
    <3>. HIDE DEF S, T
    <3>2. T + S - 1 \in Nat /\ S \in Nat \ {0}
      BY <1>1, <1>6
    <3>3. OneReserveShare \in Nat /\ T + S - 1 < S * OneReserveShare + S
      BY <3>1, <3>2, Quotient
    <3>4. S * OneReserveShare \in Nat
      BY <1>1, <3>3, Product
    <3>. QED BY <1>1, <3>3, <3>4
  <2>. HIDE DEF S, T, settled
  <2>3. ASSUME NEW x \in Nat, NEW y \in Nat, NEW one \in Nat, NEW v \in Nat,
               NEW base \in Nat \ {0}, NEW total \in Nat,
               total * (v + 1) >= x * base,
               base * y + base >= v * total + 1, base * one >= total
        PROVE  x <= y + one
    <3>. SUFFICES ASSUME x >= y + one + 1 PROVE FALSE
      OBVIOUS
    <3>1. x * base >= (y + one + 1) * base
      BY Scales
    <3>2. /\ (y + one + 1) * base = base * y + base * one + base
          /\ total * (v + 1) = v * total + total
      OBVIOUS
    <3>3. /\ base * y \in Nat /\ base * one \in Nat /\ v * total \in Nat /\ x * base \in Nat
          /\ total * (v + 1) \in Nat /\ (y + one + 1) * base \in Nat
      BY Product
    <3>. QED BY <2>3, <3>1, <3>2, <3>3
  <2>4. settled <= ShareVaultValue + OneReserveShare
    <3>1. S \in Nat \ {0}
      BY <1>1, <1>6
    <3>. QED BY <1>1, <1>2, <2>1, <2>2, <2>3, <3>1
  <2>5. owing <= ShareVaultValue + OneReserveShare
    BY <1>1, <1>4, <2>1, <2>2, <2>4
  <2>. QED BY <1>3, <1>6, <2>5 DEF ShortfallIsOneReserveShare, S
<1>. QED BY <1>5, <1>6

\* However often the four conversions round, and whoever else moves the
\* reserve, what is owed to users and to the protocol exceeds the worth of the
\* share vault by at most the worth of one reserve share: the next refresh books
\* the loss of a deposit or an opt-out before another can be added to it.
THEOREM ShortfallBounded == YieldSpec => []ShortfallIsOneReserveShare
<1>1. YieldSpec => []WorthInvariant
  <2>1. WrapperInvariant /\ WrapperInvariant' /\ WorthInvariant /\ [YieldNext]_allVars
          => WorthInvariant'
    BY WorthStep
  <2>. QED BY WorthInit, <2>1, WrapperInvariance, PTL DEF YieldSpec
<1>2. WrapperInvariant /\ WorthInvariant => ShortfallIsOneReserveShare
  BY ShortfallBound, YieldTypesByPart DEF WrapperInvariant
<1>. QED BY <1>1, <1>2, WrapperInvariance, PTL
=============================================================================
