------------------------------- MODULE Amounts -------------------------------
(***************************************************************************)
(* Money as scripts/src/lib/amounts.mjs handles it: decimal strings from   *)
(* the backend, turned into whole atomic units, exactly or not at all.  A  *)
(* decimal is the digits before and after its point; signs, exponents and  *)
(* other text are refused before (BAD_AMOUNT) and left out.                *)
(***************************************************************************)
EXTENDS Integers, SequencesExt

CONSTANTS
  Digits,     \* bound: the digits that occur
  MaxDigits,  \* bound: digits before the point, and after it
  Scales      \* bound: decimals a token may have

ASSUME AmountsAssumption == Digits \subseteq 0..9 /\ MaxDigits \in Nat /\ Scales \subseteq Nat

VARIABLE
  bill  \* what a payment asks for and has received, and the token's decimals

Decimals ==
  {d \in [whole : SeqOf(Digits, MaxDigits), frac : SeqOf(Digits, MaxDigits)] : d.whole # <<>>}

Refused == -1

(* What is read of a string of digits after each of them, from "start" on. *)
Reading(start, digits) ==
  LET read[i \in 0..Len(digits)] ==
        IF i = 0 THEN start ELSE 10 * read[i - 1] + digits[i]
  IN  read

(* BigInt of a string of digits. *)
Numeral(digits) == Reading(0, digits)[Len(digits)]

Zeros(n) == [i \in 1..n |-> 0]

(* Mutant: the fraction is not filled up to the token's decimals. *)
ToAtomicUnpadded(d, decimals) ==
  IF \E i \in decimals + 1..Len(d.frac) : d.frac[i] # 0 THEN Refused
  ELSE Numeral(d.whole \o SubSeq(d.frac, 1, IF Len(d.frac) < decimals THEN Len(d.frac) ELSE decimals))

(* Mutant: digits beyond the token's decimals are cut off. *)
ToAtomicCut(d, decimals) == Numeral(d.whole \o SubSeq(d.frac \o Zeros(decimals), 1, decimals))

(* toAtomic: zeros beyond the token's decimals are dropped, anything else  *)
(* there is refused (AMOUNT_PRECISION).                                    *)
ToAtomic(d, decimals) ==
  IF \E i \in decimals + 1..Len(d.frac) : d.frac[i] # 0 THEN Refused
  ELSE Numeral(d.whole \o SubSeq(d.frac \o Zeros(decimals), 1, decimals))

(* comparePayment.  An amount that does not convert is an error of the     *)
(* whole comparison.                                                       *)
ComparePayment(expected, received, decimals) ==
  LET e == ToAtomic(expected, decimals)
      r == ToAtomic(received, decimals)
  IN  CASE e = Refused \/ r = Refused -> "error"
        [] e # Refused /\ r = 0       -> "none"
        [] e # Refused /\ r > 0       -> IF r = e THEN "exact"
                                         ELSE IF r < e THEN "underpaid" ELSE "overpaid"

InitAmounts == bill \in [amount : Decimals, received : Decimals, decimals : Scales]

------------------------------------------------------------------------------
(* The reference: a decimal as the number Digitwise(d) / TenTo(Len(frac)), *)
(* two of which are compared by bringing them to one denominator.          *)
TenTo(n)     == Reading(1, Zeros(n))[n]
Digitwise(d) == Numeral(d.whole \o d.frac)
Over(d, e)   == Digitwise(d) * TenTo(Len(e.frac))

(* An amount converts to the units it is worth, to the last one, and is    *)
(* refused exactly when it is no whole number of them (toAtomic: "silently *)
(* truncating money is how under-payments get mislabelled as exact").      *)
AtomicExact ==
  LET d     == bill.amount
      units == Digitwise(d) * TenTo(bill.decimals)
      one   == TenTo(Len(d.frac))
      value == ToAtomic(d, bill.decimals)
  IN  IF units % one = 0 THEN value * one = units ELSE value = Refused

(* A payment is called exact, short or over by what the two amounts are    *)
(* worth, however they are written, and never from a rounded one.          *)
ComparedExactly ==
  LET e     == Over(bill.amount, bill.received)
      r     == Over(bill.received, bill.amount)
      state == ComparePayment(bill.amount, bill.received, bill.decimals)
  IN  /\ state = "exact"     => r = e
      /\ state = "underpaid" => r < e
      /\ state = "overpaid"  => r > e
      /\ state = "none"      => r = 0
      /\ state = "error"     => ToAtomic(bill.amount, bill.decimals) = Refused
                                \/ ToAtomic(bill.received, bill.decimals) = Refused
==============================================================================
