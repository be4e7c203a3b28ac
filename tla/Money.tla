-------------------------------- MODULE Money --------------------------------
(***************************************************************************)
(* The arithmetic of the prepaid wallet (becca/services/wallet.py), in     *)
(* whole cents: a rate is cents per minute (numeric(.., 2) in the table),  *)
(* a duration is seconds. Decimal's ROUND_HALF_UP of r * d / 60 is         *)
(* floor(r * d / 60 + 1 / 2).                                              *)
(***************************************************************************)
EXTENDS Integers

\* call_charge: half-up to the cent, and nothing for no seconds.
CallCharge(d, r) == IF d > 0 THEN (2 * (r * d) + 60) \div 120 ELSE 0

\* per_call_reserve: the hold of one call in flight.
PerCallReserve(r, minutes) == r * minutes

\* billed_minutes: started minutes, for display only, never the price.
BilledMinutes(d) == IF d > 0 THEN (d + 59) \div 60 ELSE 0
=============================================================================
