----------------------------- MODULE Positions ------------------------------
(***************************************************************************)
(* How far a backfill has come.  Ceph copies a PG's objects in the order of  *)
(* their hashes' bits reversed, and tells of each target the position it has *)
(* reached in that order; the share of the PG's range of keys that is behind *)
(* the position is the progress.  A hash has so many bits, 32 in Ceph; a     *)
(* position is a key, Start or End; and a share is in units of 1/End.        *)
(***************************************************************************)
EXTENDS Integers, FiniteSets, FiniteSetsExt

CONSTANTS
  Width,    \* bits of a hash
  PgNum     \* the pool's pg_num

ASSUME PositionsTyped ==
  /\ Width \in Nat \ {0}
  /\ PgNum \in 1..(2 ^ Width)

-----------------------------------------------------------------------------
(* Of a pool with any pg_num, and hashes of any width.                      *)

Start == -1
End(width) == 2 ^ width

Unknown == -1

Reversed(x, bits) ==
  MapThenSumSet(LAMBDA i : ((x \div 2 ^ i) % 2) * 2 ^ (bits - 1 - i), 0..(bits - 1))

BitLength(x) == CHOOSE n \in 0..x : x < 2 ^ n /\ (n = 0 \/ x >= 2 ^ (n - 1))

\* How many low bits of the hash are the same in all of a PG.
PgHashBits(pgNum, seed) ==
  LET n == BitLength(pgNum - 1)
  IN  IF n > 0 /\ seed < 2 ^ (n - 1) /\ seed + 2 ^ (n - 1) >= pgNum THEN n - 1 ELSE n

\* backfill_fraction, and target_progress_pct: of a position and a PG's number.
Fractions(width, pgNum) ==
  [x \in (Start..End(width)) \X (0..(pgNum - 1)) |->
     LET position == x[1]
         seed == x[2]
         bits == PgHashBits(pgNum, seed)
         span == 2 ^ (width - bits)
         low == Reversed(position \div span, bits)
     IN  CASE position = Start -> 0
           [] position = End(width) -> End(width)
           [] position \notin {Start, End(width)} /\ low # seed % 2 ^ bits -> Unknown
           [] OTHER -> (position % span) * 2 ^ bits]

\* Ceph (external): ceph_stable_mod.
PgOf(pgNum, hash) ==
  LET n == BitLength(pgNum - 1)
  IN  IF hash % 2 ^ n < pgNum THEN hash % 2 ^ n ELSE hash % 2 ^ (n - 1)

\* Ceph (external): a PG has an object for each of its hashes.
Keys(width, pgNum) ==
  [seed \in 0..(pgNum - 1) |->
     {Reversed(h, width) : h \in {x \in 0..(2 ^ width - 1) : PgOf(pgNum, x) = seed}}]

\* Ceph (external): where a backfill stands that has copied k of a PG's objects.
PositionsAfter(width, pgNum) ==
  LET all == Keys(width, pgNum)
  IN  [seed \in 0..(pgNum - 1) |->
         LET keys == all[seed]
         IN  [k \in 0..Cardinality(keys) |->
                CASE k = 0 -> Start
                  [] k = Cardinality(keys) -> End(width)
                  [] OTHER -> CHOOSE key \in keys : Cardinality({x \in keys : x < key}) = k]]

\* What backfill_fraction is for: however far a backfill is, the fraction of its position is
\* the share of the PG's objects that it has copied.
SharesAreExact(width, pgNum) ==
  LET fraction == Fractions(width, pgNum)
      position == PositionsAfter(width, pgNum)
      keys == Keys(width, pgNum)
  IN  \A seed \in 0..(pgNum - 1) :
        LET objects == Cardinality(keys[seed])
            each == End(width) \div objects
        IN  /\ objects \in Nat /\ each \in Nat
            /\ \A k \in 0..objects : fraction[<<position[seed][k], seed>>] = k * each

-----------------------------------------------------------------------------
(* Of this pool.                                                            *)

Seeds == 0..(PgNum - 1)

Full == End(Width)

Fraction == Fractions(Width, PgNum)

Objects == [seed \in Seeds |-> Cardinality(Keys(Width, PgNum)[seed])]

PositionAfter == PositionsAfter(Width, PgNum)

FractionIsShare == SharesAreExact(Width, PgNum)
=============================================================================
