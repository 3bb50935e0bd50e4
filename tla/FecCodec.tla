------------------------------ MODULE FecCodec ------------------------------
(***************************************************************************)
(* The erasure code (internal/packet/fec.go): a Cauchy matrix over         *)
(* GF(2^8), k parity shards for n data shards.  The code works byte by     *)
(* byte, so a shard is one byte here.  Slots 0 .. n-1 are data, n ..       *)
(* n+k-1 parity.                                                           *)
(***************************************************************************)
EXTENDS Integers, Sequences, FiniteSets, SequencesExt, FiniteSetsExt, Functions, Bitwise

\* One round of init's loop: x <<= 1, reduced by the polynomial 0x11d.
Double(x) == IF x < 128 THEN 2 * x ELSE (2 * x - 256) ^^ 29

gfPowers == FoldLeft(LAMBDA s, i : Append(s, Double(Last(s))), <<1>>, [i \in 1 .. 254 |-> i])
gfExp == [i \in 0 .. 511 |-> gfPowers[(i % 255) + 1]]
gfLog == [x \in 0 .. 255 |-> IF x = 0 THEN 0 ELSE CHOOSE i \in 0 .. 254 : gfExp[i] = x]

gfMul(a, b) == IF a = 0 \/ b = 0 THEN 0 ELSE gfExp[gfLog[a] + gfLog[b]]
gdiv(a, b) == IF a = 0 THEN 0 ELSE gfExp[gfLog[a] - gfLog[b] + 255]

\* A row applied to a column of values (the loops around gfMulAddRow).
gfDot(row, vals) ==
  FoldFunction(LAMBDA x, y : x ^^ y, 0, [j \in DOMAIN row |-> gfMul(row[j], vals[j])])

\* Mutant of newFECCodec: the parity rows are counted from 0, not from n.
newFECCodecFromZero(n, k) == [i \in 0 .. k - 1 |-> [j \in 0 .. n - 1 |-> gdiv(1, i ^^ j)]]

\* newFECCodec: the parity rows 1 / (x_i - y_j).
newFECCodec(n, k) == [i \in 0 .. k - 1 |-> [j \in 0 .. n - 1 |-> gdiv(1, (n + i) ^^ j)]]

Encode(n, k, data) == [i \in 0 .. k - 1 |-> gfDot(newFECCodec(n, k)[i], data)]

\* What gfInvert and Reconstruct give when there is no inverse.
Singular == <<>>

\* The row exchanges, the division by the pivot and the elimination of one column.
EliminateColumn(a, col) ==
  LET rows == DOMAIN a
      usable == {r \in rows : r >= col /\ a[r][col] # 0}
  IN IF usable = {} THEN Singular
     ELSE LET sw == Min(usable)
              b == [a EXCEPT ![col] = a[sw], ![sw] = a[col]]
              p == [x \in DOMAIN b[col] |-> gdiv(b[col][x], b[col][col])]
          IN [r \in rows |-> IF r = col THEN p
                             ELSE [x \in DOMAIN p |-> b[r][x] ^^ gfMul(b[r][col], p[x])]]

gfInvert(m) ==
  LET n == Cardinality(DOMAIN m)
      a == [i \in DOMAIN m |-> [x \in 0 .. 2 * n - 1 |-> IF x < n THEN m[i][x]
                                                       ELSE IF x = n + i THEN 1 ELSE 0]]
      e == FoldLeft(LAMBDA t, c : IF t = Singular THEN t ELSE EliminateColumn(t, c - 1),
                    a, [c \in 1 .. n |-> c])
  IN IF e = Singular THEN Singular ELSE [i \in DOMAIN m |-> [x \in 0 .. n - 1 |-> e[i][n + x]]]

\* Reconstruct: shards is a function from the slots that are present; the first n of them
\* give the rows.
Reconstruct(n, k, shards) ==
  LET slots == SetToSortSeq(DOMAIN shards, LAMBDA x, y : x < y)
      rows == [i \in 0 .. n - 1 |->
                 LET s == slots[i + 1]
                 IN IF s < n THEN [j \in 0 .. n - 1 |-> IF j = s THEN 1 ELSE 0]
                    ELSE newFECCodec(n, k)[s - n]]
      vals == [i \in 0 .. n - 1 |-> shards[slots[i + 1]]]
      inv == gfInvert(rows)
      full == [r \in 0 .. n - 1 |-> IF r \in DOMAIN shards THEN shards[r] ELSE gfDot(inv[r], vals)]
  IN IF 0 .. n - 1 \subseteq DOMAIN shards THEN [r \in 0 .. n - 1 |-> shards[r]]
     ELSE IF inv = Singular THEN Singular ELSE full
=============================================================================
