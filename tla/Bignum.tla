------------------------------- MODULE Bignum -------------------------------
(***************************************************************************)
(* The arithmetic of sshbn.c, with words of WordBits bits (of two bytes,   *)
(* as there).  A Bignum is the sequence of its words, least significant    *)
(* first; the work arrays are most significant first.  Double words wrap,  *)
(* as BignumDblInt and unsigned int do.                                    *)
(***************************************************************************)
EXTENDS Integers, SequencesExt

CONSTANTS
    WordBits,    \* BIGNUM_INT_BITS, a power of two
    Numbers,     \* operands of the operations with one or two
    Factors, Mods, Exps  \* operands of those with a modulus

VARIABLES
    operands,    \* of the last operation
    result       \* and what it gave: op, r, and n if it had a small number too

nvars == <<operands, result>>

Base == 2 ^ WordBits
Dbl == Base * Base
ByteBits == WordBits \div 2
ByteBase == 2 ^ ByteBits
Zeros(n) == [i \in 1..n |-> 0]
Greatest(a, b) == IF a > b THEN a ELSE b
Least(a, b) == IF a < b THEN a ELSE b

\* bn_restore_invariant, and the loops that do the same.
RECURSIVE Trim(_)
Trim(bn) == IF Len(bn) > 1 /\ Last(bn) = 0 THEN Trim(Front(bn)) ELSE bn
\* Up to the last word that is not zero (maxspot).
RECURSIVE ToMaxspot(_)
ToMaxspot(bn) == IF bn # <<>> /\ Last(bn) = 0 THEN ToMaxspot(Front(bn)) ELSE bn

Word(bn, i) == IF i \in DOMAIN bn THEN bn[i] ELSE 0
\* The big-endian copy of bn in len words.
Spread(bn, len) == [i \in 1..len |-> Word(bn, len + 1 - i)]

-----------------------------------------------------------------------------
(***************************************************************************)
(* internal_mul, internal_mod.                                             *)
(***************************************************************************)
RECURSIVE MulRow(_, _, _, _, _, _)
MulRow(c, ai, b, i, j, carry) ==
    LET t == (carry + ai * b[j] + c[i + j]) % Dbl
    IN  IF j = 0 THEN [c EXCEPT ![i] = carry]
        ELSE MulRow([c EXCEPT ![i + j] = t % Base], ai, b, i, j - 1, t \div Base)
RECURSIVE MulRows(_, _, _, _)
MulRows(c, a, b, i) == IF i = 0 THEN c ELSE MulRows(MulRow(c, a[i], b, i, Len(b), 0), a, b, i - 1)
InternalMul(a, b) == MulRows(Zeros(2 * Len(a)), a, b, Len(a))

\* internal_add_shifted: the carry ends before the end of the number.
RECURSIVE AddAt(_, _, _)
AddAt(number, addend, word) ==
    IF addend = 0 THEN number
    ELSE LET t == addend + number[word]
         IN  AddAt([number EXCEPT ![word] = t % Base], t \div Base, word + 1)
AddShifted(number, n, shift) ==
    AddAt(number, (n * 2 ^ (shift % WordBits)) % Dbl, 1 + shift \div WordBits)

\* Mutant: the estimate is not refined.
EstimateOnce(h, ai, next, m0, m1) == (h * Base + ai) \div m0
\* The estimate of a digit of the quotient, refined twice by the second word of the modulus.
Estimate(h, ai, next, m0, m1) ==
    LET q == (h * Base + ai) \div m0
        r == (h * Base + ai) % m0
        t == (m1 * q) % Dbl
        again == (r + m0) % Base
    IN  IF t <= r * Base + next THEN q
        ELSE IF again >= m0 /\ t - m1 > again * Base + next THEN q - 2
        ELSE q - 1

\* q * m is taken from a, from word i on: the array and the carry.
RECURSIVE SubRow(_, _, _, _, _, _)
SubRow(a, q, m, i, k, carry) ==
    LET t == (q * m[k] + carry) % Dbl
        at == i + k - 1
        c == t \div Base + IF t % Base > a[at] THEN 1 ELSE 0
    IN  IF k = 0 THEN [a |-> a, carry |-> carry]
        ELSE SubRow([a EXCEPT ![at] = (@ - t) % Base], q, m, i, k - 1, c)
RECURSIVE AddRow(_, _, _, _, _)
AddRow(a, m, i, k, carry) ==
    LET t == carry + m[k] + a[i + k - 1]
    IN  IF k = 0 THEN a ELSE AddRow([a EXCEPT ![i + k - 1] = t % Base], m, i, k - 1, t \div Base)

\* One digit, at word i: the array, and the quotient with the digit added in.
Digit(s, m, i, qshift) ==
    LET n == Len(m)
        alen == Len(s.a)
        h == IF i = 1 THEN 0 ELSE s.a[i - 1]
        q == Estimate(h, s.a[i], Word(s.a, i + 1), m[1], Word(m, 2))
        sub == SubRow(IF i = 1 THEN s.a ELSE [s.a EXCEPT ![i - 1] = 0], q, m, i, n, 0)
        over == sub.carry # h
    IN  [a |-> IF over THEN AddRow(sub.a, m, i, n, 0) ELSE sub.a,
         quot |-> IF s.quot = <<>> THEN <<>>
                  ELSE AddShifted(s.quot, IF over THEN q - 1 ELSE q,
                                  qshift + WordBits * (alen - n - i + 1))]
\* internal_mod; quot is <<>> if the quotient is not asked for.
RECURSIVE ModDigits(_, _, _, _)
ModDigits(s, m, i, qshift) ==
    IF i > Len(s.a) - Len(m) + 1 THEN s ELSE ModDigits(Digit(s, m, i, qshift), m, i + 1, qshift)
InternalMod(a, m, quot, qshift) == ModDigits([a |-> a, quot |-> quot], m, 1, qshift)

-----------------------------------------------------------------------------
(***************************************************************************)
(* The modulus is shifted so that its top bit is set; what is left of the  *)
(* number is then shifted, reduced once more and shifted back.             *)
(***************************************************************************)
Mshift(m) ==
    IF \E s \in 0..WordBits - 2 : (m[1] * 2 ^ s) % Base >= Base \div 2
    THEN CHOOSE s \in 0..WordBits - 2 :
             (m[1] * 2 ^ s) % Base >= Base \div 2
             /\ \A r \in 0..s - 1 : (m[1] * 2 ^ r) % Base < Base \div 2
    ELSE WordBits - 1
\* Words from to to shifted left; the word after the last counts as 0.
ShiftLeft(a, from, s) ==
    [i \in DOMAIN a |->
        IF i < from THEN a[i]
        ELSE ((a[i] * 2 ^ s) % Base) + (Word(a, i + 1) * 2 ^ s) \div Base]
ShiftRight(a, from, s) ==
    [i \in DOMAIN a |->
        IF i < from THEN a[i]
        ELSE a[i] \div 2 ^ s + ((a[i - 1] * 2 ^ (WordBits - s)) % Base)]
Shifted(m) == ShiftLeft(m, 1, Mshift(m))

\* Mutant: the result is not reduced again.
FixupOnce(s, mod) ==
    LET m == Spread(mod, Len(mod))
        r == [s EXCEPT !.a = ShiftLeft(@, Len(s.a) - Len(m), Mshift(m))]
    IN  IF Mshift(m) = 0 THEN s ELSE [r EXCEPT !.a = ShiftRight(@, Len(@) - Len(m) + 1, Mshift(m))]
Fixup(s, mod) ==
    LET m == Spread(mod, Len(mod))
        r == InternalMod(ShiftLeft(s.a, Len(s.a) - Len(m), Mshift(m)), Shifted(m), s.quot, 0)
    IN  IF Mshift(m) = 0 THEN s ELSE [r EXCEPT !.a = ShiftRight(@, Len(@) - Len(m) + 1, Mshift(m))]

\* p modulo mod in len words, and the quotient in place of quot.
Reduced(a, mod, quot) ==
    LET m == Spread(mod, Len(mod)) IN Fixup(InternalMod(a, Shifted(m), quot, Mshift(m)), mod)
Low(a, len) == [i \in 1..len |-> Word(a, Len(a) + 1 - i)]

\* bigdivmod: the remainder in as many words as the modulus, the quotient in as many as p.
BigDivMod(p, mod) ==
    LET plen == IF Len(p) <= Len(mod) THEN Len(mod) + 1 ELSE Len(p)
        r == Reduced(Spread(p, plen), mod, Zeros(Len(p)))
    IN  [rem |-> Low(r.a, Len(mod)), quot |-> r.quot]
BigMod(p, mod) == BigDivMod(p, mod).rem
BigDiv(p, mod) == BigDivMod(p, mod).quot

ModMul(p, q, mod) ==
    LET len == Greatest(Len(p), Len(q))
        a == Reduced(InternalMul(Spread(p, len), Spread(q, len)), mod, <<>>).a
    IN  Trim(Low(a, Least(Len(mod), 2 * len)))

\* The exponent from its highest bit that is set.
Bit(bn, i) == (Word(bn, 1 + i \div WordBits) \div 2 ^ (i % WordBits)) % 2
BitCount(bn) ==
    LET set == {i \in 0..Len(bn) * WordBits - 1 : Bit(bn, i) = 1}
    IN  IF set = {} THEN 0 ELSE 1 + CHOOSE i \in set : \A j \in set : j <= i
\* The product of the lower halves of two work arrays, reduced by the shifted modulus.
TimesMod(a, b, m) == InternalMod(InternalMul(a, b), m, <<>>, 0).a
Half(a) == SubSeq(a, Len(a) \div 2 + 1, Len(a))
\* From bit i of the exponent down, with the power so far.
RECURSIVE Exponentiate(_, _, _, _, _)
Exponentiate(power, base, exp, m, i) ==
    LET square == TimesMod(Half(power), Half(power), m)
        next == IF Bit(exp, i) = 1 THEN TimesMod(Half(square), base, m) ELSE square
    IN  IF i < 0 THEN power ELSE Exponentiate(next, base, exp, m, i - 1)
ModPow(base, exp, mod) ==
    LET n == Len(mod)
        a == Exponentiate([i \in 1..2 * n |-> IF i = 2 * n THEN 1 ELSE 0], Spread(base, n), exp,
                          Shifted(Spread(mod, n)), BitCount(exp) - 1)
    IN  Trim(Low(Fixup([a |-> a, quot |-> <<>>], mod).a, n))

-----------------------------------------------------------------------------
(***************************************************************************)
(* Whole numbers.                                                          *)
(***************************************************************************)
\* Words are added up to rlen of them, with a carry.
AddWords(x, y, len) ==
    FoldLeft(LAMBDA s, i : LET t == s.carry + Word(x, i) + Word(y, i)
                           IN  [sum |-> Append(s.sum, t % Base), carry |-> t \div Base],
             [sum |-> <<>>, carry |-> 0], [i \in 1..len |-> i]).sum
\* bigmuladd; without an addend bigmul.
BigMulAdd(a, b, addend) ==
    LET len == Greatest(Len(a), Len(b))
        rlen == Greatest(Len(a) + Len(b) + 1, Len(addend) + 1)
        product == InternalMul(Spread(a, len), Spread(b, len))
    IN  ToMaxspot(AddWords(Low(product, rlen), addend, rlen))

Cmp(a, b) ==
    LET differ == {i \in 1..Greatest(Len(a), Len(b)) : Word(a, i) # Word(b, i)}
        top == CHOOSE i \in differ : \A j \in differ : j <= i
    IN  IF differ = {} THEN 0 ELSE IF Word(a, top) < Word(b, top) THEN -1 ELSE 1

RECURSIVE Gcd(_, _)
Gcd(a, b) == IF Cmp(b, <<>>) = 0 THEN a ELSE Gcd(b, Trim(BigMod(a, b)))

\* The end of modinv: modulus - x, the borrow taken from the complement of the word.
Minus(modulus, x) ==
    FoldLeft(LAMBDA s, i : LET t == (Word(modulus, i) - Word(x, i) - s.borrow) % Base
                               inverse == Base - 1 - Word(x, i)
                           IN  [words |-> Append(s.words, t),
                                borrow |-> IF t > inverse \/ (s.borrow = 1 /\ t = inverse) THEN 1 ELSE 0],
             [words |-> <<>>, borrow |-> 0], [i \in DOMAIN modulus |-> i]).words

RECURSIVE Euclid(_, _, _, _, _)
Euclid(a, b, xp, x, sign) ==
    LET d == BigDivMod(a, b)
    IN  IF Cmp(b, <<1>>) = 0 THEN [x |-> x, sign |-> sign]
        ELSE Euclid(b, Trim(d.rem), x, BigMulAdd(d.quot, x, xp), -sign)
ModInv(number, modulus) ==
    LET e == Euclid(modulus, number, <<>>, <<1>>, 1)
    IN  IF e.sign < 0 THEN ToMaxspot(Minus(modulus, e.x)) ELSE e.x

Dec(bn) ==
    LET low == CHOOSE i \in DOMAIN bn : (i = Len(bn) \/ bn[i] # 0) /\ \A j \in 1..i - 1 : bn[j] = 0
    IN  [i \in DOMAIN bn |-> IF i < low THEN Base - 1 ELSE IF i = low THEN (bn[i] - 1) % Base ELSE bn[i]]

AddLong(number, addend) ==
    ToMaxspot(AddWords(number, [i \in 1..2 |-> (addend \div Base ^ (i - 1)) % Base], Len(number) + 1))
FromLong(n) == IF n \div Base = 0 THEN <<n % Base>> ELSE <<n % Base, n \div Base>>

RShift(a, shift) ==
    LET words == (BitCount(a) - shift + WordBits - 1) \div WordBits
        w == shift \div WordBits
        b == shift % WordBits
    IN  [i \in 1..words |->
            (Word(a, i + w) \div 2 ^ b + Word(a, i + w + 1) * 2 ^ (WordBits - b)) % Base]

\* All ones below the highest bit of n.
Bitmask(n) ==
    LET top == Len(ToMaxspot(n))
        mask == CHOOSE j \in {2 ^ k - 1 : k \in 1..WordBits} :
                    j >= n[top] /\ \A k \in 1..WordBits : 2 ^ k - 1 >= n[top] => j <= 2 ^ k - 1
    IN  IF top = 0 THEN n
        ELSE [i \in DOMAIN n |-> IF i < top THEN Base - 1 ELSE IF i = top THEN mask ELSE n[i]]

ModShort(number, modulus) ==
    FoldRight(LAMBDA word, r : (((r * ((Base \div 2) % modulus) * 2) % Dbl) + (word % modulus)) % modulus,
              number, 0)

\* bignum_byte, bignum_from_bytes; the bytes most significant first, as they are sent.
Byte(bn, i) == (Word(bn, i \div 2 + 1) \div ByteBase ^ (i % 2)) % ByteBase
FromBytes(bytes) ==
    LET n == Len(bytes)
        At(i) == IF i < n THEN bytes[n - i] ELSE 0
    IN  Trim([w \in 1..(n + 1) \div 2 |-> At(2 * w - 2) + At(2 * w - 1) * ByteBase])
\* ssh1_write_bignum and ssh1_read_bignum: the number of bits and the bytes.
Write1(bn) ==
    LET n == (BitCount(bn) + ByteBits - 1) \div ByteBits
    IN  [bits |-> BitCount(bn), bytes |-> [k \in 1..n |-> Byte(bn, n - k)]]
Read1(msg) == FromBytes(SubSeq(msg.bytes, 1, (msg.bits + ByteBits - 1) \div ByteBits))
\* An SSH-2 number begins with a bit that is 0 (ssh2_bignum_length).
Length2(bn) == (BitCount(bn) + ByteBits) \div ByteBits

\* bignum_decimal: the digits, last first, from a division by ten of what is left.
RECURSIVE Decimal(_)
Decimal(a) ==
    LET s == FoldLeft(LAMBDA u, w : LET t == u.carry * Base + w
                                    IN  [words |-> Append(u.words, t \div 10), carry |-> t % 10],
                      [words |-> <<>>, carry |-> 0], a)
    IN  IF \A i \in DOMAIN a : s.words[i] = 0 THEN <<s.carry>> ELSE Append(Decimal(s.words), s.carry)
Digits(x) == (28 * BitCount(x) + 92) \div 93

-----------------------------------------------------------------------------
(***************************************************************************)
(* Operations, on what the callers give them.                              *)
(***************************************************************************)
RECURSIVE Worth(_)
Worth(bn) == IF bn = <<>> THEN 0 ELSE Head(bn) + Base * Worth(Tail(bn))

NInit == operands = <<>> /\ result = [op |-> "none", n |-> 0, r |-> <<>>]

DoesWith(op, xs, n, r) ==
    operands' = xs /\ result' = [op |-> op, n |-> n, r |-> r]
Does(op, xs, r) == DoesWith(op, xs, 0, r)

MulAddOp(a, b, c) == Does("muladd", <<a, b, c>>, BigMulAdd(a, b, c))
DivOp(a, b) == Worth(b) # 0 /\ Last(b) # 0 /\ Does("divmod", <<a, b>>, BigDivMod(a, b))
\* The factors have more than half as many words as the modulus.
ModMulOp(a, b, m) == 2 * Greatest(Len(a), Len(b)) > Len(m) /\ Does("modmul", <<a, b, m>>, ModMul(a, b, m))
ModPowOp(a, e, m) == Worth(a) < Worth(m) /\ Does("modpow", <<a, e, m>>, ModPow(a, e, m))
GcdOp(a, b) == Last(Append(b, 1)) # 0 /\ Does("gcd", <<a, b>>, Gcd(a, b))
Coprime(v, w) == {d \in 2..v : v % d = 0 /\ w % d = 0} = {}
InvOp(a, m) ==
    /\ Worth(a) \in 1..Worth(m) - 1 /\ Coprime(Worth(a), Worth(m)) /\ Last(a) # 0
    /\ Does("inverse", <<a, m>>, ModInv(a, m))
CmpOp(a, b) == Does("cmp", <<a, b>>, Cmp(a, b))
\* The rest take one number.
OneOp(a) ==
    \/ Worth(a) > 0 /\ Does("dec", <<a>>, Dec(a))
    \/ \E n \in 0..Base - 1 : DoesWith("addlong", <<a>>, n, AddLong(a, n))
    \/ \E n \in 0..BitCount(a) - 1 : DoesWith("rshift", <<a>>, n, RShift(a, n))
    \/ Does("bitmask", <<a>>, Bitmask(a))
    \/ \E n \in 1..Base - 1 : DoesWith("modshort", <<a>>, n, ModShort(a, n))
    \/ Does("ssh1", <<a>>, Read1(Write1(a)))
    \/ Worth(a) > 0 /\ Does("decimal", <<a>>, Decimal(Reverse(a)))

Operation ==
    \/ \E a, b \in Numbers : DivOp(a, b) \/ GcdOp(a, b) \/ CmpOp(a, b) \/ InvOp(a, b)
    \/ \E a \in Numbers : OneOp(a)
    \/ \E a, b \in Factors, m \in Mods : ModMulOp(a, b, m) \/ MulAddOp(a, b, m)
    \/ \E a \in Factors, e \in Exps, m \in Mods : ModPowOp(a, e, m)
NNext == operands = <<>> /\ Operation
NSpec == NInit /\ [][NNext]_nvars

-----------------------------------------------------------------------------
Arg(i) == Worth(operands[i])
\* No leading zero words (a zero may have one).
Normal(bn) == Len(bn) <= 1 \/ Last(bn) # 0
RECURSIVE Power(_, _, _), Number(_)
Power(b, e, m) == IF e = 0 THEN 1 % m ELSE (b * Power(b, e - 1, m)) % m
Number(digits) == IF digits = <<>> THEN 0 ELSE Last(digits) + 10 * Number(Front(digits))

\* Every operation is what arithmetic says, whatever carries, borrows and estimates of digits it
\* goes through, and all but the division return numbers without leading zero words.
ArithmeticRight ==
    LET r == result.r
        n == result.n
        x == Arg(1)
        y == Arg(2)
        m == Arg(3)
    IN  CASE result.op = "none" -> TRUE
          [] result.op = "muladd" -> Worth(r) = x * y + m /\ Normal(r)
          [] result.op = "divmod" -> Worth(r.quot) = x \div y /\ Worth(r.rem) = x % y
          [] result.op = "modmul" -> Worth(r) = (x * y) % m /\ Normal(r)
          [] result.op = "modpow" -> Worth(r) = Power(x, y, m) /\ Normal(r)
          [] result.op = "gcd" ->
                 LET g == Worth(r)
                 IN  IF x = 0 /\ y = 0 THEN g = 0
                     ELSE x % g = 0 /\ y % g = 0 /\ Coprime(x \div g, y \div g)
          [] result.op = "inverse" -> (Worth(r) * x) % y = 1 % y /\ Worth(r) < y /\ Normal(r)
          [] result.op = "cmp" -> r = IF x < y THEN -1 ELSE IF x > y THEN 1 ELSE 0
          [] result.op = "dec" -> Worth(r) = x - 1
          [] result.op = "addlong" -> Worth(r) = x + n /\ Normal(r)
          [] result.op = "rshift" -> Worth(r) = x \div 2 ^ n /\ Normal(r)
          [] result.op = "bitmask" -> /\ Worth(r) >= x /\ \E k \in 0..20 : Worth(r) = 2 ^ k - 1
                                      /\ x > 0 => Worth(r) < 2 * x
          [] result.op = "modshort" -> r = x % n
          [] result.op = "ssh1" -> /\ Worth(r) = x
                                   /\ 2 * x < ByteBase ^ Length2(operands[1])
          [] result.op = "decimal" -> Number(r) = x /\ Len(r) <= Digits(operands[1])
=============================================================================
