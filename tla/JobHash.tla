------------------------------ MODULE JobHash ------------------------------
(***************************************************************************)
(* _server_job_hash of libgearman/server_job.c: the one-at-a-time hash     *)
(* that keys the unique and job-handle hash tables.  TLC integers are 32   *)
(* bit signed, so a uint32_t is kept as two 16-bit limbs <<hi, lo>> and    *)
(* every operation wraps modulo 2^32 exactly as the C arithmetic does.     *)
(***************************************************************************)
EXTENDS Integers, Sequences, Bitwise

Limb == 65536

U32 == (0 .. Limb - 1) \X (0 .. Limb - 1)

Zero32 == <<0, 0>>

One32 == <<0, 1>>

\* value + b, modulo 2^32.
Add32(a, b) ==
  LET lo == a[2] + b[2]
  IN  <<((a[1] + b[1]) + (lo \div Limb)) % Limb, lo % Limb>>

\* value << k for 0 < k < 16, bits above bit 31 are lost.
Shl32(a, k) ==
  LET lo == a[2] * 2^k
  IN  <<(((a[1] * 2^k) % Limb) + (lo \div Limb)) % Limb, lo % Limb>>

\* value >> k for 0 < k < 16 (logical shift of an unsigned value).
Shr32(a, k) ==
  <<a[1] \div 2^k, (a[2] \div 2^k) + ((a[1] % 2^k) * 2^(16 - k))>>

Xor32(a, b) == <<a[1] ^^ b[1], a[2] ^^ b[2]>>

(***************************************************************************)
(* `value += *ptr' reads a plain char, signed on the x86 builds: a byte of  *)
(* 128 or more is sign-extended before the unsigned addition.              *)
(***************************************************************************)
CharToU32(b) == IF b < 128 THEN <<0, b>> ELSE <<Limb - 1, 65280 + b>>

\* One iteration of the while (key_size--) loop.
MixByte(v, b) ==
  LET v1 == Add32(v, CharToU32(b))
      v2 == Add32(v1, Shl32(v1, 10))
  IN  Xor32(v2, Shr32(v2, 6))

\* The final avalanche and the 0 -> 1 mapping.
Finalize(v) ==
  LET v1 == Add32(v, Shl32(v, 3))
      v2 == Xor32(v1, Shr32(v1, 11))
      v3 == Add32(v2, Shl32(v2, 15))
  IN  IF v3 = Zero32 THEN One32 ELSE v3

RECURSIVE MixBytes(_, _)
MixBytes(v, key) ==
  IF key = <<>> THEN v ELSE MixBytes(MixByte(v, Head(key)), Tail(key))

\* _server_job_hash(key, key_size) for a byte sequence key.
Hash(key) == Finalize(MixBytes(Zero32, key))

=============================================================================
