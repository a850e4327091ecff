--------------------------- MODULE MCDecimalField ---------------------------
(***************************************************************************)
(* DecimalField on a scaled machine: 2 * Half64 = 8 stands for 2^64 and    *)
(* 2 * Half32 = 4 for 2^32.                                                *)
(***************************************************************************)
EXTENDS DecimalField

\* Mantissas at the top of 64 bits.  Of a number the exponent is at the bottom
\* of 32 bits; in parts it is at the top of 64, which 32 bits cut to -1.
MCDeclarations == Numbers({Decimal(3, -2)}) \cup Parts({3})

\* Too wide, negative, NULL, the top.  In the many declarations in parts a
\* read fails by being cut short.
MCOnWire == [number |-> {-5, -3, 0, 3}, parts |-> {-3, 0, 3}]

MCDeliveries == [number |-> 3, parts |-> 2]
=============================================================================
