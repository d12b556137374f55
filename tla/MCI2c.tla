------------------------------- MODULE MCI2c -------------------------------
(* The transfers that the run of I2c tries.                                *)
EXTENDS I2c

P(a, reg, bytes, n) == [addr |-> a, reg |-> reg, bytes |-> bytes, n |-> n]

MCPrograms ==
  { P(1, 0, <<1, 2>>, 0),     \* write both registers
    P(2, 1, <<2, 2, 2>>, 0),  \* write more than fits, where no device is
    P(1, 2, <<>>, 4) }        \* read round the pointer, more than fits

MCSettings == {<<1, 0>>}

MCLatches == {<<0, 1>>}
=============================================================================
