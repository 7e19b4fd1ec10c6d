------------------------------- MODULE MCAudio -------------------------------
(* The table of modules/Audio_Controller.v itself, in bytes of eight bits. *)
EXTENDS Audio_Controller

ToBits(n)  == [i \in 1..BITS |-> (n \div 2^(BITS - i)) % 2]
Entry(c, d) == <<ToBits(c), ToBits(d)>>

MCTable == << Entry(30, 0), Entry(18, 0), Entry(0, 23), Entry(2, 23),
              Entry(4, 121), Entry(6, 121), Entry(8, 18), Entry(10, 0),
              Entry(12, 0), Entry(14, 66), Entry(16, 2), Entry(18, 1) >>
MCDevice == ToBits(52)
=============================================================================
