--------------------------- MODULE MCUartHdlcLink ---------------------------
(* Bodies of one to three bytes for a decoder with room for two: bytes     *)
(* that must be stuffed, what they are stuffed as, and one like any other. *)
EXTENDS UartHdlcLink

SomeBodies == {<<65>>, <<126>>, <<125, 94>>, <<126, 125>>, <<93, 65>>, <<65, 126, 65>>}

(* Both bytes of the checksum take the values that have to be stuffed.     *)
SumChecksum(body) ==
  LET sum == FoldLeft(+, Len(body), body)
      bytes == <<126, 125, 65, 3>>
  IN bytes[1 + (sum % 4)] + 256 * bytes[1 + ((sum \div 4) % 4)]

=============================================================================
