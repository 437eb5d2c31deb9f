---------------------------- MODULE MCProcessor ----------------------------
(* Processor with bytes of four bits, so words of sixteen: the code's memory map *)
(* fits.  One start per first operand for the arithmetic; stacks in general      *)
(* memory (one nearly full, one too small to warn), one that begins where        *)
(* nothing can be written, one at the top of the memory.                         *)
EXTENDS Processor

MCSelected == {"G0", "SP", "FL"}
MCWords == {0, 1, 32766, 32767, 32768, 65534, 65535}
MCHalves == {0, 127, 128, 255}
MCBytes == {0, 7, 8, 15}
MCTargets == {36874, 65530}
MCCodes == {0, 1, 7, 10, 15}

Start(g0, base, size, pointer, flags) ==
    [r \in Registers |->
        CASE r = "G0" -> g0 [] r = "G1" -> 3 [] r = "OA" -> 5 [] r = "SB" -> base
          [] r = "SS" -> size [] r = "SP" -> pointer [] r = "IL" -> 0 [] r = "FL" -> flags]

MCStarts ==
    {Start(v, 36864, 255, 0, 2) : v \in MCWords}
        \cup {Start(9, 36864, 12, 0, 0), Start(9, 36864, 8, 0, 8), Start(9, 24828, 64, 0, 8),
              Start(9, 65528, 255, 4, 0), Start(9, 36864, 255, 250, 4)}
=============================================================================
