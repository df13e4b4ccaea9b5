------------------------------ MODULE MCLedLink ------------------------------
(***************************************************************************)
(* The link with bytes of two bits, payloads of one byte or none (and of   *)
(* four, which no length byte can announce), a timeout of two ticks and a  *)
(* sync delay of four: a tick is half a second.                            *)
(***************************************************************************)
EXTENDS LedLink

Number(b) == (IF b[0] THEN 1 ELSE 0) + (IF b[1] THEN 2 ELSE 0)
MCSizeOf == [b \in [0 .. 1 -> BOOLEAN] |-> Number(b)]
MCByteOf == [n \in 0 .. 3 |-> CHOOSE b \in [0 .. 1 -> BOOLEAN] : Number(b) = n]
MCNul == MCByteOf[0]
MCAllLeds == LEDs
MCStartLeds == {{}, {"clock"}, {"data", "info"}}
MCNoLeds == {{}}
MCDefault == <<MCByteOf[3]>>
MCPayloads == <<{<<MCByteOf[2]>>}, {<<>>, <<MCByteOf[2]>>}>>
MCOnePayload == <<{<<MCByteOf[2]>>}>>
MCLongPayload == <<{<<MCByteOf[1], MCByteOf[1], MCByteOf[2], MCByteOf[2]>>}>>
=============================================================================
