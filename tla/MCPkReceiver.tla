---------------------------- MODULE MCPkReceiver ----------------------------
EXTENDS PkReceiver

(* A 2-byte header (leader, length), kMaxPacketSize 7: packets of 5 and 6 *)
(* bytes pass the length test.                                            *)
Good5  == <<Leader, 5, 1, CR, LF>>
Good6  == <<Leader, 6, 1, 1, CR, LF>>
BadSum == <<Leader, 5, Bad, CR, LF>>
Short4 == <<Leader, 4, CR, LF>>      \* header + CR LF, no checksum byte

MCTokens == {Good5, Good6, BadSum, Short4, <<Leader>>, <<Bad>>}
=============================================================================
