---------------------------- MODULE MCArqSession ----------------------------
(* Small instances of ArqSession for TLC.                                  *)
EXTENDS ArqSession

\* A message of three bytes is two frames of unequal length when N1 = 2.
MCMessage  == {<<1, 2, 2>>}
MCPeerInfo == {<<1>>}

OneByte == {<<1>>}
=============================================================================
