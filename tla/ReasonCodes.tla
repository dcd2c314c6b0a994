---------------------------- MODULE ReasonCodes -----------------------------
(***************************************************************************)
(* result_code.rs: the codes try_from accepts, one set per packet type.    *)
(***************************************************************************)
EXTENDS Naturals

ConnectReturnCode == 0..5
SubackReturnCode  == {0, 1, 2, 128}

ConnectReasonCode == {0} \cup 128..138 \cup {140, 144, 149, 151, 153, 154, 155, 156, 157, 159}
DisconnectReasonCode ==
  {0, 4} \cup 128..131 \cup {135, 137, 139, 141, 142, 143, 144} \cup 147..162
SubackReasonCode   == 0..2 \cup {128, 131, 135, 143, 145, 151, 158, 161, 162}
UnsubackReasonCode == {0, 17, 128, 131, 135, 143, 145}
PubackReasonCode   == {0, 16, 128, 131, 135, 144, 145, 151, 153}
PubrecReasonCode   == {0, 16, 128, 131, 135, 144, 145, 151, 153}
PubrelReasonCode   == {0, 146}
PubcompReasonCode  == {0, 146}
AuthReasonCode     == {0, 24, 25}
=============================================================================
