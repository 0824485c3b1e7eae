------------------------------ MODULE MCCodec ------------------------------
(* Values for the constants of Codec: words of one byte, messages that leave *)
(* Base64 with no '=', with one and with two.                               *)
EXTENDS Codec

MasterKey == <<200, 17, 90>>
RandomKeys == {<<7, 250>>}
Requests ==
  {[service_name |-> <<83>>, method_name |-> <<255>>, payload |-> p, sequence_id |-> 1 + Len(p)] :
     p \in {<<>>, <<61>>, <<0, 254>>}}
Responses ==
  {[result_data |-> r, error_message |-> e, error_code |-> Len(e), sequence_id |-> 1 + Len(r)] :
     r \in {<<9>>, <<61, 255>>}, e \in {<<>>, <<69>>}}
\* 248: added to the size of a request's body and to that of the header it passes 255.
Excesses == {0, 1, 248}
=============================================================================
