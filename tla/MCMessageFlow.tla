--------------------------- MODULE MCMessageFlow ---------------------------
(* MessageFlow with one body that WhatsApp posts and repeats: an audio and *)
(* a sticker behind it.                                                    *)
EXTENDS MessageFlow

CONSTANTS a1, u1

OnePayload == {<<a1, u1>>}

RequestSymmetry == Permutations(Requests)
=============================================================================
