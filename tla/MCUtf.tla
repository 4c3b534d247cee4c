--------------------------------- MODULE MCUtf ---------------------------------
(***************************************************************************)
(* Utf for TLC: every boundary between two lengths of a character in every   *)
(* encoding, alone and next to one another, and text cut, split or invented. *)
(***************************************************************************)
EXTENDS Utf

Boundaries == {0, 127, 128, 2047, 2048, 55295, 57344, 65533, 65535, 65536, 65537, 128512, 1114111}
Mixed == {65, 2047, 2048, 65536}
MCTexts ==
    {<<>>} \union {<<c>> : c \in Boundaries}
           \union {<<c, d>> : c \in Boundaries, d \in Mixed}
           \union {<<c, d, e>> : c \in Mixed, d \in Mixed, e \in Mixed}

Bytes == {65, 128, 194, 225, 240, 255}
MCMalformed ==
    [encoding : {"u8"}, units : UNION {[1 .. n -> Bytes] : n \in 1 .. 4}]
    \union [encoding : {"u16"}, units : UNION {[1 .. n -> {65, 55296, 56320, 57344}] : n \in 1 .. 3}]
    \union [encoding : {"u32"}, units : {<<1114112>>, <<65, 1114112, 65>>, <<55296>>}]
=============================================================================
