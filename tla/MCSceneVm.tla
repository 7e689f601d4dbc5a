------------------------------ MODULE MCSceneVm ------------------------------
(* SceneVm on the two packs of resources/generated, and on made-up packs.    *)
EXTENDS SceneCertificate

Hsc1 == <<72, 83, 67, 49>>
Hst1 == <<72, 83, 84, 49>>

PackOf(bytes) == [bytes |-> bytes, size |-> Len(bytes)]

\* resources/generated/scenes.bin: twenty entries, then the scenes' code.
ShippedScenes == PackOf(
    <<72, 83, 67, 49, 20, 1, 105, 0, 47, 0, 2, 152, 0, 45, 0, 3, 197, 0, 35,
      0, 4, 232, 0, 16, 0, 5, 248, 0, 35, 0, 6, 27, 1, 35, 0, 7, 62, 1, 12, 0,
      8, 74, 1, 31, 0, 9, 105, 1, 12, 0, 10, 117, 1, 41, 0, 11, 158, 1, 12, 0,
      12, 170, 1, 12, 0, 13, 182, 1, 12, 0, 14, 194, 1, 12, 0, 15, 206, 1, 12,
      0, 16, 218, 1, 8, 0, 17, 226, 1, 8, 0, 18, 234, 1, 12, 0, 19, 246, 1,
      38, 0, 20, 28, 2, 33, 0, 1, 0, 0, 1, 1, 0, 2, 2, 2, 0, 16, 0, 3, 0, 30,
      0, 7, 2, 9, 1, 1, 6, 5, 1, 0, 1, 4, 0, 11, 1, 6, 3, 2, 0, 7, 1, 7, 2, 6,
      5, 1, 0, 1, 5, 0, 11, 2, 1, 6, 0, 4, 3, 2, 0, 14, 0, 1, 7, 0, 11, 0, 2,
      2, 8, 0, 24, 0, 9, 0, 38, 0, 5, 3, 2, 0, 7, 4, 9, 2, 1, 1, 10, 0, 11, 1,
      7, 3, 1, 11, 0, 11, 0, 1, 12, 0, 2, 2, 13, 0, 13, 0, 14, 0, 22, 0, 6, 5,
      1, 0, 1, 15, 0, 11, 1, 6, 4, 2, 0, 6, 5, 1, 0, 1, 16, 0, 11, 2, 1, 17,
      0, 1, 18, 0, 6, 5, 1, 0, 6, 3, 2, 0, 11, 1, 1, 19, 0, 2, 2, 20, 0, 13,
      0, 21, 0, 26, 0, 5, 3, 2, 0, 6, 4, 2, 0, 1, 22, 0, 11, 2, 6, 1, 3, 0, 1,
      23, 0, 11, 1, 1, 24, 0, 2, 2, 25, 0, 13, 0, 26, 0, 26, 0, 5, 3, 3, 0, 6,
      4, 3, 0, 1, 27, 0, 11, 2, 6, 1, 3, 0, 1, 28, 0, 11, 1, 1, 29, 0, 1, 30,
      0, 6, 3, 3, 0, 11, 1, 1, 31, 0, 2, 2, 32, 0, 13, 0, 33, 0, 22, 0, 6, 3,
      2, 0, 1, 34, 0, 11, 1, 6, 4, 2, 0, 1, 35, 0, 11, 2, 1, 36, 0, 1, 37, 0,
      6, 4, 2, 0, 11, 1, 1, 38, 0, 2, 3, 39, 0, 17, 0, 40, 0, 27, 0, 41, 0,
      34, 0, 7, 6, 9, 3, 2, 1, 42, 0, 11, 3, 7, 7, 1, 43, 0, 11, 2, 7, 8, 1,
      44, 0, 11, 1, 1, 45, 0, 1, 46, 0, 6, 3, 3, 0, 11, 1, 1, 47, 0, 1, 48, 0,
      6, 5, 1, 0, 11, 1, 1, 49, 0, 1, 50, 0, 6, 4, 3, 0, 11, 1, 1, 51, 0, 1,
      52, 0, 6, 3, 3, 0, 11, 1, 1, 53, 0, 1, 54, 0, 6, 5, 1, 0, 11, 1, 1, 55,
      0, 1, 56, 0, 11, 1, 1, 57, 0, 1, 58, 0, 11, 1, 1, 59, 0, 5, 4, 2, 0, 1,
      60, 0, 11, 1, 1, 61, 0, 2, 3, 62, 0, 17, 0, 63, 0, 24, 0, 64, 0, 31, 0,
      7, 9, 1, 65, 0, 11, 1, 7, 10, 1, 66, 0, 11, 2, 7, 11, 1, 67, 0, 11, 3,
      1, 68, 0, 2, 2, 69, 0, 13, 0, 70, 0, 24, 0, 5, 3, 1, 0, 7, 5, 1, 71, 0,
      11, 1, 6, 1, 2, 0, 1, 72, 0, 11, 2>>)

\* resources/generated/strings.bin: its directory; 4032 bytes with the texts.
ShippedStrings == [size |-> 4032, bytes |->
    <<72, 83, 84, 49, 73, 0, 225, 0, 68, 37, 1, 62, 99, 1, 11, 110, 1, 16,
      126, 1, 64, 190, 1, 52, 242, 1, 71, 57, 2, 71, 128, 2, 15, 143, 2, 13,
      156, 2, 59, 215, 2, 60, 19, 3, 73, 92, 3, 12, 104, 3, 17, 121, 3, 65,
      186, 3, 65, 251, 3, 75, 70, 4, 65, 135, 4, 75, 210, 4, 16, 226, 4, 17,
      243, 4, 59, 46, 5, 68, 114, 5, 75, 189, 5, 18, 207, 5, 16, 223, 5, 59,
      26, 6, 62, 88, 6, 66, 154, 6, 72, 226, 6, 59, 29, 7, 15, 44, 7, 16, 60,
      7, 49, 109, 7, 76, 185, 7, 56, 241, 7, 69, 54, 8, 74, 128, 8, 11, 139,
      8, 12, 151, 8, 10, 161, 8, 54, 215, 8, 65, 24, 9, 70, 94, 9, 74, 168, 9,
      78, 246, 9, 69, 59, 10, 63, 122, 10, 71, 193, 10, 75, 12, 11, 53, 65,
      11, 63, 128, 11, 79, 207, 11, 79, 30, 12, 55, 85, 12, 63, 148, 12, 80,
      228, 12, 74, 46, 13, 67, 113, 13, 60, 173, 13, 78, 251, 13, 4, 255, 13,
      14, 13, 14, 15, 28, 14, 68, 96, 14, 68, 164, 14, 76, 240, 14, 72, 56,
      15, 15, 71, 15, 16, 87, 15, 43, 130, 15, 62>>]

ShippedPacks == {ShippedScenes}

\* Games between the amounts the scenes ask for and beside the caps.
Holding(kindling, remnants, clarity, thread, keys) ==
    [goods |-> [r \in Resources |->
        CASE r = 0 -> kindling [] r = REMNANTS -> remnants [] r = CLARITY -> clarity
          [] r = THREAD -> thread [] r = KEYS -> keys [] OTHER -> 2],
     flags |-> {}, trust |-> [g \in Guests |-> 3 - g]]

ShippedGames ==
    { Holding(5, r, c, t, k) : r \in {0, 998}, c \in {0, 1, 2, 3, 998},
                                t \in {0, 1, 2, 997}, k \in {0, 9} }

\* Instructions at the edges of what scene_vm_run accepts, and beyond them:
\* amounts of 1, 32767, 32768 and 65535, flag 64, guest 4, four choices, jumps
\* back, to the end and outside, opcodes 0 and 12, an instruction cut short.
Fragments ==
    { <<1, 0, 0>>, <<2, 1, 0, 0, 10, 0>>, <<2, 2, 1, 0, 3, 0, 2, 0, 6, 0>>,
      <<2, 0>>, <<2, 4>>, <<3, 2, 4, 0>>, <<3, 64, 0, 0>>,
      <<4, 3, 3, 0, 9, 0>>, <<4, 3, 255, 255, 0, 0>>, <<4, 7, 0, 0, 0, 0>>,
      <<5, 3, 1, 0>>, <<5, 3, 255, 255>>, <<5, 3, 0, 128>>,
      <<6, 3, 255, 127>>, <<6, 3, 0, 128>>, <<6, 6, 44, 1>>,
      <<7, 2>>, <<8, 2>>, <<7, 64>>, <<9, 1, 128>>, <<9, 1, 127>>, <<9, 4, 1>>,
      <<10, 0, 0>>, <<10, 3, 0>>, <<10, 255, 255>>, <<11, 1>>, <<11>>, <<0>>, <<12>> }

OneScene(bytes) == PackOf(Hsc1 \o <<1, 1, 10, 0, Len(bytes), 0>> \o bytes)

\* Directories that name no scene, one outside the pack, an empty or a long one,
\* the same id twice, or more entries than there are.
OddPacks ==
    { PackOf(<<72, 83, 67, 50, 1, 1, 10, 0, 2, 0, 11, 1>>),
      PackOf(Hsc1), PackOf(Hsc1 \o <<0>>),
      PackOf(Hsc1 \o <<1, 1, 10, 0, 0, 0>>),
      PackOf(Hsc1 \o <<1, 1, 10, 0, 3, 0, 11, 1>>),
      PackOf(Hsc1 \o <<2, 1, 10, 0, 2, 0, 11, 1>>),
      PackOf(Hsc1 \o <<2, 2, 0, 1, 1, 0, 1, 15, 0, 2, 0, 11, 1>>),
      PackOf(Hsc1 \o <<2, 1, 15, 0, 2, 0, 1, 16, 0, 2, 0, 11, 1, 0>>),
      PackOf(Hsc1 \o <<1, 1, 10, 0, 129, 0>> \o [i \in 1 .. 129 |-> 11]) }

AnyPacks ==
    { OneScene(a \o b \o c) : a \in Fragments, b \in Fragments,
                              c \in {<<>>, <<1, 2, 0>>, <<11, 2>>, <<10, 0, 0>>} } \cup OddPacks

\* Three texts, of which the last lies outside.
AnyStrings == [size |-> 118, bytes |->
    Hst1 \o <<3, 0, 15, 0, 80, 95, 0, 23, 95, 0, 24>>]

AnyGames == { Holding(5, 0, 3, 0, 0), [Holding(5, 0, 999, 0, 0) EXCEPT !.flags = {2}] }

AllPacks == ShippedPacks \cup AnyPacks
AllStrings == [p \in AllPacks |-> IF p \in ShippedPacks THEN ShippedStrings ELSE AnyStrings]
\* The points the shipped scenes come to: no run has more instructions than bytes.
Reached(bytes) ==
    LET Within[n \in Nat] ==
            IF n = 0 THEN { Start }
            ELSE LET before == Within[n - 1]
                 IN  before \cup UNION { Followers(bytes, p) : p \in before }
    IN  Within[Len(bytes)]

ShippedCertificate ==
    [p \in ShippedPacks |-> [id \in SceneIds |-> Reached(LoadScene(p, id).code)]]

AllGames == [p \in AllPacks |-> IF p \in ShippedPacks THEN ShippedGames ELSE AnyGames]
=============================================================================
