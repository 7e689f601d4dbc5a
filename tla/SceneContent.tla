---------------------------- MODULE SceneContent ----------------------------
(* The two packs tools/compile_scenes.py writes: scenes.bin, a directory and *)
(* the bytecode of each scene, and strings.bin, a directory and the texts.   *)
(* Each pack has two readers: the one of content_format.c, which the tests   *)
(* exercise, and the one of main.c, which reads byte ranges of a resource    *)
(* and is the one that runs.                                                 *)
(*                                                                           *)
(* A pack is [bytes, size].  Where only the directory matters the bytes may  *)
(* stop before the size; what lies between is text.                          *)
EXTENDS Integers, Sequences

CONSTANTS
    SceneMagic,      \* "HSC1"
    StringMagic,     \* "HST1"
    CodeMax,         \* sizeof s_scene_code, 128
    PageSize,        \* sizeof s_scene_page, 81
    ChoiceSize       \* sizeof choice in prv_draw_scene, 24

Bytes == 0 .. 255

ASSUME ContentAssumption ==
    /\ SceneMagic \in Seq(Bytes) /\ Len(SceneMagic) = 4
    /\ StringMagic \in Seq(Bytes) /\ Len(StringMagic) = 4
    /\ CodeMax \in Nat /\ PageSize \in Nat /\ ChoiceSize \in Nat

\* The byte and the little-endian word at an offset, which starts at 0.
U8(data, at) == data[at + 1]
U16(data, at) == U8(data, at) + 256 * U8(data, at + 1)

HasMagic(pack, magic, header) ==
    pack.size >= header /\ SubSeq(pack.bytes, 1, 4) = magic

Unreadable == [ok |-> FALSE, code |-> <<>>]
Readable(code) == [ok |-> TRUE, code |-> code]
-----------------------------------------------------------------------------
(* scenes.bin: a count, then id, offset and length of each scene *)

Entry(pack, i) == 5 + 5 * i
EntryId(pack, i) == U8(pack.bytes, Entry(pack, i))
EntryOffset(pack, i) == U16(pack.bytes, Entry(pack, i) + 1)
EntryLength(pack, i) == U16(pack.bytes, Entry(pack, i) + 3)
EntryInside(pack, i) == EntryOffset(pack, i) + EntryLength(pack, i) <= pack.size
CodeOf(pack, i) ==
    SubSeq(pack.bytes, EntryOffset(pack, i) + 1, EntryOffset(pack, i) + EntryLength(pack, i))

IsFirst(pack, i, id) == /\ EntryId(pack, i) = id
                        /\ \A j \in 0 .. i - 1 : EntryId(pack, j) # id

\* content_find_scene: the first entry with the id, unless an entry up to it
\* lies outside the pack.
FindScene(pack, id) ==
    IF HasMagic(pack, SceneMagic, 5) /\ pack.size >= 5 + 5 * U8(pack.bytes, 4)
    THEN LET found == { i \in 0 .. U8(pack.bytes, 4) - 1 :
                            /\ IsFirst(pack, i, id)
                            /\ \A j \in 0 .. i : EntryInside(pack, j) }
         IN  IF found = {} THEN Unreadable
             ELSE Readable(CodeOf(pack, CHOOSE i \in found : TRUE))
    ELSE Unreadable

\* Mutant: the last entry with the id.
LoadLastScene(pack, id) ==
    IF HasMagic(pack, SceneMagic, 5)
    THEN LET found == { i \in 0 .. U8(pack.bytes, 4) - 1 :
                            /\ pack.size >= Entry(pack, i) + 5
                            /\ EntryId(pack, i) = id
                            /\ \A j \in i + 1 .. U8(pack.bytes, 4) - 1 :
                                   pack.size >= Entry(pack, j) + 5 => EntryId(pack, j) # id
                            /\ EntryLength(pack, i) \in 1 .. CodeMax
                            /\ EntryInside(pack, i) }
         IN  IF found = {} THEN Unreadable
             ELSE Readable(CodeOf(pack, CHOOSE i \in found : TRUE))
    ELSE Unreadable

\* prv_begin_scene: entries are read one by one up to the scene's, so the rest
\* of the directory may be missing; an empty scene or one longer than the
\* buffer is refused.
LoadScene(pack, id) ==
    IF HasMagic(pack, SceneMagic, 5)
    THEN LET found == { i \in 0 .. U8(pack.bytes, 4) - 1 :
                            /\ pack.size >= Entry(pack, i) + 5
                            /\ IsFirst(pack, i, id)
                            /\ EntryLength(pack, i) \in 1 .. CodeMax
                            /\ EntryInside(pack, i) }
         IN  IF found = {} THEN Unreadable
             ELSE Readable(CodeOf(pack, CHOOSE i \in found : TRUE))
    ELSE Unreadable
-----------------------------------------------------------------------------
(* strings.bin: a count, then offset and length of each text *)

TextEntry(id) == 6 + 3 * id
TextLength(pack, id) == U8(pack.bytes, TextEntry(id) + 2)
TextInside(pack, id) == U16(pack.bytes, TextEntry(id)) + TextLength(pack, id) <= pack.size

\* content_read_string: the text and its final zero fit in the buffer.
FindsText(pack, id, buffer) ==
    /\ HasMagic(pack, StringMagic, 6)
    /\ id < U16(pack.bytes, 4)
    /\ pack.size >= 6 + 3 * U16(pack.bytes, 4)
    /\ TextInside(pack, id)
    /\ TextLength(pack, id) + 1 <= buffer

\* prv_load_resource_string.  Reading no bytes at all succeeds anywhere.
LoadsText(pack, id, buffer) ==
    /\ HasMagic(pack, StringMagic, 6)
    /\ id < U16(pack.bytes, 4)
    /\ pack.size >= TextEntry(id) + 3
    /\ TextLength(pack, id) + 1 <= buffer
    /\ TextInside(pack, id) \/ TextLength(pack, id) = 0
=============================================================================
