------------------------------- MODULE Bytes -------------------------------
(***************************************************************************)
(* Byte strings as the recording files and the streaming messages use      *)
(* them: what struct, json, zlib, lz4 and zstandard put into bytes and get *)
(* back out of them.                                                       *)
(*                                                                         *)
(* A byte string is a sequence of cells.  The cell of a number or of the   *)
(* padding is a byte with its value, so that a field read at the wrong     *)
(* offset or with the wrong width gives the wrong number here too.  A text,*)
(* a float or a compressed or JSON block is opaque: its cells say whose    *)
(* they are, and it can be read back only from all of them in order.       *)
(* Reading raises or gives a value: <<>> or <<v>>.                         *)
(***************************************************************************)
EXTENDS Integers, Sequences, SequencesExt, FiniteSetsExt

Raises == <<>>
Gives(v) == <<v>>

Byte(b) == <<"byte", b, 1, 1>>

(* An unsigned integer of w bytes, little-endian; integers stay below      *)
(* 2^24, and what is more when it is read back is Huge.                    *)
Huge == 256^3
Uint16 == 0..(256^2 - 1)

U(n, w) == [k \in 1..w |-> Byte(IF k > 3 THEN 0 ELSE (n \div 256^(k - 1)) % 256)]

Number(cells) ==
    LET b(k) == IF k \in DOMAIN cells THEN cells[k][2] ELSE 0 IN
    IF \A k \in DOMAIN cells : cells[k][1] = "byte" /\ (k > 3 => b(k) = 0)
    THEN b(1) + 256 * b(2) + 256^2 * b(3)
    ELSE Huge

(* The w cells of an opaque value, and the value they are the cells of.    *)
Opaque(kind, v, w) == [k \in 1..w |-> <<kind, v, k, w>>]

Whole(kind, cells) ==
    IF cells # <<>> /\ cells[1][1] = kind /\ cells = Opaque(kind, cells[1][2], cells[1][4])
    THEN Gives(cells[1][2]) ELSE Raises

(* A float, a signed integer or a flag of w bytes; any w bytes are some    *)
(* value, but other ones are another value.                                *)
Other == "other"
Scalar(x, w) == Opaque("scalar", x, w)
AsScalar(cells) == IF Whole("scalar", cells) = Raises THEN Other
                   ELSE Whole("scalar", cells)[1]

(* data[off : off + n], which Python cuts at the end of data.              *)
At(data, off, n) ==
    IF off >= Len(data) THEN <<>> ELSE SubSeq(data, off + 1, Min({off + n, Len(data)}))

From(data, off) == At(data, off, Len(data))
Tailing(data, n) == SubSeq(data, Len(data) - n + 1, Len(data))
Upto(data, n) == SubSeq(data, 1, n)

(* A text is a sequence of cells already; a fixed field cuts it or pads it *)
(* with zeros, and reading strips the zeros at the end.                    *)
Text(name, n) == Opaque("text", name, n)
Str(text, w) == SubSeq(text \o U(0, w), 1, w)
Stripped(cells) ==
    Upto(cells, Max({0} \cup {k \in DOMAIN cells : cells[k] # Byte(0)}))
IsUtf8(cells) == \A k \in DOMAIN cells : cells[k][1] = "byte" => cells[k][2] < 128

Json(v, w) == Opaque("json", v, w)
Compressed(algorithm, raw) == Opaque(algorithm, raw, 9)
Crc32(data) == Opaque("crc", data, 4)
=============================================================================
