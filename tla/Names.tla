-------------------------------- MODULE Names --------------------------------
(***************************************************************************)
(* File names on their way between the kernel and JavaScript: the escape   *)
(* of core/anyfs_name.c, its JavaScript mirror core/names.ts, and the      *)
(* legacy decoding of labels in core/anyfs_legacy.c.                       *)
(*                                                                         *)
(* A byte string is a sequence of 1 .. 255 (no NUL inside).  A JavaScript  *)
(* string is a sequence of code points.  In displayed text the four        *)
(* characters \xNN of byte b are the one unit HexUnit(b).                  *)
(***************************************************************************)
EXTENDS Integers, Sequences, SequencesExt

\* The terminating NUL is what a read past the last byte finds.
At(s, i) == IF i \in DOMAIN s THEN s[i] ELSE 0

IsCont(b) == b \in 128 .. 191

\* Length of the strict UTF-8 sequence at s[i], 0 if there is none.
utf8_seq(s, i) ==
  LET c == At(s, i)
      second(lo, hi) == At(s, i + 1) \in lo .. hi
  IN  CASE c < 128          -> 1
        [] c \in 194 .. 223 -> IF IsCont(At(s, i + 1)) THEN 2 ELSE 0
        [] c \in 224 .. 239 ->
             IF /\ second(IF c = 224 THEN 160 ELSE 128, IF c = 237 THEN 159 ELSE 191)
                /\ IsCont(At(s, i + 2))
             THEN 3 ELSE 0
        [] c \in 240 .. 244 ->
             IF /\ second(IF c = 240 THEN 144 ELSE 128, IF c = 244 THEN 143 ELSE 191)
                /\ IsCont(At(s, i + 2)) /\ IsCont(At(s, i + 3))
             THEN 4 ELSE 0
        [] OTHER -> 0

is_escape_char(s, i) ==
  At(s, i) = 238 /\ At(s, i + 1) \in {190, 191} /\ IsCont(At(s, i + 2))

\* U+EF00 + b in UTF-8.
EscapeByte(b) == <<238, IF b >= 192 THEN 191 ELSE 190, 128 + (b % 64)>>

\* A slip: characters already in the private range pass through.
EscapeFrom_Private(s) ==
  LET f[i \in 1 .. Len(s) + 1] ==
        IF i > Len(s) THEN <<>>
        ELSE LET n == utf8_seq(s, i)
             IN  IF n > 0 THEN SubSeq(s, i, i + n - 1) \o f[i + n]
                 ELSE EscapeByte(s[i]) \o f[i + 1]
  IN  f[1]

\* The bytes of s from i on, escaped; f[i] walks s by whole sequences.
EscapeFrom(s) ==
  LET f[i \in 1 .. Len(s) + 1] ==
        IF i > Len(s) THEN <<>>
        ELSE LET n == utf8_seq(s, i)
             IN  IF n > 0 /\ ~ (n = 3 /\ is_escape_char(s, i))
                 THEN SubSeq(s, i, i + n - 1) \o f[i + n]
                 ELSE LET k == IF n > 0 THEN n ELSE 1
                      IN  FlattenSeq([j \in 1 .. k |-> EscapeByte(s[i + j - 1])]) \o f[i + k]
  IN  f[1]

\* Both directions write nothing when the result and its NUL do not fit.
Fit(out, cap) ==
  IF Len(out) >= cap THEN [n |-> -1, out |-> <<>>] ELSE [n |-> Len(out), out |-> out]

anyfs_name_escape(s, cap) == Fit(EscapeFrom(s), cap)

UnescapeFrom(s) ==
  LET f[i \in 1 .. Len(s) + 3] ==
        IF i > Len(s) THEN <<>>
        ELSE IF is_escape_char(s, i)
        THEN <<(IF s[i + 1] = 191 THEN 192 ELSE 128) + (s[i + 2] % 64)>> \o f[i + 3]
        ELSE <<s[i]>> \o f[i + 1]
  IN  f[1]

anyfs_name_unescape(s, cap) == Fit(UnescapeFrom(s), cap)

NAME_ESCAPE_MAX(n) == (3 * n) + 1

----------------------------------------------------------------------------
(* core/names.ts *)

\* TextDecoder on valid UTF-8, as UTF8ToString and JSON.parse hand it over.
JsString(b) ==
  LET cp(i, n) == CASE n = 1 -> b[i]
                    [] n = 2 -> ((b[i] % 32) * 64) + (b[i + 1] % 64)
                    [] n = 3 -> ((b[i] % 16) * 4096) + ((b[i + 1] % 64) * 64) + (b[i + 2] % 64)
                    [] n = 4 -> ((b[i] % 8) * 262144) + ((b[i + 1] % 64) * 4096)
                                  + ((b[i + 2] % 64) * 64) + (b[i + 3] % 64)
      f[i \in 1 .. Len(b) + 1] ==
        IF i > Len(b) THEN <<>> ELSE LET n == utf8_seq(b, i) IN <<cp(i, n)>> \o f[i + n]
  IN  f[1]

\* TextEncoder.encode of one code point.
Utf8Encode(c) ==
  CASE c < 128   -> <<c>>
    [] c \in 128 .. 2047 -> <<192 + (c \div 64), 128 + (c % 64)>>
    [] c \in 2048 .. 65535 -> <<224 + (c \div 4096), 128 + ((c \div 64) % 64), 128 + (c % 64)>>
    [] OTHER -> <<240 + (c \div 262144), 128 + ((c \div 4096) % 64),
                  128 + ((c \div 64) % 64), 128 + (c % 64)>>

isEscape(c) == c \in 61312 .. 61439            \* ESC_FIRST .. ESC_LAST

hasEscapedBytes(js) == \E i \in DOMAIN js : isEscape(js[i])

nameToBytes(js) ==
  FlattenSeq([i \in DOMAIN js |-> IF isEscape(js[i]) THEN <<js[i] - 61184>> ELSE Utf8Encode(js[i])])

HexUnit(b) == 2000000 + b

hexEscaped(js) == [i \in DOMAIN js |-> IF isEscape(js[i]) THEN HexUnit(js[i] - 61184) ELSE js[i]]

\* decodes: the TextDecoder accepts the bytes of the name.
displayName(js, enc, decodes) ==
  IF ~ hasEscapedBytes(js) THEN [by |-> "utf8", text |-> js]
  ELSE IF enc # "off" /\ decodes THEN [by |-> enc, text |-> nameToBytes(js)]
  ELSE [by |-> "hex", text |-> hexEscaped(js)]

----------------------------------------------------------------------------
(* core/anyfs_legacy.c *)

Encodings == <<"off", "gb18030", "big5", "shift_jis", "euc-kr", "windows-1252">>

\* Index of the OEM codepage in the ANYFS_MOUNT_FAT_CP_* field.
anyfs_legacy_fat_flag(enc) ==
  CASE enc = "gb18030" -> 1 [] enc = "big5" -> 2 [] enc = "shift_jis" -> 3
    [] enc = "euc-kr" -> 4  [] OTHER -> 0

\* A locale is [two, rest, subs]: the first two letters of the language, what
\* follows them in the language, and the subtags after it ("zh_Hans_HK" and
\* "zh-Hans-HK" are one locale, "kok_IN" is "ko", "k", <<"IN">>).
Unset == [two |-> "", rest |-> "", subs |-> <<>>]

Traditional == {"TW", "HK", "MO", "Hant"}

\* The first of LC_ALL, LC_CTYPE and LANG that is not empty decides.  The
\* language is compared by its first two letters (strncmp), the subtags are
\* looked for anywhere (strstr).  On Windows the ANSI codepage decides.
anyfs_legacy_auto(env) ==
  LET set == SelectSeq(env.vars, LAMBDA v : v # Unset)
      v   == IF set = <<>> THEN Unset ELSE set[1]
  IN  IF env.os = "win"
      THEN CASE env.acp \in {936, 54936} -> "gb18030"
             [] env.acp = 950 -> "big5"
             [] env.acp = 932 -> "shift_jis"
             [] env.acp = 949 -> "euc-kr"
             [] OTHER -> "windows-1252"
      ELSE CASE v.two = "zh" -> IF ToSet(v.subs) \cap Traditional # {} THEN "big5" ELSE "gb18030"
             [] v.two = "ja" -> "shift_jis"
             [] v.two = "ko" -> "euc-kr"
             [] OTHER -> "windows-1252"

\* "" stands for a name the table does not know (-1).
anyfs_legacy_parse(name, env) ==
  IF name = "auto" THEN anyfs_legacy_auto(env)
  ELSE IF \E i \in DOMAIN Encodings : Encodings[i] = name THEN name ELSE ""

\* names.ts on a BCP 47 tag: the language ends at a word boundary, and only
\* the subtag right after it counts.
defaultLegacyEncoding(v) ==
  LET is(lang) == v.two = lang /\ v.rest = ""
  IN  CASE is("zh") -> IF v.subs # <<>> /\ v.subs[1] \in Traditional THEN "big5" ELSE "gb18030"
        [] is("ja") -> "shift_jis"
        [] is("ko") -> "euc-kr"
        [] OTHER -> "windows-1252"

\* The two agree on a two-letter language with no script between it and the
\* region: zh_Hans_HK is Big5 here and GB18030 there, kok_IN Korean here only.
Comparable(v) == v.rest = "" /\ Len(v.subs) <= 1

fatCodepageFlag(enc) ==
  CASE enc = "gb18030" -> 1 [] enc = "big5" -> 2 [] enc = "shift_jis" -> 3
    [] enc = "euc-kr" -> 4  [] OTHER -> 0

\* Strict UTF-8, restated there without the length of the sequence.
valid_utf8(s) ==
  LET f[i \in 1 .. Len(s) + 4] ==
        IF i > Len(s) THEN TRUE
        ELSE LET c  == s[i]
                 n  == CASE c < 128 -> 1 [] c \in 194 .. 223 -> 2
                         [] c \in 224 .. 239 -> 3 [] c \in 240 .. 244 -> 4 [] OTHER -> 0
                 lo == CASE c = 224 -> 160 [] c = 240 -> 144 [] OTHER -> 128
                 hi == CASE c = 237 -> 159 [] c = 244 -> 143 [] OTHER -> 191
             IN  /\ n > 0
                 /\ n >= 3 => At(s, i + 1) \in lo .. hi
                 /\ \A k \in 1 .. n - 1 : IsCont(At(s, i + k))
                 /\ f[i + n]
  IN  f[1]

\* host_decode is the host's converter (iconv, MultiByteToWideChar): decodes
\* says that it takes the bytes and that its output fits.
anyfs_legacy_decode(s, enc, decodes) ==
  IF valid_utf8(s) THEN [by |-> "utf8", text |-> s]
  ELSE IF enc # "off" /\ decodes THEN [by |-> enc, text |-> s]
  ELSE [by   |-> "hex",
        text |-> [i \in DOMAIN s |->
                    IF s[i] < 128 \/ valid_utf8(<<s[i]>>) THEN s[i] ELSE HexUnit(s[i])]]
=============================================================================
