-------------------------------- MODULE Paths --------------------------------
(****************************************************************************)
(* The parsing and normalisation of paths. A path is a sequence of          *)
(* characters, of which only these are told apart: the two separators are   *)
(* one, and so is the prefix of a long path, which is four characters.      *)
(****************************************************************************)
EXTENDS Integers, Sequences, SequencesExt, FiniteSetsExt

Long == "\\\\?\\"
Sep == "/"
Dot == "."
Colon == ":"
Lower == "c"     \* a letter, in lower case and in upper case
Upper == "C"
Relative == "none"
Accented == "e"                     \* a character of UTF-16, two bytes in UTF-8
Bytes == <<"e1", "e2">>
Nul == "nul"

SizeOf(c) == IF c = Long THEN 4 ELSE 1

\* wio_analyze_root
analyze_root(path) ==
  LET prefix == IF path # <<>> /\ path[1] = Long THEN 1 ELSE 0
      rest == SubSeq(path, prefix + 1, Len(path))
      drive == Len(rest) >= 2 /\ rest[1] \in {Lower, Upper} /\ rest[2] = Colon
  IN  IF rest # <<>> /\ rest[1] = Sep
      THEN [prefix |-> prefix, root |-> prefix + 1, kind |-> "linux"]
      ELSE IF drive
      THEN [prefix |-> prefix, kind |-> "drive",
            root |-> prefix + (IF Len(rest) >= 3 /\ rest[3] = Sep THEN 3 ELSE 2)]
      ELSE [prefix |-> prefix, root |-> prefix, kind |-> Relative]

\* the place behind the last such character behind `from`, or `from`
AfterLast(path, c, from) ==
  LET found == {i \in from + 1 .. Len(path) : path[i] = c}
  IN  IF found = {} THEN from ELSE Max(found)

path_get_info(path) ==
  LET info == analyze_root(path)
      first_folder == AfterLast(path, Sep, info.root)
      last == SubSeq(path, first_folder + 1, Len(path))
      filename == IF last \in {<<Dot>>, <<Dot, Dot>>} THEN 0 ELSE Len(last)
  IN  [prefix |-> info.prefix, root |-> info.root, kind |-> info.kind,
       filename |-> filename,
       extension |-> Len(path) - AfterLast(path, Dot, first_folder),
       is_directory |-> filename = 0]

\* a separator is dropped behind another one, and there is one at the end
WithoutDoubles(rest) ==
  LET kept == FoldLeft(LAMBDA w, c : IF c = Sep /\ w # <<>> /\ w[Len(w)] = Sep THEN w ELSE Append(w, c),
                       <<>>, rest)
  IN  IF kept = <<>> \/ kept[Len(kept)] = Sep THEN kept ELSE Append(kept, Sep)

EndsWith(w, suffix) ==
  Len(w) >= Len(suffix) /\ SubSeq(w, Len(w) - Len(suffix) + 1, Len(w)) = suffix

\* mutant: up to the last separator in front of the "../"
ToParentShort(w, absolute) ==
  LET before == {i \in 1 .. Len(w) - 1 : w[i] = Sep}
  IN  IF before = {} THEN IF absolute THEN <<>> ELSE w
      ELSE SubSeq(w, 1, Max(before))

\* The parent of what was written, which ends in "../": up to the second of the
\* separators in front of it, or nothing when there are fewer; a relative path
\* in which there is none keeps what was written.
ToParent(w, absolute) ==
  LET before == {i \in 1 .. Len(w) - 1 : w[i] = Sep}
      last == Max(before)
  IN  IF before = {} THEN IF absolute THEN <<>> ELSE w
      ELSE IF before = {last} THEN <<>>
      ELSE SubSeq(w, 1, Max(before \ {last}))

\* the second pass: character by character, back by one directory at "../" and
\* by two characters at "./"
WithoutDots(rest, absolute) ==
  FoldLeft(LAMBDA w, c :
             LET written == Append(w, c) IN
             IF c # Sep THEN written
             ELSE IF EndsWith(written, <<Dot, Dot, Sep>>) THEN ToParent(written, absolute)
             ELSE IF EndsWith(written, <<Dot, Sep>>) THEN SubSeq(written, 1, Len(written) - 2)
             ELSE written,
           <<>>, rest)

AsDirectory(w) == IF w = <<>> \/ w[Len(w)] = Sep THEN w ELSE Append(w, Sep)
AsFile(w) == IF w = <<>> \/ w[Len(w)] # Sep THEN w ELSE Front(w)

\* wio_path_normalize; `as` is "directory", "file" or "same"
path_normalize(path, as, long) ==
  LET info == path_get_info(path)
      prefix == (IF long THEN <<Long>> ELSE <<>>)
                \o (CASE info.kind = "linux" -> <<Sep>>
                      [] info.kind = "drive" -> <<Upper, Colon, Sep>>
                      [] OTHER -> <<>>)
      rest == WithoutDots(WithoutDoubles(SubSeq(path, info.root + 1, Len(path))),
                          info.kind # Relative)
      to_dir == as = "directory" \/ (as = "same" /\ info.is_directory)
      typed == IF to_dir THEN AsDirectory(rest) ELSE AsFile(rest)
  IN  prefix \o (IF typed = <<>> /\ info.kind = Relative THEN <<Dot, Sep>> ELSE typed)

Extra == 32    \* IO_NORMALIZE_NEEDED_EXTRA_SIZE
Chars(path) == FoldLeft(LAMBDA n, c : n + SizeOf(c), 0, path)

-----------------------------------------------------------------------------
(* Paths on their way to the system, in UTF-16, and back.                   *)

wio_utf16_to_utf8(text) ==
  FoldLeft(LAMBDA w, c : IF c = Accented THEN w \o Bytes ELSE Append(w, c), <<>>, text)

wio_utf8_to_utf16(path) ==
  FoldLeft(LAMBDA w, c : IF w # <<>> /\ <<w[Len(w)], c>> = Bytes THEN Append(Front(w), Accented)
                         ELSE Append(w, c),
           <<>>, path)

\* every operation on a name begins with this
normalize_convert_to_utf16(path) == wio_utf8_to_utf16(path_normalize(path, "same", FALSE))

convert_to_utf8_normalize(text, as) == path_normalize(wio_utf16_to_utf8(text), as, FALSE)

\* what the system makes of a name: absolute, without dots
CurrentWorking == <<Upper, Colon, Sep, "w", Sep>>
GetFullPathNameW(text) ==
  LET kind == analyze_root(text).kind
      root == CASE kind = "drive" -> <<>>
                [] kind = "linux" -> <<Upper, Colon>>
                [] OTHER -> CurrentWorking
  IN  path_normalize(root \o text, "same", FALSE)

\* The text is converted at the size the system asked for, its terminator
\* included.
wio_malloc_full_path(text, as) == convert_to_utf8_normalize(Append(GetFullPathNameW(text), Nul), as)

path_get_full(path) == wio_malloc_full_path(normalize_convert_to_utf16(path), "same")

directory_get_current_working == convert_to_utf8_normalize(CurrentWorking, "directory")

-----------------------------------------------------------------------------
(* What a path denotes: the root, how far above the directory it is taken   *)
(* from it begins, and the names below.                                     *)

\* the components of what follows the root
Components(rest) ==
  LET ends == {i \in 1 .. Len(rest) + 1 : i = Len(rest) + 1 \/ rest[i] = Sep}
      from(i) == IF \E j \in ends : j < i THEN Max({j \in ends : j < i}) + 1 ELSE 1
  IN  SelectSeq([k \in 1 .. Len(rest) + 1 |->
                   IF k \in ends THEN SubSeq(rest, from(k), k - 1) ELSE <<>>],
                LAMBDA c : c # <<>>)

Denoted(path) ==
  LET info == analyze_root(path)
      step(at, c) ==
        IF c = <<Dot>> THEN at
        ELSE IF c # <<Dot, Dot>> THEN [at EXCEPT !.names = Append(@, c)]
        ELSE IF at.names # <<>> THEN [at EXCEPT !.names = Front(@)]
        ELSE IF info.kind # Relative THEN at
        ELSE [at EXCEPT !.ups = @ + 1]
  IN  [kind |-> info.kind,
       at |-> FoldLeft(step, [ups |-> 0, names |-> <<>>],
                       Components(SubSeq(path, info.root + 1, Len(path))))]

\* The paths that the second pass handles: no name ends in a dot, and the root is
\* not followed by another separator.
Handled(path) ==
  LET info == analyze_root(path)
      rest == SubSeq(path, info.root + 1, Len(path))
      names == Components(rest)
  IN  /\ \A i \in 1 .. Len(names) : names[i][Len(names[i])] = Dot => names[i] \in {<<Dot>>, <<Dot, Dot>>}
      /\ info.kind # Relative => rest = <<>> \/ rest[1] # Sep

\* Of a relative path that begins with more than one "../" the second pass drops
\* them in pairs.
ClimbsOnce(path) == Denoted(path).at.ups <= 1

\* The normalised path is in normal form: no empty component, no "." but for "./"
\* itself, ".." only in front; normalising again changes nothing, and it fits
\* into the buffer that is made for it. It denotes what the path did, which is
\* not claimed of relative paths that climb more than once. `out` is what
\* path_normalize returns.
Normalizes(path, as, long, out) ==
  LET rest == SubSeq(out, analyze_root(out).root + 1, Len(out))
      names == Components(rest)
  IN  /\ Handled(path) =>
           /\ ClimbsOnce(path) => Denoted(out) = Denoted(path)
           /\ \A i \in 1 .. Len(rest) - 1 : rest[i] = Sep => rest[i + 1] # Sep
           /\ \A i \in 1 .. Len(names) :
                /\ names[i] = <<Dot>> => rest = <<Dot, Sep>>
                /\ names[i] = <<Dot, Dot>> => \A j \in 1 .. i : names[j] = <<Dot, Dot>>
           /\ path_normalize(out, as, long) = out
      /\ Chars(out) < Chars(path) + Extra

\* The parts lie inside the path, the extension inside the file name, and the
\* file name, with nothing behind it, is the last component.
PartsNested(path) ==
  LET info == path_get_info(path)
      names == Components(SubSeq(path, info.root + 1, Len(path)))
  IN  /\ info.prefix <= info.root /\ info.root + info.filename <= Len(path)
      /\ info.extension <= info.filename
      /\ info.filename > 0 => names # <<>> /\ Len(names[Len(names)]) = info.filename

\* a path as the client reads it, up to its terminator
CString(path) ==
  LET ends == {i \in 1 .. Len(path) : path[i] = Nul}
  IN  IF ends = {} THEN path ELSE SubSeq(path, 1, Min(ends) - 1)

\* The absolute form of a path is normal and denotes what the path does from
\* the working directory, and so does what a listing makes of it. That a listed
\* directory ends in a separator is not claimed: the terminator is taken along,
\* and the separator that is added behind it is not part of the path any more.
\* `full` is what path_get_full returns, `listed` what a listing makes of the path.
FullPathRight(path, full, listed) ==
  LET out == CString(full)
      info == analyze_root(path)
      from == IF info.kind = Relative
              THEN directory_get_current_working \o SubSeq(path, info.root + 1, Len(path)) ELSE path
  IN  Handled(from) /\ Handled(path) /\ ClimbsOnce(path) =>
        /\ analyze_root(out).kind = "drive"
        /\ Denoted(out).at = Denoted(from).at
        /\ path_normalize(out, "same", FALSE) = out
        /\ \A as \in DOMAIN listed : Denoted(CString(listed[as])) = Denoted(out)
=============================================================================
