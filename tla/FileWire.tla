------------------------------ MODULE FileWire ------------------------------
(***************************************************************************)
(* The JSON of POST /api/control/files and the protobuf the device speaks  *)
(* (http/control_files_dto.rs): parameters into a FileRequest operation,   *)
(* a FileResponse into the reply's envelope.                               *)
(*                                                                         *)
(* A JSON value is [t, v]: a string, number, boolean or null, an object    *)
(* (v a record) or a list.  A parameter struct is the record of its        *)
(* fields' types; a type that serde fills in when the field is missing     *)
(* ends in ? (an Option) or names its default.  Unknown fields are dropped *)
(* (no struct denies them).  An untagged enum is the list of its variants, *)
(* the first that parses winning.  A protobuf enum is its member's name,   *)
(* or Unknown for a number this hub's schema does not have.                *)
(***************************************************************************)
EXTENDS Naturals, Sequences, FiniteSets, SequencesExt, FiniteSetsExt, TLC

CONSTANTS Lower,    \* to_ascii_lowercase on the words the requests use
          Base64    \* what STANDARD.decode makes of a text; the rest does not decode

Unknown == "unknown member"
Nothing == [t |-> "none", v |-> ""]   \* an absent Option
Invalid == [err |-> "INVALID_PARAMS"]
ToLower(s) == IF s \in DOMAIN Lower THEN Lower[s] ELSE s

----------------------------------------------------------------------------
StatParams == [path |-> "str", no_follow_symlink |-> "flag"]
ListParams == [path |-> "str", max_results |-> "num?", offset |-> "num?", include_hidden |-> "flag"]
GlobParams == [pattern |-> "str", base_path |-> "str?", max_results |-> "num?"]
ReadTextParams ==
    [path |-> "str", start |-> "TextStart?", max_lines |-> "num?", max_bytes |-> "num?",
     target_end |-> "FilePosition?", max_line_width |-> "num?", encoding |-> "str?",
     line_numbers |-> "flag", no_follow_symlink |-> "flag"]
TextStart == <<[start_line |-> "num"], [start_byte |-> "num"], [start_line_col |-> "LineCol"]>>
LineColJson == [line |-> "num", col |-> "zero"]
FilePositionJson == <<[line |-> "num"], [byte_offset |-> "num"], [line_col |-> "LineCol"]>>
ReadBinaryParams ==
    [path |-> "str", byte_offset |-> "zero", byte_length |-> "zero", max_bytes |-> "num?",
     no_follow_symlink |-> "flag"]
ReadImageParams ==
    [path |-> "str", max_width |-> "num?", max_height |-> "num?", max_bytes |-> "num?",
     quality |-> "num?", output_format |-> "str?", no_follow_symlink |-> "flag"]
ReadPdfParams ==
    [path |-> "str", mode |-> "str?", page_range |-> "PageRange?", no_follow_symlink |-> "flag"]
PdfPageRangeJson == [start_page |-> "num", end_page |-> "num"]
WriteParams ==
    [path |-> "str", create_parents |-> "flag", encoding |-> "str?", no_follow_symlink |-> "flag"]
FullWriteJson == [content |-> "str?", s3_object_key |-> "str?"]
AppendJson == [content |-> "str"]
StringReplaceJson == [old_string |-> "str", new_string |-> "str", replace_all |-> "flag"]
LineRangeReplaceJson == [start_line |-> "num", end_line |-> "num", new_content |-> "str"]
ByteRangeReplaceJson == [byte_offset |-> "num", byte_length |-> "num", new_content_b64 |-> "str"]
EditMethod ==
    <<[string_replace |-> "StringReplace"], [line_range_replace |-> "LineRangeReplace"],
      [byte_range_replace |-> "ByteRangeReplace"]>>
WriteMethod == <<[full_write |-> "FullWrite"], [append |-> "Append"]>> \o EditMethod
EditParams == [path |-> "str", encoding |-> "str?", no_follow_symlink |-> "flag"]
DeleteParams ==
    [path |-> "str", recursive |-> "flag", mode |-> "str?", no_follow_symlink |-> "flag"]
ChmodParams == [path |-> "str", recursive |-> "flag", no_follow_symlink |-> "flag"]
ChmodPermission == <<[unix |-> "Unix"], [windows |-> "Windows"]>>
UnixPermissionJson == [mode |-> "num?", owner |-> "str?", group |-> "str?"]
WindowsAclJson == [entries |-> "AclEntries"]
AclEntryJson == [principal |-> "str", access_mask |-> "num", entry_type |-> "str?"]
MkdirParams == [path |-> "str", recursive |-> "flag", mode |-> "num?"]
CopyParams == [source |-> "str", destination |-> "str", recursive |-> "flag", overwrite |-> "flag"]
MoveParams == [source |-> "str", destination |-> "str", overwrite |-> "flag"]
CreateSymlinkParams == [target |-> "str", link_path |-> "str"]

(* The structs and the untagged enums a field may hold.                    *)
Struct ==
    [LineCol |-> LineColJson, PageRange |-> PdfPageRangeJson, FullWrite |-> FullWriteJson,
     Append |-> AppendJson, StringReplace |-> StringReplaceJson,
     LineRangeReplace |-> LineRangeReplaceJson, ByteRangeReplace |-> ByteRangeReplaceJson,
     Unix |-> UnixPermissionJson, Windows |-> WindowsAclJson]
Untagged == [TextStart |-> TextStart, FilePosition |-> FilePositionJson]
Scalar == [str |-> "s", num |-> "n", zero |-> "n", flag |-> "b"]
Optional == [f \in {"str?", "num?", "TextStart?", "FilePosition?", "PageRange?"} |->
               CASE f = "str?" -> "str" [] f = "num?" -> "num" [] f = "TextStart?" -> "TextStart"
                 [] f = "FilePosition?" -> "FilePosition" [] OTHER -> "PageRange"]
Defaulted == DOMAIN Optional \cup {"zero", "flag"}

(* serde: a value of a type; a struct from an object, every field present  *)
(* or filled in.                                                           *)
RECURSIVE Parses(_, _), ParsesAs(_, _)
Parses(type, j) ==
    IF type \in DOMAIN Optional THEN j.t = "null" \/ Parses(Optional[type], j)
    ELSE IF type \in DOMAIN Scalar THEN j.t = Scalar[type]
    ELSE IF type = "AclEntries"
    THEN j.t = "l" /\ \A i \in DOMAIN j.v : j.v[i].t = "o" /\ ParsesAs(AclEntryJson, j.v[i].v)
    ELSE IF type \in DOMAIN Struct THEN j.t = "o" /\ ParsesAs(Struct[type], j.v)
    ELSE j.t = "o" /\ \E i \in DOMAIN Untagged[type] : ParsesAs(Untagged[type][i], j.v)
ParsesAs(struct, obj) ==
    \A f \in DOMAIN struct :
        IF f \in DOMAIN obj THEN Parses(struct[f], obj[f]) ELSE struct[f] \in Defaulted

Default(type) ==
    CASE type = "flag" -> [t |-> "b", v |-> "false"] [] type = "zero" -> [t |-> "n", v |-> "0"]
      [] OTHER -> Nothing
Fields(struct, obj) ==
    [f \in DOMAIN struct |->
        IF f \in DOMAIN obj /\ obj[f].t # "null" THEN obj[f] ELSE Default(struct[f])]

(* The variant an untagged enum takes, 0 when none parses.                 *)
Variant(variants, obj) ==
    LET fits == {i \in DOMAIN variants : ParsesAs(variants[i], obj)}
    IN  IF fits = {} THEN 0 ELSE Min(fits)

----------------------------------------------------------------------------
(* A word for an enum: absent or empty is the default; the default is      *)
(* matched as it is, the others in any case; anything else is an error.    *)
Word(default, others, j) ==
    IF j.t = "none" \/ j.v \in {"", default} THEN default
    ELSE IF ToLower(j.v) \in DOMAIN others THEN others[ToLower(j.v)]
    ELSE Unknown

ImageFormatOf(j) ==
    Word("original", [jpeg |-> "jpeg", jpg |-> "jpeg", png |-> "png", webp |-> "webp"], j)
PdfModeOf(j) ==
    Word("auto", [m \in {"auto", "metadata", "raw", "imgs", "text"} |-> m], j)
MutDeleteModeOf(j) == IF ToLower(j.v) = "permanent" THEN "permanent" ELSE "trash"
DeleteModeOf(j) == Word("trash", [m \in {"trash", "permanent"} |-> m], j)
AclEntryTypeOf(j) == Word("allow", [m \in {"allow", "deny"} |-> m], j)

(* The struct's fields with one replaced by what its word means.           *)
WithWord(fields, f, word) ==
    IF word = Unknown THEN Invalid ELSE [fields EXCEPT ![f] = [t |-> "e", v |-> word]]

(* The oneof of a write, an edit or a chmod.                               *)
Oneof(variants, obj) ==
    LET i == Variant(variants, obj)
        f == CHOOSE x \in DOMAIN variants[i] : TRUE
    IN  [method |-> f, with |-> Fields(Struct[variants[i][f]], obj[f].v)]

FullWriteSource(w) ==
    IF (w.content.t = "none") = (w.s3_object_key.t = "none") THEN Invalid ELSE w
ByteRangeReplaceOf(w) ==
    IF w.new_content_b64.v \in DOMAIN Base64
    THEN [w EXCEPT !.new_content_b64 = [t |-> "e", v |-> Base64[w.new_content_b64.v]]]
    ELSE Invalid
AclEntriesOf(w) ==
    LET entry(i) == Fields(AclEntryJson, w.entries.v[i].v)
        words == [i \in DOMAIN w.entries.v |-> AclEntryTypeOf(entry(i).entry_type)]
    IN  IF \E i \in DOMAIN words : words[i] = Unknown THEN Invalid
        ELSE [entries |-> [i \in DOMAIN words |-> WithWord(entry(i), "entry_type", words[i])]]

(* FileWrite, FileEdit, FileChmod: the method's own conversion.            *)
MethodOf(one) ==
    CASE one.method = "full_write" -> FullWriteSource(one.with)
      [] one.method = "byte_range_replace" -> ByteRangeReplaceOf(one.with)
      [] one.method = "windows" -> AclEntriesOf(one.with)
      [] OTHER -> one.with

Flattened(struct, variants, obj) ==
    IF Variant(variants, obj) = 0 THEN Invalid
    ELSE LET one == Oneof(variants, obj)
             with == MethodOf(one)
         IN  IF with = Invalid THEN Invalid
             ELSE Fields(struct, obj) @@ [method |-> one.method, with |-> with]

FileReadText(obj) ==
    LET fields == Fields(ReadTextParams, obj)
        chosen(f, variants) ==
            IF fields[f].t = "none" THEN Nothing
            ELSE LET v == variants[Variant(variants, fields[f].v)]
                 IN  [t |-> "e", v |-> Fields(v, fields[f].v)]
    IN  [fields EXCEPT !.start = chosen("start", TextStart),
                       !.target_end = chosen("target_end", FilePositionJson)]
FileReadImage(obj) ==
    LET fields == Fields(ReadImageParams, obj)
    IN  WithWord(fields, "output_format", ImageFormatOf(fields.output_format))
FileReadPdf(obj) ==
    LET fields == Fields(ReadPdfParams, obj) IN WithWord(fields, "mode", PdfModeOf(fields.mode))
FileDelete(obj) ==
    LET fields == Fields(DeleteParams, obj) IN WithWord(fields, "mode", DeleteModeOf(fields.mode))

Params ==
    [stat |-> StatParams, list |-> ListParams, glob |-> GlobParams, read_text |-> ReadTextParams,
     read_binary |-> ReadBinaryParams, read_image |-> ReadImageParams, read_pdf |-> ReadPdfParams,
     write |-> WriteParams, edit |-> EditParams, delete |-> DeleteParams, chmod |-> ChmodParams,
     mkdir |-> MkdirParams, copy |-> CopyParams, move |-> MoveParams,
     create_symlink |-> CreateSymlinkParams]

build_request_operation(op, obj) ==
    IF op \notin DOMAIN Params THEN [err |-> "UNKNOWN_OPERATION"]
    ELSE IF ~ParsesAs(Params[op], obj) THEN Invalid
    ELSE CASE op = "write" -> Flattened(WriteParams, WriteMethod, obj)
           [] op = "edit" -> Flattened(EditParams, EditMethod, obj)
           [] op = "chmod" -> Flattened(ChmodParams, ChmodPermission, obj)
           [] op = "read_text" -> FileReadText(obj)
           [] op = "read_image" -> FileReadImage(obj)
           [] op = "read_pdf" -> FileReadPdf(obj)
           [] op = "delete" -> FileDelete(obj)
           [] OTHER -> Fields(Params[op], obj)

----------------------------------------------------------------------------
(* Protobuf enums as the wire's words; a number out of the schema falls    *)
(* back to the member the code names.                                      *)
Spell(words, fallback, member) == IF member = Unknown THEN words[fallback] ELSE words[member]

file_error_code_to_str(c) ==
    Spell([Unspecified |-> "unspecified", NotFound |-> "not_found",
           PermissionDenied |-> "permission_denied", AlreadyExists |-> "already_exists",
           NotADirectory |-> "not_a_directory", IsADirectory |-> "is_a_directory",
           NotEmpty |-> "not_empty", TooLarge |-> "too_large", InvalidPath |-> "invalid_path",
           Io |-> "io", Encoding |-> "encoding", MultipleMatches |-> "multiple_matches",
           PolicyDenied |-> "policy_denied"], "Unspecified", c)
file_type_to_str(m) ==
    Spell([File |-> "file", Directory |-> "directory", Symlink |-> "symlink", Other |-> "other"],
          "Other", m)
write_action_to_str(m) ==
    Spell([Created |-> "created", Overwritten |-> "overwritten", Appended |-> "appended",
           Edited |-> "edited"], "Created", m)
delete_mode_to_str(m) == Spell([trash |-> "trash", permanent |-> "permanent"], "trash", m)
image_format_to_str(m) == Spell([f \in {"original", "jpeg", "png", "webp"} |-> f], "original", m)
read_pdf_mode_to_str(m) ==
    Spell([f \in {"auto", "metadata", "raw", "imgs", "text"} |-> f], "auto", m)
windows_acl_to_json(acl) ==
    [i \in DOMAIN acl |-> Spell([allow |-> "allow", deny |-> "deny"], "allow", acl[i])]
stop_reason_to_str(m) ==
    Spell([Unspecified |-> "unspecified", MaxLines |-> "max_lines", MaxBytes |-> "max_bytes",
           TargetEnd |-> "target_end", FileEnd |-> "file_end", Error |-> "error"], "Unspecified", m)

(* STANDARD.encode, the other way round.                                   *)
Encoded(bytes) == CHOOSE s \in DOMAIN Base64 : Base64[s] = bytes

(* The results' fields that are converted; those copied as they are stand  *)
(* for themselves.                                                         *)
stat_result_to_json(r) ==
    [r EXCEPT !.file_type = file_type_to_str(@), !.windows_acl = windows_acl_to_json(@)]
entries_to_json(r) == [r EXCEPT !.entries = [i \in DOMAIN @ |-> file_type_to_str(@[i])]]
read_text_result_to_json(r) == [r EXCEPT !.stop_reason = stop_reason_to_str(@)]
read_binary_result_to_json(r) == [r EXCEPT !.content = Encoded(@)]
read_image_result_to_json(r) ==
    [r EXCEPT !.content = Encoded(@), !.format = image_format_to_str(@)]
read_pdf_result_to_json(r) ==
    [r EXCEPT !.mode = read_pdf_mode_to_str(@),
              !.raw_content = IF @ = "" THEN Nothing ELSE Encoded(@),
              !.images = [i \in DOMAIN @ |-> image_format_to_str(@[i])]]
write_result_to_json(r) == [r EXCEPT !.action = write_action_to_str(@)]
delete_result_to_json(r) == [r EXCEPT !.mode = delete_mode_to_str(@)]

(* The result's own variant decides, not the operation asked for.          *)
ResultJson(variant, r) ==
    CASE variant = "stat" -> stat_result_to_json(r)
      [] variant \in {"list", "glob"} -> entries_to_json(r)
      [] variant = "read_text" -> read_text_result_to_json(r)
      [] variant = "read_binary" -> read_binary_result_to_json(r)
      [] variant = "read_image" -> read_image_result_to_json(r)
      [] variant = "read_pdf" -> read_pdf_result_to_json(r)
      [] variant = "write" -> write_result_to_json(r)
      [] variant = "delete" -> delete_result_to_json(r)
      [] OTHER -> r

NoBody == [none |-> ""]

build_response_envelope(response, op) ==
    LET fails(code) == [operation |-> op, success |-> FALSE, result |-> NoBody, error |-> code]
    IN  CASE response.variant = "Error" -> fails(file_error_code_to_str(response.code))
          [] response.variant = "None" -> fails("unspecified")
          [] OTHER -> [operation |-> op, success |-> TRUE, error |-> "",
                       result |-> ResultJson(response.variant, response.body)]
=============================================================================
