-------------------------------- MODULE Sbuf --------------------------------
(***************************************************************************)
(* libsbuf: one string buffer and its caller (sbuf.c).                     *)
(*                                                                         *)
(* text is the string in s_buf; s_len is its length, less what it has gone *)
(* below 0.  A call that loops - over the bytes it appends, over attempts  *)
(* to print, over drains - is taken apart: pc is the loop it is in and     *)
(* todo what it has still to append.  Each drain may take any part of the  *)
(* string, or fail, each vsnprintf may return a negative value, and each   *)
(* malloc may fail; when that of sbuf_new does, it leaves nothing behind.  *)
(* sent is what the caller has appended, less what it took back; out is    *)
(* what the drain was given.  The assertions are compiled in with DEBUG    *)
(* only, and then print a message and go on; the caller respects those     *)
(* that say how to call (state, drain, section).                           *)
(***************************************************************************)
EXTENDS Integers, Sequences

CONSTANTS Bytes, Space,  \* characters; Space is the one that isspace
          Lengths,       \* lengths of the buffers that are asked for
          Kinds,         \* and what else is asked: arguments of sbuf_new
          Strings,       \* what is appended in one call
          Pads,          \* paddings of a section
          MinExtend,     \* SBUF_MINEXTENDSIZE
          MaxExtend,     \* SBUF_MAXEXTENDSIZE, SBUF_MAXEXTENDINCR
          MaxSent,       \* bound on what is appended in all
          MaxUnder,      \* bound on how far s_len goes below 0
          MaxNested      \* bound on the sections open inside each other

ASSUME StringsAssumption == Strings \subseteq Seq(Bytes)

ASSUME ExtendAssumption ==
    MinExtend \in Nat /\ MaxExtend \in Nat /\ 0 < MinExtend /\ MinExtend <= MaxExtend

ASSUME LengthsAssumption == Lengths \subseteq Nat

ASSUME UnderAssumption == MaxUnder \in Nat

\* No padding is appended for pad <= 1, so 1 stands for them all.
ASSUME PadsAssumption == Pads \subseteq Nat \ {0}

VARIABLES flags,       \* s_flags, and "SBUF" while there is a buffer
          text,        \* the s_len bytes at s_buf
          under,       \* what s_len is below 0
          s_size, s_error, s_sect_len,
          drain,       \* s_drain_func # NULL
          given,       \* s_buf is the caller's memory
          heap,        \* blocks allocated and not freed
          overrun,     \* history: something was written at or after s_size
          before,      \* history: something was written in front of this s_buf
          saved,       \* the caller's old_len variables, innermost last
          pc, todo,
          sent, out,   \* history
          marks,       \* history: Len(sent) where each open section starts
          cut,         \* history: sbuf_vprintf did not store it all and set no error
          loose,       \* history: text from before an open section was taken away
          torn         \* history: a format failed while the string was empty

struct == <<flags, s_size, s_error, s_sect_len, drain, given>>
caller == <<saved, marks>>
string == <<text, under>>
stray == <<overrun, before>>
flaws == <<cut, loose, torn>>
vars == <<struct, string, heap, stray, caller, pc, todo, sent, out, flaws>>

Flags == {"SBUF", "AUTOEXTEND", "DYNAMIC", "FINISHED", "DYNSTRUCT", "INSECTION"}

Has(f) == f \in flags

TextTypeOK ==
    /\ flags \subseteq Flags
    /\ text \in Seq(Bytes)
    /\ s_size \in Nat
    /\ s_error \in BOOLEAN
    /\ s_sect_len \in Int
    /\ drain \in BOOLEAN /\ given \in BOOLEAN /\ overrun \in BOOLEAN
    /\ cut \in BOOLEAN /\ loose \in BOOLEAN
    /\ heap \in 0 .. 2
    /\ saved \in Seq(Int) /\ marks \in Seq(Nat)
    /\ pc \in {"idle", "put", "print", "finish", "pad"}
    /\ todo \in Seq(Bytes) /\ sent \in Seq(Bytes) /\ out \in Seq(Bytes)

TypeOK ==
    /\ TextTypeOK
    /\ under \in Nat /\ before \in BOOLEAN /\ torn \in BOOLEAN

Zeroed ==
    /\ flags = {} /\ text = <<>> /\ under = 0
    /\ s_size = 0 /\ s_error = FALSE /\ s_sect_len = 0
    /\ drain = FALSE /\ given = FALSE

Init ==
    /\ Zeroed
    /\ heap = 0 /\ overrun = FALSE /\ before = FALSE
    /\ saved = <<>> /\ marks = <<>>
    /\ cut = FALSE /\ loose = FALSE /\ torn = FALSE
    /\ pc = "idle" /\ todo = <<>>
    /\ sent = <<>> /\ out = <<>>

s_len == Len(text) - under

\* SBUF_FREESPACE
Free == s_size - (s_len + 1)

Unfinished == pc = "idle" /\ Has("SBUF") /\ ~Has("FINISHED")

Chunk(s, k) == SubSeq(s, 1, k)
Rest(s, k) == SubSeq(s, k + 1, Len(s))

-----------------------------------------------------------------------------
(* Sizes *)

\* newsize after k turns of the loop of sbuf_extendsize.
Newsize[k \in Nat] == IF k = 0 THEN MinExtend ELSE 2 * Newsize[k - 1]

\* The loop ends when newsize is not below n.
Doubled(n) ==
    Newsize[CHOOSE k \in 0 .. n : Newsize[k] >= n /\ (k = 0 \/ Newsize[k - 1] < n)]

\* Mutant: the size is not doubled.
sbuf_extendsize_once(n) ==
    IF n < MaxExtend THEN MinExtend
    ELSE ((n + MaxExtend - 1) \div MaxExtend) * MaxExtend

sbuf_extendsize(n) ==
    IF n < MaxExtend THEN Doubled(n)
    ELSE ((n + MaxExtend - 1) \div MaxExtend) * MaxExtend

\* Mutant: the old buffer is not freed.
sbuf_extend_leak(add) ==
    /\ s_size' = sbuf_extendsize(s_size + add)
    /\ flags' = flags \cup {"DYNAMIC"}
    /\ heap' = IF heap = 2 THEN 2 ELSE heap + 1
    /\ given' = FALSE

\* sbuf_extend, when it succeeds: the string moves to a new block, and the old
\* one is freed unless it is the caller's.
sbuf_extend(add) ==
    /\ s_size' = sbuf_extendsize(s_size + add)
    /\ flags' = flags \cup {"DYNAMIC"}
    /\ heap' = IF Has("DYNAMIC") THEN heap ELSE heap + 1
    /\ given' = FALSE

\* sbuf_drain, when the function takes k bytes.
Drained(k) ==
    /\ out' = out \o Chunk(text, k)
    /\ text' = Rest(text, k)

-----------------------------------------------------------------------------
(* Making, clearing, deleting *)

\* own: sbuf_new allocates the struct; buf: the caller passes its own memory.
\* A caller asks for room for a character and the terminator, or for a buffer
\* that sbuf_newbuf sizes itself, as sbuf_new_auto does with length 0; smaller
\* buffers are not refused, but break assert_sbuf_integrity.
sbuf_new(own, buf, length, auto) ==
    /\ pc = "idle" /\ ~Has("SBUF")
    /\ length >= 2 \/ (auto /\ ~buf)
    /\ flags' = {"SBUF"} \cup (IF auto THEN {"AUTOEXTEND"} ELSE {})
                         \cup (IF buf THEN {} ELSE {"DYNAMIC"})
                         \cup (IF own THEN {"DYNSTRUCT"} ELSE {})
    /\ s_size' = IF auto /\ ~buf THEN sbuf_extendsize(length) ELSE length
    /\ heap' = (IF own THEN 1 ELSE 0) + (IF buf THEN 0 ELSE 1)
    /\ given' = buf
    /\ UNCHANGED <<string, s_error, s_sect_len, drain, stray, caller, pc, todo,
                   sent, out, flaws>>

Cleared ==
    /\ flags' = flags \ {"FINISHED"}
    /\ text' = <<>> /\ under' = 0
    /\ s_error' = FALSE
    /\ s_sect_len' = 0
    /\ cut' = FALSE
    /\ loose' = (loose \/ Has("INSECTION"))
    /\ torn' = torn

sbuf_clear ==
    /\ pc = "idle" /\ Has("SBUF")
    /\ Cleared
    /\ sent' = out
    /\ UNCHANGED <<s_size, drain, given, heap, stray, caller, pc, todo, out>>

sbuf_delete ==
    /\ pc = "idle" /\ Has("SBUF")
    /\ heap' = heap - (IF Has("DYNAMIC") THEN 1 ELSE 0)
                    - (IF Has("DYNSTRUCT") THEN 1 ELSE 0)
    /\ flags' = {} /\ text' = <<>> /\ under' = 0
    /\ s_size' = 0 /\ s_error' = FALSE /\ s_sect_len' = 0
    /\ drain' = FALSE /\ given' = FALSE
    /\ saved' = <<>> /\ marks' = <<>>
    /\ sent' = <<>> /\ out' = <<>>
    /\ before' = FALSE
    /\ cut' = FALSE /\ loose' = FALSE /\ torn' = FALSE
    /\ UNCHANGED <<overrun, pc, todo>>

\* on: the function is not NULL.  The drain of a string that is not empty is not
\* changed.
sbuf_set_drain(on) ==
    /\ Unfinished /\ text = <<>>
    /\ drain' = on
    /\ UNCHANGED <<flags, s_size, s_error, s_sect_len, given, string, heap,
                   stray, caller, pc, todo, sent, out, flaws>>

\* The caller does not seek past the end of the buffer or inside a section;
\* a position after the end of the string is refused.
sbuf_setpos(pos) ==
    /\ Unfinished /\ ~Has("INSECTION")
    /\ pos <= s_len
    /\ text' = Chunk(text, pos)
    /\ sent' = Chunk(sent, Len(sent) - (Len(text) - pos))
    /\ UNCHANGED <<struct, under, heap, stray, caller, pc, todo, out, flaws>>

Blanks(s) ==
    CHOOSE k \in 0 .. Len(s) :
       /\ \A i \in Len(s) - k + 1 .. Len(s) : s[i] = Space
       /\ k = Len(s) \/ s[Len(s) - k] # Space

sbuf_trim ==
    LET k == Blanks(text)
    IN  /\ Unfinished /\ ~drain /\ ~s_error
        /\ text' = Chunk(text, Len(text) - k)
        /\ sent' = Chunk(sent, Len(sent) - k)
        /\ s_sect_len' = IF Has("INSECTION") THEN s_sect_len - k ELSE s_sect_len
        /\ loose' = (loose \/ (Has("INSECTION") /\ s_sect_len < k))
        /\ UNCHANGED <<flags, s_size, s_error, drain, given, under, heap, stray,
                       caller, pc, todo, out, cut, torn>>

-----------------------------------------------------------------------------
(* Appending *)

Promise(s) ==
    /\ Len(sent) + Len(s) <= MaxSent
    /\ sent' = sent \o s

\* sbuf_bcat, sbuf_cat, sbuf_putc
sbuf_bcat(s) ==
    /\ Unfinished /\ ~s_error
    /\ Promise(s)
    /\ todo' = s
    /\ pc' = "put"
    /\ UNCHANGED <<struct, string, heap, stray, caller, out, flaws>>

\* sbuf_bcpy, sbuf_cpy
sbuf_bcpy(s) ==
    /\ Unfinished
    /\ Cleared
    /\ Len(out) + Len(s) <= MaxSent
    /\ sent' = out \o s
    /\ todo' = s
    /\ pc' = "put"
    /\ UNCHANGED <<s_size, drain, given, heap, stray, caller, out>>

Stored ==
    /\ todo' = Tail(todo)
    /\ s_sect_len' = IF Has("INSECTION") THEN s_sect_len + 1 ELSE s_sect_len

\* The byte is stored at s_len, which had better be inside the buffer.
Store(c, t, size) ==
    /\ Stored
    /\ text' = Append(t, c)
    /\ overrun' = (overrun \/ Len(t) >= size)
    /\ UNCHANGED <<under, before>>

\* Mutant: the test leaves no room for the terminator.
Full_late == Free < 0

Full == Free <= 0

Appending == pc \in {"put", "pad"} /\ todo # <<>> /\ ~s_error

\* sbuf_put_byte: there is room.
put_byte ==
    /\ Appending /\ ~Full /\ under = 0
    /\ Store(todo[1], text, s_size)
    /\ UNCHANGED <<flags, s_size, s_error, drain, given, heap, caller, pc, sent, out, flaws>>

\* There is room, and s_len is negative: the byte is stored in front of the buffer.
put_byte_before ==
    /\ Appending /\ ~Full /\ under > 0
    /\ Stored
    /\ under' = under - 1
    /\ before' = TRUE
    /\ UNCHANGED <<flags, s_size, s_error, drain, given, text, overrun, heap, caller,
                   pc, sent, out, flaws>>

\* Mutant: what the drain did not take is not moved to the front.
put_byte_drained_unmoved ==
    \E k \in 1 .. Len(text) :
       /\ Appending /\ Full /\ drain
       /\ out' = out \o Chunk(text, k)
       /\ Store(todo[1], Chunk(text, Len(text) - k), s_size)
       /\ UNCHANGED <<flags, s_size, s_error, drain, given, heap, caller, pc, sent, flaws>>

\* There is none, and the drain makes some.
put_byte_drained ==
    \E k \in 1 .. Len(text) :
       /\ Appending /\ Full /\ drain
       /\ out' = out \o Chunk(text, k)
       /\ Store(todo[1], Rest(text, k), s_size)
       /\ UNCHANGED <<flags, s_size, s_error, drain, given, heap, caller, pc, sent, flaws>>

\* There is none, no drain either, and the buffer is extended.
put_byte_extended ==
    /\ Appending /\ Full /\ ~drain /\ Has("AUTOEXTEND")
    /\ sbuf_extend(1)
    /\ Store(todo[1], text, sbuf_extendsize(s_size + 1))
    /\ UNCHANGED <<s_error, drain, caller, pc, sent, out, flaws>>

Failed ==
    /\ s_error' = TRUE
    /\ UNCHANGED <<flags, s_size, s_sect_len, drain, given, string, heap, stray,
                   caller, pc, todo, sent, out, flaws>>

\* There is none, no drain either, and the buffer may not be extended.
put_byte_full ==
    /\ Appending /\ Full /\ ~drain /\ ~Has("AUTOEXTEND")
    /\ Failed

\* The drain or malloc fails.
put_byte_fails ==
    /\ Appending /\ Full /\ (drain \/ Has("AUTOEXTEND"))
    /\ Failed

\* The loop of sbuf_bcat and sbuf_cat is over.
put_end ==
    /\ pc = "put" /\ (todo = <<>> \/ s_error)
    /\ pc' = "idle" /\ todo' = <<>>
    /\ UNCHANGED <<struct, string, heap, stray, caller, sent, out, flaws>>

\* sbuf_printf, sbuf_vprintf, up to the loop
sbuf_vprintf(s) ==
    /\ Unfinished /\ ~s_error
    /\ Promise(s)
    /\ todo' = s
    /\ pc' = "print"
    /\ UNCHANGED <<struct, string, heap, stray, caller, out, flaws>>

\* Each attempt to print writes at s_len, were it only a terminator.
Attempt ==
    /\ pc = "print"
    /\ before' = (before \/ under > 0)

\* The end of sbuf_vprintf: as much as fits is in the string, but for what went to
\* the front of the buffer.
Printed(s, err) ==
    /\ text' = text \o Rest(s, under)
    /\ under' = IF Len(s) < under THEN under - Len(s) ELSE 0
    /\ s_sect_len' = IF Has("INSECTION") THEN s_sect_len + Len(s) ELSE s_sect_len
    /\ s_error' = (err \/ (s_len' >= s_size - 1 /\ ~Has("AUTOEXTEND")))
    /\ pc' = "idle" /\ todo' = <<>>
    /\ UNCHANGED <<flags, s_size, drain, given, heap, overrun, caller, sent, out>>

print_fits ==
    /\ Attempt /\ Free >= Len(todo)
    /\ Printed(todo, FALSE)
    /\ UNCHANGED flaws

\* vsnprintf returns -1, which is no more than Free.
print_unformatted ==
    /\ Attempt
    /\ text # <<>> \/ under < MaxUnder
    /\ text' = Chunk(text, Len(text) - 1)
    /\ under' = IF text = <<>> THEN under + 1 ELSE 0
    /\ s_sect_len' = IF Has("INSECTION") THEN s_sect_len - 1 ELSE s_sect_len
    /\ pc' = "idle" /\ todo' = <<>>
    /\ cut' = TRUE
    /\ loose' = (loose \/ (Has("INSECTION") /\ s_sect_len < 1))
    /\ torn' = (torn \/ text = <<>>)
    /\ UNCHANGED <<flags, s_size, s_error, drain, given, heap, overrun, caller, sent, out>>

print_drained ==
    /\ Attempt /\ Free < Len(todo) /\ drain
    /\ \E k \in 1 .. Len(text) : Drained(k)
    /\ UNCHANGED <<struct, under, heap, overrun, caller, pc, todo, sent, flaws>>

print_extended ==
    /\ Attempt /\ Free < Len(todo) /\ ~(drain /\ text # <<>>)
    /\ Has("AUTOEXTEND")
    /\ sbuf_extend(Len(todo) - Free)
    /\ UNCHANGED <<string, s_error, s_sect_len, drain, overrun, caller, pc, todo,
                   sent, out, flaws>>

print_full ==
    /\ Attempt /\ Free < Len(todo) /\ ~(drain /\ text # <<>>)
    /\ ~Has("AUTOEXTEND")
    /\ Printed(Chunk(todo, Free), FALSE)
    /\ UNCHANGED flaws

\* The drain fails, which is an error; or malloc, and then the text is cut off.
print_fails ==
    /\ Attempt /\ Free < Len(todo)
    /\ \/ /\ drain /\ text # <<>>
          /\ Printed(Chunk(todo, Free), TRUE)
          /\ UNCHANGED cut
       \/ /\ ~(drain /\ text # <<>>) /\ Has("AUTOEXTEND")
          /\ Printed(Chunk(todo, Free), FALSE)
          /\ cut' = TRUE
    /\ UNCHANGED <<loose, torn>>

-----------------------------------------------------------------------------
(* Finishing *)

sbuf_finish ==
    /\ Unfinished
    /\ pc' = "finish"
    /\ UNCHANGED <<struct, string, heap, stray, caller, todo, sent, out, flaws>>

finish_drained ==
    /\ pc = "finish" /\ drain /\ ~s_error
    /\ \E k \in 1 .. Len(text) : Drained(k)
    /\ UNCHANGED <<struct, under, heap, stray, caller, pc, todo, sent, flaws>>

finish_fails ==
    /\ pc = "finish" /\ drain /\ ~s_error /\ text # <<>>
    /\ Failed

\* The terminator is stored at s_len.
finish_end ==
    /\ pc = "finish" /\ (drain => text = <<>> \/ s_error)
    /\ overrun' = (overrun \/ Len(text) >= s_size)
    /\ before' = (before \/ under > 0)
    /\ flags' = flags \cup {"FINISHED"}
    /\ pc' = "idle"
    /\ UNCHANGED <<s_size, s_error, s_sect_len, drain, given, string, heap, caller,
                   todo, sent, out, flaws>>

-----------------------------------------------------------------------------
(* Sections *)

\* Bounds: MaxNested sections, and lengths up to MaxSent.
sbuf_start_section ==
    /\ Unfinished
    /\ Len(saved) < MaxNested /\ s_sect_len \in -1 .. MaxSent
    /\ flags' = flags \cup {"INSECTION"}
    /\ saved' = Append(saved, IF Has("INSECTION") THEN s_sect_len ELSE -1)
    /\ s_sect_len' = IF Has("INSECTION") THEN 0 ELSE s_sect_len
    /\ marks' = Append(marks, Len(sent))
    /\ UNCHANGED <<s_size, s_error, drain, given, string, heap, stray, pc, todo,
                   sent, out, flaws>>

\* roundup(s_sect_len, pad) - s_sect_len
Missing(pad) == ((s_sect_len + pad - 1) \div pad) * pad - s_sect_len

\* sbuf_end_section up to its loop, which appends bytes of padding; no padding
\* is appended for pad <= 1 or after an error.  (After sbuf_trim, or after a format
\* has failed, the length may be negative.  The rounding is unsigned, and then comes
\* to the same while the length + pad - 1 is not negative: a bound.)
sbuf_end_section(pad, c) ==
    LET fill == IF s_error THEN <<>> ELSE [i \in 1 .. Missing(pad) |-> c]
    IN  /\ Unfinished /\ Has("INSECTION") /\ saved # <<>>
        /\ pad = 1 \/ s_sect_len + pad > 0
        /\ Promise(fill)
        /\ todo' = fill
        /\ pc' = "pad"
        /\ UNCHANGED <<struct, string, heap, stray, caller, out, flaws>>

\* Mutant: the length of the section around is not added.
end_section_flat ==
    LET old == saved[Len(saved)]
    IN  /\ pc = "pad" /\ (todo = <<>> \/ s_error)
        /\ s_sect_len' = IF old = -1 THEN 0 ELSE old
        /\ flags' = IF old = -1 THEN flags \ {"INSECTION"} ELSE flags
        /\ saved' = Chunk(saved, Len(saved) - 1)
        /\ marks' = Chunk(marks, Len(marks) - 1)
        /\ pc' = "idle" /\ todo' = <<>>
        /\ UNCHANGED <<s_size, s_error, drain, given, string, heap, stray, sent, out, flaws>>

end_section ==
    LET old == saved[Len(saved)]
    IN  /\ pc = "pad" /\ (todo = <<>> \/ s_error)
        /\ s_sect_len' = IF old = -1 THEN 0 ELSE s_sect_len + old
        /\ flags' = IF old = -1 THEN flags \ {"INSECTION"} ELSE flags
        /\ saved' = Chunk(saved, Len(saved) - 1)
        /\ marks' = Chunk(marks, Len(marks) - 1)
        /\ pc' = "idle" /\ todo' = <<>>
        /\ UNCHANGED <<s_size, s_error, drain, given, string, heap, stray, sent, out, flaws>>

-----------------------------------------------------------------------------

Call ==
    \/ \E own, buf, auto \in BOOLEAN, n \in Lengths :
          <<own, buf, auto>> \in Kinds /\ sbuf_new(own, buf, n, auto)
    \/ sbuf_clear \/ sbuf_delete \/ sbuf_trim
    \/ \E on \in BOOLEAN : sbuf_set_drain(on)
    \/ \E pos \in 0 .. Len(text) : sbuf_setpos(pos)
    \/ \E s \in Strings : sbuf_bcat(s) \/ sbuf_bcpy(s) \/ sbuf_vprintf(s)
    \/ sbuf_finish
    \/ sbuf_start_section
    \/ \E pad \in Pads, c \in Bytes : sbuf_end_section(pad, c)

Loop ==
    \/ put_byte \/ put_byte_before \/ put_byte_drained \/ put_byte_extended \/ put_byte_full \/ put_end
    \/ print_fits \/ print_drained \/ print_extended \/ print_full
    \/ finish_drained \/ finish_end
    \/ end_section

Fault == put_byte_fails \/ print_fails \/ print_unformatted \/ finish_fails

Next == Call \/ Loop \/ Fault

Spec == Init /\ [][Next]_vars

\* A call of the library goes on; drains and malloc need not fail.
FairSpec == Spec /\ WF_vars(Loop)

-----------------------------------------------------------------------------
(* Properties *)

\* The string and its terminator end inside the buffer, whatever was appended,
\* drained and extended: assert_sbuf_integrity, checked where the code checks it
\* and at the stores themselves.  They begin inside it as well, s_len is not
\* negative and nothing is written in front of s_buf, unless vsnprintf has returned
\* a negative value while the string was empty (sbuf_vprintf does not tell it from
\* a length): then s_len is -1, until the next byte is stored at s_buf[-1] or the
\* buffer is cleared.
Integrity ==
    /\ TypeOK
    /\ Has("SBUF") => s_len < s_size
    /\ ~overrun
    /\ s_len < 0 => torn /\ cut
    /\ before => torn

\* Nothing is lost, doubled or reordered: without an error, what was drained
\* followed by what is in the buffer is what the caller appended and did not take
\* back, however drains and extensions cut it up (sbuf_put_byte, sbuf_vprintf).
\* The exceptions are those of cut, in which sbuf_vprintf returns 0: when malloc
\* fails it stores what fits into an extensible buffer, and when vsnprintf fails it
\* stores nothing and drops the last byte of what was there.
NothingLost ==
    pc = "idle" /\ ~s_error => cut \/ out \o text = sent

\* A buffer block is freed when it is replaced and when the sbuf is deleted, and
\* the caller's own memory never is (sbuf_extend, sbuf_delete).
BlocksAccounted ==
    /\ Has("DYNAMIC") <=> Has("SBUF") /\ ~given
    /\ heap = (IF Has("DYNAMIC") THEN 1 ELSE 0) + (IF Has("DYNSTRUCT") THEN 1 ELSE 0)

\* The length of the innermost open section is the number of bytes appended since
\* it was started, subsections and their padding included, less what sbuf_trim took
\* away, across drains (sbuf_start_section, sbuf_end_section).  The exceptions are
\* text that was cut off or a format that failed, whose -1 is added to the length,
\* and text from before a section that was taken away inside it, by sbuf_clear, which
\* leaves the lengths saved for the sections around as they were, or by sbuf_trim or
\* a format that fails, which make the length negative: -1 even means, when it is
\* saved and handed back, that there is no section around.
SectionExact ==
    pc = "idle" /\ ~s_error /\ ~cut /\ ~loose =>
       /\ Has("INSECTION") <=> saved # <<>>
       /\ s_sect_len = IF saved = <<>> THEN 0 ELSE Len(sent) - marks[Len(marks)]

\* Every call returns: the attempts of sbuf_vprintf and the drains of sbuf_finish
\* come to an end.
CallsReturn == pc # "idle" ~> pc = "idle"

-----------------------------------------------------------------------------
(* The invariant that makes the safety properties inductive *)

\* Before sbuf_new and after sbuf_delete nothing is left.
NoBuffer ==
    ~Has("SBUF") =>
       /\ Zeroed /\ heap = 0 /\ pc = "idle"
       /\ saved = <<>> /\ marks = <<>> /\ ~cut /\ ~loose
       /\ sent = <<>> /\ out = <<>>

\* At every step of every loop, what was drained, what is in the buffer and what
\* is still to be appended are what the caller appended.
Conserved ==
    /\ pc \in {"idle", "finish"} => todo = <<>>
    /\ pc = "print" => ~s_error
    /\ ~s_error /\ ~cut => sent = out \o (text \o todo)

\* The lengths saved for the sections around: -1 says that there is none, and is
\* saved for the outermost only.
Nested ==
    /\ Len(saved) = Len(marks)
    /\ pc = "pad" => saved # <<>>
    /\ ~loose => /\ Has("INSECTION") <=> saved # <<>>
                 /\ s_sect_len >= 0
                 /\ saved = <<>> => s_sect_len = 0
                 /\ \A k \in DOMAIN saved : IF k = 1 THEN saved[k] = -1 ELSE saved[k] >= 0

\* s_sect_len and the saved lengths, in the bytes that have been appended so far.
Measured ==
    ~s_error /\ ~cut /\ ~loose =>
       /\ saved # <<>> => s_sect_len = Len(sent) - Len(todo) - marks[Len(marks)]
       /\ \A k \in DOMAIN saved : k > 1 => saved[k] = marks[k] - marks[k - 1]

\* The string is inside the buffer.
Within ==
    /\ TextTypeOK
    /\ Has("SBUF") => Len(text) < s_size
    /\ ~overrun

\* s_len is below 0 only after a format has failed, and while there is no string.
Short ==
    /\ TypeOK
    /\ under > 0 => text = <<>> /\ torn /\ cut
    /\ before => torn

Core ==
    /\ Within /\ BlocksAccounted /\ NoBuffer
    /\ Conserved /\ Nested /\ Measured

IInv == Core /\ Short

=============================================================================
