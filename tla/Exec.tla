---------------------------------- MODULE Exec ----------------------------------
(***************************************************************************)
(* Loading a program: user_prepare_elf and user_exec of                    *)
(* kernel/arch/x86_64/user.c with sys_exec in front of them.  Addresses    *)
(* are counted in cells, U of them to a page; a cell holds a tag that says *)
(* where its value comes from.  The loader runs with interrupts off, so a  *)
(* whole exec is one step; what is kept is its control: the two passes     *)
(* over the segments, the reservations, the relocations, the interpreter,  *)
(* the trampoline page, the process image on the stack, and the failure    *)
(* path back to the old tables.                                            *)
(***************************************************************************)
EXTENDS Integers, Sequences, FiniteSets, FiniteSetsExt, Functions

CONSTANTS U,            \* cells of a page
          VFloor,       \* USER_VFLOOR, USER_VBASE, USER_STACK_TOP and
          VBase,        \*   SIGRETURN_TRAMP_VA, in pages
          StackTop,
          Tramp,
          StackPages,   \* USER_STACK_PAGES
          Biases,       \* pages pick_code_base can return
          Tops,         \* pages pick_stack_top can return
          Disk,         \* path -> ELF file, see below
          Fallbacks,    \* the interpreter candidates, in order
          ArgLists,     \* what a program passes: <<argv, envp>>, each the
                        \*   sequence of its strings' lengths
          MaxRegions    \* MAX_USER_REGIONS

(* A file: [ok, kind, segs, rela, interp, marked, entry].  "ok" is the     *)
(* header test, "kind" the ELF type, "interp" the PT_INTERP path or "",    *)
(* "marked" says that some other header shows a Linux binary.  A segment:  *)
(* [va, mem, file, inside, x, w] in cells; a relocation: [at, add].        *)

VARIABLES image,     \* [pages, regions, entry, sp, name]
          abi,       \* t->linux_abi
          handlers,  \* t->sig_handlers installed
          arena,     \* the pages of mmap_next/brk beyond their bases
          how        \* history: the exec that made the image

vars == <<image, abi, handlers, arena, how>>

-----------------------------------------------------------------------------
(* Faulty variants of the definitions below.                               *)

FlagsOfPageByFile(f, b, p) ==
  LET over == {i \in DOMAIN f.segs : b + f.segs[i].va < (p + 1) * U
                              /\ b + f.segs[i].va + f.segs[i].file > p * U}
  IN  [x |-> \E i \in over : f.segs[i].x,
       w |-> \E i \in over : f.segs[i].w]

EnvStartNaive(strings, argv) == strings

KeepOrRestoreForgets(old, new) == [old EXCEPT !.regions = new.regions]

-----------------------------------------------------------------------------
(* Regions and pages.                                                      *)

PageDown(c) == c \div U
PageUp(c) == (c + U - 1) \div U

NewTables == [pages |-> << >>, regions |-> << >>]

(* vmm_reserve_in without its eager mapping *)
CanReserve(im, start, n) ==
  /\ n > 0
  /\ VFloor <= start /\ start + n <= StackTop
  /\ \A i \in DOMAIN im.regions :
       LET r == im.regions[i] IN start >= r[1] + r[2] \/ start + n <= r[1]
  /\ Len(im.regions) < MaxRegions

Reserve(im, start, n) == [im EXCEPT !.regions = Append(@, <<start, n>>)]

ZeroPage(w, x) == [data |-> [c \in 0 .. U - 1 |-> <<"zero">>], w |-> w, x |-> x]

MapPage(im, p, pg) ==
  [im EXCEPT !.pages = [q \in DOMAIN @ \union {p} |-> IF q = p THEN pg ELSE @[q]]]

Put(im, at, val) ==
  [im EXCEPT !.pages[PageDown(at)].data[at % U] = val]

At(im, c) == im.pages[PageDown(c)].data[c % U]

-----------------------------------------------------------------------------
(* load_user_elf_into: pass 1.                                             *)

MinVa(f) == (IF f.kind = "exec" THEN VFloor ELSE VBase) * U

HeaderOk(f) == f.ok /\ f.kind \in {"dyn", "exec"} /\ f.segs # << >>

SegmentsOk(f, b) ==
  \A i \in DOMAIN f.segs :
    LET s == f.segs[i]
    IN  b + s.va >= MinVa(f) /\ b + s.va + s.mem <= StackTop * U /\ s.inside

FirstVa(f, b) == Min({PageDown(b + f.segs[i].va) : i \in DOMAIN f.segs})
LastVa(f, b) == Max({PageUp(b + f.segs[i].va + f.segs[i].mem) : i \in DOMAIN f.segs})

CanLoad(im, f, b) ==
  /\ HeaderOk(f)
  /\ SegmentsOk(f, b)
  /\ LastVa(f, b) > FirstVa(f, b)
  /\ CanReserve(im, FirstVa(f, b), LastVa(f, b) - FirstVa(f, b))

(* Pass 2: the bytes of one page, the later segment written over the       *)
(* earlier one, and the union of the permissions of its segments.          *)
Source(f, b, c) ==
  LET over == {i \in DOMAIN f.segs : b + f.segs[i].va <= c
                                  /\ c < b + f.segs[i].va + f.segs[i].file}
  IN  IF over = {} THEN <<"zero">>
      ELSE LET i == Max(over) IN <<"file", f.id, i, c - b - f.segs[i].va>>

FlagsOfPage(f, b, p) ==
  LET over == {i \in DOMAIN f.segs : b + f.segs[i].va < (p + 1) * U
                              /\ b + f.segs[i].va + f.segs[i].mem > p * U}
  IN  [x |-> \E i \in over : f.segs[i].x,
       w |-> over = {} \/ \E i \in over : f.segs[i].w]

LoadPages(im, f, b) ==
  LET span == FirstVa(f, b) .. LastVa(f, b) - 1
      page(p) == [data |-> [c \in 0 .. U - 1 |-> Source(f, b, p * U + c)],
                  w |-> FlagsOfPage(f, b, p).w, x |-> FlagsOfPage(f, b, p).x]
  IN  [Reserve(im, FirstVa(f, b), LastVa(f, b) - FirstVa(f, b)) EXCEPT !.pages =
         [p \in DOMAIN @ \union span |-> IF p \in span THEN page(p) ELSE @[p]]]

(* apply_relocations: bias plus addend into every R_X86_64_RELATIVE slot   *)
Relocated(im, f, b) ==
  LET slot(c) == {r \in f.rela : b + r.at = c}
  IN  [im EXCEPT !.pages = [p \in DOMAIN @ |->
         [@[p] EXCEPT !.data = [c \in DOMAIN @ |->
            IF slot(p * U + c) = {} THEN @[c]
            ELSE <<"ptr", b + (CHOOSE r \in slot(p * U + c) : TRUE).add>>]]]]

Loaded(im, f, b) == Relocated(LoadPages(im, f, b), f, b)

(* user_map_trampoline: silently nothing when the page is taken            *)
WithTrampoline(im) ==
  IF CanReserve(im, Tramp, 1)
  THEN MapPage(Reserve(im, Tramp, 1), Tramp,
               [ZeroPage(FALSE, TRUE) EXCEPT !.data[0] = <<"sigreturn">>])
  ELSE im

-----------------------------------------------------------------------------
(* build_user_stack_into: from the top down a spare cell, the strings (the *)
(* AT_RANDOM blob first), the auxiliary vector, envp, argv and argc.       *)

SumTo(lens, n) == FoldFunctionOnSet(+, 0, lens, 1 .. n)
Total(lens) == SumTo(lens, Len(lens))
Blob(aux) == IF aux = << >> THEN 0 ELSE 1

StringsAt(top, argv, envp, aux) ==
  top * U - 1 - (Blob(aux) + Total(argv) + Total(envp))
AuxAt(top, argv, envp, aux) ==
  StringsAt(top, argv, envp, aux) - 2 * Len(aux)
EnvAt(top, argv, envp, aux) == AuxAt(top, argv, envp, aux) - (Len(envp) + 1)
ArgvAt(top, argv, envp, aux) == EnvAt(top, argv, envp, aux) - (Len(argv) + 1)
StackPointer(top, argv, envp, aux) == ArgvAt(top, argv, envp, aux) - 1

EnvStart(strings, argv) == strings + Total(argv)

(* the strings of a list laid out one after the other from a cell on       *)
Strings(tag, lens, from) ==
  {<<from + SumTo(lens, i - 1) + k, <<tag, i, k>>>> :
     <<i, k>> \in {<<i, k>> \in (1 .. Len(lens)) \X (0 .. 8) : k < lens[i]}}
Pointers(lens, from, strings) ==
  {<<from + i - 1, <<"ptr", strings + SumTo(lens, i - 1)>>>> : i \in 1 .. Len(lens)}
    \union {<<from + Len(lens), <<"null">>>>}
AuxValue(pair, strings) ==
  CASE pair[1] = "RANDOM" -> strings
    [] pair[1] = "EXECFN" -> strings + 1
    [] OTHER -> pair[2]

ProcessImage(top, argv, envp, aux) ==
  LET blob == StringsAt(top, argv, envp, aux)
      text == blob + Blob(aux)
      auxv == AuxAt(top, argv, envp, aux)
      pairs == UNION {{<<auxv + 2 * i - 2, <<"type", aux[i][1]>>>>,
                       <<auxv + 2 * i - 1, <<"val", AuxValue(aux[i], blob)>>>>}
                        : i \in DOMAIN aux}
  IN  Strings("arg", argv, text)
        \union Strings("env", envp, text + Total(argv))
        \union Pointers(envp, EnvAt(top, argv, envp, aux), EnvStart(text, argv))
        \union Pointers(argv, ArgvAt(top, argv, envp, aux), text)
        \union {<<StackPointer(top, argv, envp, aux), <<"argc", Len(argv)>>>>}
        \union pairs
        \union (IF aux = << >> THEN {} ELSE {<<blob, <<"random">>>>})

WithStack(im, top, argv, envp, aux) ==
  LET low == top - StackPages
      writes == ProcessImage(top, argv, envp, aux)
      page(p) == [ZeroPage(TRUE, FALSE) EXCEPT !.data = [c \in DOMAIN @ |->
                    IF \E w \in writes : w[1] = p * U + c
                    THEN (CHOOSE w \in writes : w[1] = p * U + c)[2] ELSE @[c]]]
  IN  [Reserve(im, low, StackPages) EXCEPT !.pages =
         [p \in DOMAIN @ \union (low .. top - 1) |->
            IF p \in low .. top - 1 THEN page(p) ELSE @[p]]]

-----------------------------------------------------------------------------
(* user_exec.                                                              *)

IsLinux(f) ==
  f.ok /\ (f.kind = "exec" \/ (f.kind = "dyn" /\ (f.interp # "" \/ f.marked)))

(* vfs_lookup of the interpreter, then of the fallbacks in turn            *)
InterpPath(f) ==
  IF f.interp \in DOMAIN Disk THEN f.interp
  ELSE LET there == {i \in DOMAIN Fallbacks : Fallbacks[i] \in DOMAIN Disk}
       IN  IF there = {} THEN "" ELSE Fallbacks[Min(there)]

InterpBase(f, b) == Max({LastVa(f, b) + 1, VBase}) * U

HasInterp(im, f, b) ==
  /\ IsLinux(f) /\ f.interp # "" /\ InterpPath(f) # ""
  /\ CanLoad(im, Disk[InterpPath(f)], InterpBase(f, b))

WithInterp(im, f, b) ==
  IF HasInterp(im, f, b) THEN Loaded(im, Disk[InterpPath(f)], InterpBase(f, b)) ELSE im

Entry(im, f, b) ==
  IF HasInterp(im, f, b) THEN InterpBase(f, b) + Disk[InterpPath(f)].entry
  ELSE b + f.entry

(* The auxiliary vector with its terminator; a native program gets the     *)
(* terminator alone, because the array is handed over either way.          *)
Auxv(im, f, b) ==
  (IF IsLinux(f)
   THEN << <<"PHDR", b + f.segs[1].va>>,
           <<"BASE", IF HasInterp(im, f, b) THEN InterpBase(f, b) ELSE 0>>,
           <<"ENTRY", b + f.entry>>, <<"RANDOM", 0>>, <<"EXECFN", 0>> >>
   ELSE << >>) \o << <<"NULL", 0>> >>

Finished(im, entry, sp, name) ==
  [pages |-> im.pages, regions |-> im.regions, entry |-> entry, sp |-> sp, name |-> name]

(* The image user_exec leaves: the new one, or the old one again when a    *)
(* reservation on the way failed.                                          *)
KeepOrRestore(old, new) == old

Exec(path, argv, envp, bias, top) ==
  LET f == Disk[path]
      b == IF f.kind = "exec" THEN 0 ELSE bias * U
      main == Loaded(NewTables, f, b)
      full == WithTrampoline(WithInterp(main, f, b))
      aux == Auxv(main, f, b)
      done == /\ CanLoad(NewTables, f, b)
              /\ CanReserve(full, top - StackPages, StackPages)
  IN  \/ /\ done
         /\ image' = Finished(WithStack(full, top, argv, envp, aux), Entry(main, f, b),
                              StackPointer(top, argv, envp, aux), path)
         /\ abi' = IsLinux(f)
         /\ handlers' = FALSE
         /\ arena' = {}
         /\ how' = [path |-> path, bias |-> b, argv |-> argv, envp |-> envp, ok |-> TRUE]
      \/ /\ ~done
         /\ image' = KeepOrRestore(image, IF CanLoad(NewTables, f, b) THEN full ELSE NewTables)
         /\ how' = [how EXCEPT !.ok = FALSE]
         /\ UNCHANGED <<abi, handlers, arena>>

(* user_prepare_elf for the first program: no interpreter, argv = "init",  *)
(* no auxiliary vector                                                     *)
Prepare(path, bias, top) ==
  LET f == Disk[path]
      b == bias * U
      full == WithTrampoline(Loaded(NewTables, f, b))
  IN  /\ CanLoad(NewTables, f, b)
      /\ CanReserve(full, top - StackPages, StackPages)
      /\ image = Finished(WithStack(full, top, <<1>>, << >>, << >>), b + f.entry,
                          StackPointer(top, <<1>>, << >>, << >>), path)
      /\ how = [path |-> path, bias |-> b, argv |-> <<1>>, envp |-> << >>, ok |-> TRUE]

-----------------------------------------------------------------------------
(* The running program: it writes where it may, installs handlers and maps *)
(* memory.                                                                 *)

Run ==
  \E p \in DOMAIN image.pages :
    /\ image.pages[p].w
    /\ p = Min({q \in DOMAIN image.pages : image.pages[q].w})
    /\ image' = Put(image, p * U, <<"mine">>)
    /\ UNCHANGED <<abi, handlers, arena, how>>

Sigaction ==
  /\ handlers' = TRUE
  /\ UNCHANGED <<image, abi, arena, how>>

Mmap ==
  /\ arena' = {"grown"}
  /\ UNCHANGED <<image, abi, handlers, how>>

Init ==
  /\ \E path \in DOMAIN Disk, bias \in Biases, top \in Tops :
       Disk[path].kind = "dyn" /\ Disk[path].interp = "" /\ ~Disk[path].marked
         /\ Prepare(path, bias, top)
  /\ abi = FALSE
  /\ handlers = FALSE
  /\ arena = {}

Next ==
  \/ \E path \in DOMAIN Disk, call \in ArgLists, bias \in Biases, top \in Tops :
       Exec(path, call[1], call[2], bias, top)
  \/ Run \/ Sigaction \/ Mmap

Spec == Init /\ [][Next]_vars

-----------------------------------------------------------------------------
(* Properties.                                                             *)

(* Where a file's segment ends up: its bytes, then zeroes, then what the   *)
(* relocations put there                                                   *)
Expected(f, b, s, c) ==
  IF \E r \in f.rela : b + r.at = c
  THEN <<"ptr", b + (CHOOSE r \in f.rela : b + r.at = c).add>>
  ELSE IF c - b - f.segs[s].va < f.segs[s].file
       THEN <<"file", f.id, s, c - b - f.segs[s].va>> ELSE <<"zero">>

FileInPlace(f, b) ==
  \A s \in DOMAIN f.segs : \A c \in b + f.segs[s].va .. b + f.segs[s].va + f.segs[s].mem - 1 :
    /\ At(image, c) \in {Expected(f, b, s, c), <<"mine">>}
    /\ f.segs[s].w => image.pages[PageDown(c)].w
    /\ f.segs[s].x => image.pages[PageDown(c)].x

StringAt(tag, i, lens, ptr) ==
  ptr[1] = "ptr" /\ \A k \in 0 .. lens[i] - 1 : At(image, ptr[2] + k) = <<tag, i, k>>

(* Walking up from the stack pointer as _start does finds argc, every      *)
(* argument and every environment string                                   *)
ArgsInPlace ==
  LET n == Len(how.argv)
  IN  /\ At(image, image.sp) = <<"argc", n>>
      /\ \A i \in 1 .. n : StringAt("arg", i, how.argv, At(image, image.sp + i))
      /\ At(image, image.sp + n + 1) = <<"null">>
      /\ \A i \in 1 .. Len(how.envp) :
           StringAt("env", i, how.envp, At(image, image.sp + n + 1 + i))
      /\ At(image, image.sp + n + 2 + Len(how.envp)) = <<"null">>

RegionsExact ==
  /\ \A i, j \in DOMAIN image.regions : i < j =>
       LET r == image.regions[i] q == image.regions[j]
       IN  r[1] + r[2] <= q[1] \/ q[1] + q[2] <= r[1]
  /\ DOMAIN image.pages =
       UNION {r[1] .. r[1] + r[2] - 1 : r \in Range(image.regions)}

(* What user_exec and user_prepare_elf promise of the image a task runs:   *)
(* each segment is in memory byte for byte with zeroes after its file part *)
(* and with at least its own permissions on every page of its memory       *)
(* range, the entry point is executable, argv and envp read from the stack *)
(* pointer are the strings that were passed, and the region table names    *)
(* exactly the mapped pages without overlap - also after an exec that      *)
(* failed half way and went back to the old tables.                        *)
ImageExact ==
  /\ FileInPlace(Disk[how.path], how.bias)
  /\ image.pages[PageDown(image.entry)].x
  /\ ArgsInPlace
  /\ RegionsExact
=============================================================================
