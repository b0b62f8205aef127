------------------------------ MODULE MCLaunch ------------------------------
EXTENDS Launch

Sym(name, kind, shndx, value) ==
  [name |-> name, kind |-> kind, shndx |-> shndx, value |-> value]
Rela(kind, sym, name, value) ==
  [kind |-> kind, sym |-> sym, name |-> name, value |-> value]
Section(type, table, alloc, entries) ==
  [type |-> type, table |-> table, alloc |-> alloc, entries |-> entries]

DynSym == Section("DYNSYM", "dynsym", TRUE,
            <<Sym("", "NOTYPE", 0, 0), Sym("f", "FUNC", 5, 1), Sym("g", "FUNC", 0, 0)>>)
DynStr == Section("STRTAB", "dynstr", TRUE, <<>>)
Dynamic == Section("DYNAMIC", "dynamic", TRUE, <<>>)
RelaDyn == Section("RELA", "rela", TRUE,
             <<Rela("RELATIVE", 1, "", 50), Rela("GLOB_DAT", 2, "f", 51)>>)
RelaPlt == Section("RELA", "rela", TRUE, <<Rela("JUMP_SLOT", 3, "g", 52)>>)
SymTab == Section("SYMTAB", "symtab", FALSE,
            <<Sym("g", "FUNC", 0, 0), Sym("s", "OBJECT", 7, 2), Sym("f", "FUNC", 5, 1)>>)
StrTab == Section("STRTAB", "strtab", FALSE, <<>>)
ShStrTab == Section("STRTAB", "shstrtab", FALSE, <<>>)

Heads == {<<DynSym, DynStr, RelaDyn, RelaPlt, Dynamic>>,
          <<DynStr, Dynamic, RelaDyn, DynSym, RelaPlt>>}
Tails == {<<SymTab, StrTab, ShStrTab>>, <<SymTab, ShStrTab, StrTab>>,
          <<ShStrTab, SymTab, StrTab>>, <<ShStrTab, StrTab, SymTab>>, <<ShStrTab>>}

File(sections, offset) ==
  [sections |-> sections, base |-> 100, entry |-> offset,
   shstrndx |-> CHOOSE k \in DOMAIN sections : sections[k].table = "shstrtab"]

MCContents == {File(head \o tail, offset) : head \in Heads, tail \in Tails,
                                           offset \in {0, 9}}
=============================================================================
