--------------------------- MODULE MCIatPatching ----------------------------
(* IatPatching with a program, the release CRT, a library that uses it, one *)
(* that has a CRT of its own, and one that brings the debug CRT.            *)
EXTENDS IatPatching

CONSTANTS t1, t2, analyzer, ucrtbase, ucrtbased, app, shared, static, debug

MCThread == {t1, t2}
MCOneThread == {t1}
MCModule == {analyzer, ucrtbase, ucrtbased, app, shared, static, debug}
MCPreloaded == <<app, ucrtbase, analyzer>>
MCLoadable == {shared, static}
MCBrings ==
  [m \in {shared, static, debug} |->
     IF m = debug THEN {debug, ucrtbased} ELSE {m}]
MCSystem == {ucrtbase, ucrtbased}
MCFunction == {"malloc", "malloc_d", "HeapAlloc", "LoadLibrary"}
MCKind ==
  [f \in MCFunction |->
     CASE f \in {"malloc", "malloc_d"} -> "CrtAlloc"
       [] f = "LoadLibrary" -> "Always"
       [] OTHER -> "Heap"]
MCCrt == [f \in {"malloc", "malloc_d"} |->
            IF f = "malloc" THEN ucrtbase ELSE ucrtbased]
MCImports ==
  [m \in MCModule |->
     CASE m = app -> {"malloc", "LoadLibrary"}
       [] m = analyzer -> {"malloc"}
       [] m \in {ucrtbase, ucrtbased} -> {"HeapAlloc"}
       [] m = shared -> {"malloc", "HeapAlloc"}
       [] m = static -> {"HeapAlloc"}
       [] m = debug -> {"malloc_d"}]

=============================================================================
