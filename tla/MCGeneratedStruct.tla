------------------------- MODULE MCGeneratedStruct -------------------------
(* All twelve structs at both levels.  A caller of Block writes the fields *)
(* that the generated struct has; with Wanted <- Structs it writes those   *)
(* of the schema.                                                          *)
EXTENDS GeneratedStruct
MCAssemblers == (DOMAIN TypeTables) \X {"type", "repr"}
MCWanted == [Structs EXCEPT !.Block = Block_struct]
============================================================================
