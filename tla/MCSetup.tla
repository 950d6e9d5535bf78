------------------------------- MODULE MCSetup ------------------------------
(* Setup on PCs and Macs: with Windows, with another default loader, with   *)
(* an old rEFInd; two scripts, one failure.                                 *)
EXTENDS Setup, TLC

PC == [os |-> "Linux", cpu |-> "x64", efi |-> TRUE, secure |-> FALSE, driver |-> TRUE,
       efibootmgr |-> TRUE, openssl |-> TRUE, sbsign |-> TRUE]

MCMachines ==
  { PC, [PC EXCEPT !.efi = FALSE], [PC EXCEPT !.secure = TRUE, !.efibootmgr = FALSE],
    [PC EXCEPT !.cpu = "ia32"], [PC EXCEPT !.cpu = "ia32", !.efi = FALSE, !.openssl = FALSE],
    [PC EXCEPT !.os = "Darwin", !.driver = FALSE] }

Plain == [ver |-> 2, usedefault |-> FALSE, esp |-> FALSE, drivers |-> "boot", shim |-> FALSE,
          localkeys |-> FALSE, yes |-> FALSE]

MCPackages ==
  { Plain, [Plain EXCEPT !.usedefault = TRUE, !.drivers = "all"],
    [Plain EXCEPT !.shim = TRUE, !.localkeys = TRUE, !.drivers = "none"],
    [Plain EXCEPT !.localkeys = TRUE, !.yes = TRUE] }

WinPath == <<MSBOOT, "bootmgfw.efi">>
Windows(cpu) == WinPath :> Content("windows", 0, cpu, 0)
Grub(cpu) == <<BOOT, IF cpu = "x64" THEN "bootx64.efi" ELSE "bootia32.efi">> :> Content("grub", 0, cpu, 0)
Old(d, n) == (<<d, n>> :> Content("rEFInd", 1, "x64", 0))
             @@ (<<d, "refind.conf">> :> Content("mine", 1, "any", 0))
             @@ (<<d, "icons">> :> Content("icons", 1, "any", 0))

MCStarts ==
  { [files |-> Windows(cpu) @@ Grub(cpu), nvram |-> <<WinPath>>] : cpu \in {"x64", "ia32"} }
  \cup { [files |-> Grub(cpu), nvram |-> << >>] : cpu \in {"x64", "ia32"} }
  \cup { [files |-> Windows("x64") @@ Old(REFIND, "refind_x64.efi"),
          nvram |-> <<WinPath, <<REFIND, "refind_x64.efi">>>>],
         [files |-> Grub("x64") @@ Old(MSBOOT, "bootmgfw.efi")
                    @@ (<<MS, "bootmgfw.efi">> :> Content("windows", 0, "x64", 0)),
          nvram |-> <<WinPath>>] }
=============================================================================
