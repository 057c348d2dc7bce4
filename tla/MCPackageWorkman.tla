-------------------------- MODULE MCPackageWorkman --------------------------
(* An instance of PackageWorkman: two archives around a tool.              *)
EXTENDS PackageWorkman

MCPackages == <<"nginx", "wp_cli", "joomla">>
=============================================================================
