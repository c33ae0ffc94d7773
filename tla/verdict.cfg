SPECIFICATION Spec
CONSTANTS
  Names = {"f"}
  Modules <- MCModules
CHECK_DEADLOCK FALSE
INVARIANTS VerdictTrue ErrorsExplained VerdictsAgree SecondLook PartsUnderHeadings BannerFits LineFaithful
