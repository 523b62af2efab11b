------------------------------- MODULE ParticleTables -------------------------------
(***************************************************************************)
(* The tables of src/src/particleType.h, which the generated libraries use *)
(* to name particles and which their users get with them.  A particle is   *)
(* named by its enumerator; a table is a record with a field for each case *)
(* of its switch.  Masses are in keV, rounded.                             *)
(***************************************************************************)
EXTENDS Integers, Sequences, FiniteSets

VARIABLE
  particle   \* the particle looked at

particleVars == <<particle>>

-----------------------------------------------------------------------------
\* The codes, of the enumeration.
Particle_t == [
  UnknownParticle |-> 0, Gamma |-> 1, Positron |-> 2, Electron |-> 3, Neutrino |-> 4,
  MuonPlus |-> 5, MuonMinus |-> 6, Pi0 |-> 7, PiPlus |-> 8, PiMinus |-> 9, KLong |-> 10,
  KPlus |-> 11, KMinus |-> 12, Neutron |-> 13, Proton |-> 14, AntiProton |-> 15, KShort |-> 16,
  Eta |-> 17, Lambda |-> 18, SigmaPlus |-> 19, Sigma0 |-> 20, SigmaMinus |-> 21, Xi0 |-> 22,
  XiMinus |-> 23, OmegaMinus |-> 24, AntiNeutron |-> 25, AntiLambda |-> 26,
  AntiSigmaMinus |-> 27, AntiSigma0 |-> 28, AntiSigmaPlus |-> 29, AntiXi0 |-> 30,
  AntiXiPlus |-> 31, AntiOmegaPlus |-> 32, Deuteron |-> 45, Triton |-> 46, Helium |-> 47,
  Geantino |-> 48, He3 |-> 49, Li6 |-> 61, Li7 |-> 62, Be7 |-> 63, Be9 |-> 64, B10 |-> 65,
  B11 |-> 66, C12 |-> 67, N14 |-> 68, O16 |-> 69, F19 |-> 70, Ne20 |-> 71, Na23 |-> 72,
  Mg24 |-> 73, Al27 |-> 74, Si28 |-> 75, P31 |-> 76, S32 |-> 77, Cl35 |-> 78, Ar36 |-> 79,
  K39 |-> 80, Ca40 |-> 81, Sc45 |-> 82, Ti48 |-> 83, V51 |-> 84, Cr52 |-> 85, Mn55 |-> 86,
  Fe56 |-> 87, Co59 |-> 88, Ni58 |-> 89, Cu63 |-> 90, Zn64 |-> 91, Ge74 |-> 92, Se80 |-> 93,
  Kr84 |-> 94, Sr88 |-> 95, Zr90 |-> 96, Mo98 |-> 97, Pd106 |-> 98, Cd114 |-> 99, Sn120 |-> 100,
  Xe132 |-> 101, Ba138 |-> 102, Ce140 |-> 103, Sm152 |-> 104, Dy164 |-> 105, Yb174 |-> 106,
  W184 |-> 107, Pt194 |-> 108, Au197 |-> 109, Hg202 |-> 110, Pb208 |-> 111, U238 |-> 112,
  Ta181 |-> 113, Rho0 |-> 44, RhoPlus |-> 42, RhoMinus |-> 43, omega |-> 33, phiMeson |-> 34,
  EtaPrime |-> 35, a0_980 |-> 163, f0_980 |-> 164, KStar_892_0 |-> 165, KStar_892_Plus |-> 166,
  KStar_892_Minus |-> 167, AntiKStar_892_0 |-> 168, K1_1400_Plus |-> 169, K1_1400_Minus |-> 170,
  b1_1235_Plus |-> 171, Sigma_1385_Minus |-> 172, Sigma_1385_0 |-> 173, Sigma_1385_Plus |-> 174,
  Jpsi |-> 183, Eta_c |-> 184, Chi_c0 |-> 185, Chi_c1 |-> 186, Chi_c2 |-> 187, Psi2s |-> 188,
  D0 |-> 189, DPlus |-> 190, Dstar0 |-> 191, DstarPlus |-> 192, Lambda_c |-> 193,
  AntiD0 |-> 194, DeltaPlusPlus |-> 182]

Particles == DOMAIN Particle_t

RemapParticleID(p) == p

\* The name in files and in XML, and the name that is read back.
ParticleType == [
  UnknownParticle |-> "UnknownParticle", Gamma |-> "Photon", Positron |-> "Positron",
  Electron |-> "Electron", Neutrino |-> "Neutrino", MuonPlus |-> "Muon+", MuonMinus |-> "Muon-",
  Pi0 |-> "Pi0", PiPlus |-> "Pi+", PiMinus |-> "Pi-", KLong |-> "KLong", KPlus |-> "K+",
  KMinus |-> "K-", Neutron |-> "Neutron", Proton |-> "Proton", AntiProton |-> "AntiProton",
  KShort |-> "KShort", Eta |-> "Eta", Lambda |-> "Lambda", SigmaPlus |-> "Sigma+",
  Sigma0 |-> "Sigma0", SigmaMinus |-> "Sigma-", Xi0 |-> "Xi0", XiMinus |-> "Xi-",
  OmegaMinus |-> "Omega-", AntiNeutron |-> "AntiNeutron", AntiLambda |-> "AntiLambda",
  AntiSigmaMinus |-> "AntiSigma-", AntiSigma0 |-> "AntiSigma0", AntiSigmaPlus |-> "AntiSigma+",
  AntiXi0 |-> "AntiXi0", AntiXiPlus |-> "AntiXi+", AntiOmegaPlus |-> "AntiOmega+",
  Deuteron |-> "Deuteron", Triton |-> "Triton", Helium |-> "Helium", Geantino |-> "Geantino",
  He3 |-> "Helium-3", Li6 |-> "Lithium-6", Li7 |-> "Lithium-7", Be7 |-> "Beryllium-7",
  Be9 |-> "Beryllium-9", B10 |-> "Boron-10", B11 |-> "Boron-11", C12 |-> "Carbon",
  N14 |-> "Nitrogen", O16 |-> "Oxygen", F19 |-> "Fluorine", Ne20 |-> "Neon", Na23 |-> "Sodium",
  Mg24 |-> "Magnesium", Al27 |-> "Aluminum", Si28 |-> "Silicon", P31 |-> "Phosphorous",
  S32 |-> "Sulphur", Cl35 |-> "Chlorine", Ar36 |-> "Argon", K39 |-> "Potassium",
  Ca40 |-> "Calcium", Sc45 |-> "Scandium", Ti48 |-> "Titanium", V51 |-> "Vanadium",
  Cr52 |-> "Chromium", Mn55 |-> "Manganese", Fe56 |-> "Iron", Co59 |-> "Cobalt",
  Ni58 |-> "Nickel", Cu63 |-> "Copper", Zn64 |-> "Zinc", Ge74 |-> "Germanium",
  Se80 |-> "Selenium", Kr84 |-> "Krypton", Sr88 |-> "Strontium", Zr90 |-> "Zirconium",
  Mo98 |-> "Molybdenum", Pd106 |-> "Palladium", Cd114 |-> "Cadmium", Sn120 |-> "Tin",
  Xe132 |-> "Xenon", Ba138 |-> "Barium", Ce140 |-> "Cesium", Sm152 |-> "Samerium",
  Dy164 |-> "Dysprosium", Yb174 |-> "Ytterbium", W184 |-> "Tungsten", Pt194 |-> "Platium",
  Au197 |-> "Gold", Hg202 |-> "Mercury", Pb208 |-> "Lead", U238 |-> "Uranium",
  Ta181 |-> "Tantalum", Rho0 |-> "Rho0", RhoPlus |-> "Rho+", RhoMinus |-> "Rho-",
  omega |-> "Omega", phiMeson |-> "Phi", EtaPrime |-> "EtaPrime", a0_980 |-> "a0(980)",
  f0_980 |-> "f0(980)", KStar_892_0 |-> "K*(892)0", KStar_892_Plus |-> "K*(892)+",
  KStar_892_Minus |-> "K*(892)-", AntiKStar_892_0 |-> "antiK*(892)0",
  K1_1400_Plus |-> "K1(1400)+", K1_1400_Minus |-> "K1(1400)-", b1_1235_Plus |-> "b1(1235)+",
  Sigma_1385_Minus |-> "Sigma(1385)-", Sigma_1385_0 |-> "Sigma(1385)0",
  Sigma_1385_Plus |-> "Sigma(1385)+", Jpsi |-> "Jpsi", Eta_c |-> "EtaC", Chi_c0 |-> "ChiC0",
  Chi_c1 |-> "ChiC1", Chi_c2 |-> "ChiC2", Psi2s |-> "Psi(2S)", D0 |-> "D0", DPlus |-> "D+",
  Dstar0 |-> "D*0", DstarPlus |-> "D*+", Lambda_c |-> "LambdaC", AntiD0 |-> "AntiD0",
  DeltaPlusPlus |-> "Delta++"]

EnumName == [
  UnknownParticle |-> "UnknownParticle", Gamma |-> "Photon", Positron |-> "Positron",
  Electron |-> "Electron", Neutrino |-> "Neutrino", MuonPlus |-> "Muon+", MuonMinus |-> "Muon-",
  Pi0 |-> "Pi0", PiPlus |-> "Pi+", PiMinus |-> "Pi-", KLong |-> "KLong", KPlus |-> "K+",
  KMinus |-> "K-", Neutron |-> "Neutron", Proton |-> "Proton", AntiProton |-> "AntiProton",
  KShort |-> "KShort", Eta |-> "Eta", Lambda |-> "Lambda", SigmaPlus |-> "Sigma+",
  Sigma0 |-> "Sigma0", SigmaMinus |-> "Sigma-", Xi0 |-> "Xi0", XiMinus |-> "Xi-",
  OmegaMinus |-> "Omega-", AntiNeutron |-> "AntiNeutron", AntiLambda |-> "AntiLambda",
  AntiSigmaMinus |-> "AntiSigma-", AntiSigma0 |-> "AntiSigma0", AntiSigmaPlus |-> "AntiSigma+",
  AntiXi0 |-> "AntiXi0", AntiXiPlus |-> "AntiXi+", AntiOmegaPlus |-> "AntiOmega+",
  Deuteron |-> "Deuteron", Triton |-> "Triton", Helium |-> "Helium", Geantino |-> "Geantino",
  He3 |-> "Helium-3", Li6 |-> "Lithium-6", Li7 |-> "Lithium-7", Be7 |-> "Beryllium-7",
  Be9 |-> "Beryllium-9", B10 |-> "Boron-10", B11 |-> "Boron-11", C12 |-> "Carbon",
  N14 |-> "Nitrogen", O16 |-> "Oxygen", F19 |-> "Fluorine", Ne20 |-> "Neon", Na23 |-> "Sodium",
  Mg24 |-> "Magnesium", Al27 |-> "Aluminum", Si28 |-> "Silicon", P31 |-> "Phosphorous",
  S32 |-> "Sulphur", Cl35 |-> "Chlorine", Ar36 |-> "Argon", K39 |-> "Potassium",
  Ca40 |-> "Calcium", Sc45 |-> "Scandium", Ti48 |-> "Titanium", V51 |-> "Vanadium",
  Cr52 |-> "Chromium", Mn55 |-> "Manganese", Fe56 |-> "Iron", Co59 |-> "Cobalt",
  Ni58 |-> "Nickel", Cu63 |-> "Copper", Zn64 |-> "Zinc", Ge74 |-> "Germanium",
  Se80 |-> "Selenium", Kr84 |-> "Krypton", Sr88 |-> "Strontium", Zr90 |-> "Zirconium",
  Mo98 |-> "Molybdenum", Pd106 |-> "Palladium", Cd114 |-> "Cadmium", Sn120 |-> "Tin",
  Xe132 |-> "Xenon", Ba138 |-> "Barium", Ce140 |-> "Cesium", Sm152 |-> "Samerium",
  Dy164 |-> "Dysprosium", Yb174 |-> "Ytterbium", W184 |-> "Tungsten", Pt194 |-> "Platium",
  Au197 |-> "Gold", Hg202 |-> "Mercury", Pb208 |-> "Lead", U238 |-> "Uranium",
  Ta181 |-> "Tantalum", Rho0 |-> "Rho0", RhoPlus |-> "Rho+", RhoMinus |-> "Rho-",
  omega |-> "Omega", phiMeson |-> "Phi", EtaPrime |-> "EtaPrime", a0_980 |-> "a0(980)",
  f0_980 |-> "f0(980)", KStar_892_0 |-> "K*(892)0", KStar_892_Plus |-> "K*(892)+",
  KStar_892_Minus |-> "K*(892)-", AntiKStar_892_0 |-> "antiK*(892)0",
  K1_1400_Plus |-> "K1(1400)+", K1_1400_Minus |-> "K1(1400)-", b1_1235_Plus |-> "b1(1235)+",
  Sigma_1385_Minus |-> "Sigma(1385)-", Sigma_1385_0 |-> "Sigma(1385)0",
  Sigma_1385_Plus |-> "Sigma(1385)+", Jpsi |-> "Jpsi", Eta_c |-> "EtaC", Chi_c0 |-> "ChiC0",
  Chi_c1 |-> "ChiC1", Chi_c2 |-> "ChiC2", Psi2s |-> "Psi(2S)", D0 |-> "D0", DPlus |-> "D+",
  Dstar0 |-> "D*0", DstarPlus |-> "D*+", Lambda_c |-> "LambdaC", AntiD0 |-> "AntiD0",
  DeltaPlusPlus |-> "Delta++"]

ParticleEnum(name) ==
  IF \E p \in Particles : EnumName[p] = name
    THEN CHOOSE p \in Particles : EnumName[p] = name ELSE "UnknownParticle"

\* Names for programs, in which nuclei are an exception, for EvtGen and for ROOT.
NucleusName == [
  He3 |-> "Helium-3", Li6 |-> "Lithium-6", Li7 |-> "Lithium-7", Be7 |-> "Beryllium-7",
  Be9 |-> "Beryllium-9", B10 |-> "Boron-10", B11 |-> "Boron-11", C12 |-> "Carbon",
  N14 |-> "Nitrogen", O16 |-> "Oxygen", F19 |-> "Fluorine", Ne20 |-> "Neon", Na23 |-> "Sodium",
  Mg24 |-> "Magnesium", Al27 |-> "Aluminum", Si28 |-> "Silicon", P31 |-> "Phosphorous",
  S32 |-> "Sulphur", Cl35 |-> "Chlorine", Ar36 |-> "Argon", K39 |-> "Potassium",
  Ca40 |-> "Calcium", Sc45 |-> "Scandium", Ti48 |-> "Titanium", V51 |-> "Vanadium",
  Cr52 |-> "Chromium", Mn55 |-> "Manganese", Fe56 |-> "Iron", Co59 |-> "Cobalt",
  Ni58 |-> "Nickel", Cu63 |-> "Copper", Zn64 |-> "Zinc", Ge74 |-> "Germanium",
  Se80 |-> "Selenium", Kr84 |-> "Krypton", Sr88 |-> "Strontium", Zr90 |-> "Zirconium",
  Mo98 |-> "Molybdenum", Pd106 |-> "Palladium", Cd114 |-> "Cadmium", Sn120 |-> "Tin",
  Xe132 |-> "Xenon", Ba138 |-> "Barium", Ce140 |-> "Cesium", Sm152 |-> "Samerium",
  Dy164 |-> "Dysprosium", Yb174 |-> "Ytterbium", W184 |-> "Tungsten", Pt194 |-> "Platium",
  Au197 |-> "Gold", Hg202 |-> "Mercury", Pb208 |-> "Lead", U238 |-> "Uranium",
  Ta181 |-> "Tantalum"]

EnumString == [p \in Particles |-> IF p \in DOMAIN NucleusName THEN NucleusName[p] ELSE p]

EvtGenString == [
  UnknownParticle |-> "UnknownParticle", Gamma |-> "gamma", Positron |-> "e+",
  Electron |-> "e-", Neutrino |-> "nu_e", MuonPlus |-> "mu+", MuonMinus |-> "mu-",
  Pi0 |-> "pi0", PiPlus |-> "pi+", PiMinus |-> "pi-", KLong |-> "K_L0", KPlus |-> "K+",
  KMinus |-> "K-", Neutron |-> "n0", Proton |-> "p+", AntiProton |-> "anti-p-",
  KShort |-> "K_S0", Eta |-> "eta", Lambda |-> "Lambda0", SigmaPlus |-> "Sigma+",
  Sigma0 |-> "Sigma0", SigmaMinus |-> "Sigma-", Xi0 |-> "Xi0", XiMinus |-> "Xi-",
  OmegaMinus |-> "Omega-", AntiNeutron |-> "anti-n0", AntiLambda |-> "anti-Lambda0",
  AntiSigmaMinus |-> "anti-Sigma-", AntiSigma0 |-> "anti-Sigma0",
  AntiSigmaPlus |-> "anti-Sigma+", AntiXi0 |-> "anti-Xi0", AntiXiPlus |-> "anti-Xi+",
  AntiOmegaPlus |-> "anti-Omega+", Deuteron |-> "deuteron", Triton |-> "Triton",
  Helium |-> "Helium", Geantino |-> "geantino", He3 |-> "He3", Li6 |-> "Lithium-6",
  Li7 |-> "Lithium-7", Be7 |-> "Beryllium-7", Be9 |-> "Beryllium-9", B10 |-> "Boron-10",
  B11 |-> "Boron-11", C12 |-> "Carbon", N14 |-> "Nitrogen", O16 |-> "Oxygen",
  F19 |-> "Fluorine", Ne20 |-> "Neon", Na23 |-> "Sodium", Mg24 |-> "Magnesium",
  Al27 |-> "Aluminum", Si28 |-> "Silicon", P31 |-> "Phosphorous", S32 |-> "Sulphur",
  Cl35 |-> "Chlorine", Ar36 |-> "Argon", K39 |-> "Potassium", Ca40 |-> "Calcium",
  Sc45 |-> "Scandium", Ti48 |-> "Titanium", V51 |-> "Vanadium", Cr52 |-> "Chromium",
  Mn55 |-> "Manganese", Fe56 |-> "Iron", Co59 |-> "Cobalt", Ni58 |-> "Nickel",
  Cu63 |-> "Copper", Zn64 |-> "Zinc", Ge74 |-> "Germanium", Se80 |-> "Selenium",
  Kr84 |-> "Krypton", Sr88 |-> "Strontium", Zr90 |-> "Zirconium", Mo98 |-> "Molybdenum",
  Pd106 |-> "Palladium", Cd114 |-> "Cadmium", Sn120 |-> "Tin", Xe132 |-> "Xenon",
  Ba138 |-> "Barium", Ce140 |-> "Cesium", Sm152 |-> "Samerium", Dy164 |-> "Dysprosium",
  Yb174 |-> "Ytterbium", W184 |-> "Tungsten", Pt194 |-> "Platium", Au197 |-> "Gold",
  Hg202 |-> "Mercury", Pb208 |-> "Lead", U238 |-> "Uranium", Ta181 |-> "Tantalum",
  Rho0 |-> "rho0", RhoPlus |-> "rho+", RhoMinus |-> "rho-", omega |-> "omega",
  phiMeson |-> "phi", EtaPrime |-> "eta'", a0_980 |-> "a_0", f0_980 |-> "f_0",
  KStar_892_0 |-> "K*0", KStar_892_Plus |-> "K*+", KStar_892_Minus |-> "K*-",
  AntiKStar_892_0 |-> "anti-K*0", K1_1400_Plus |-> "K'_1+", K1_1400_Minus |-> "K'_1-",
  b1_1235_Plus |-> "b_1+", Sigma_1385_Minus |-> "Sigma_1385_Minus",
  Sigma_1385_0 |-> "Sigma_1385_0", Sigma_1385_Plus |-> "Sigma_1385_Plus", Jpsi |-> "J/psi",
  Eta_c |-> "eta_c", Chi_c0 |-> "chi_c0", Chi_c1 |-> "chi_c1", Chi_c2 |-> "chi_c2",
  Psi2s |-> "psi(2S)", D0 |-> "D0", DPlus |-> "D+", Dstar0 |-> "D*0", DstarPlus |-> "D*+",
  Lambda_c |-> "Lambda_c0", AntiD0 |-> "anti-D0", DeltaPlusPlus |-> "Delta++"]

ShortName == [
  UnknownParticle |-> "x", Gamma |-> "g", Positron |-> "ep", Electron |-> "em",
  Neutrino |-> "nu", MuonPlus |-> "mup", MuonMinus |-> "mum", Pi0 |-> "pi0", PiPlus |-> "pip",
  PiMinus |-> "pim", KLong |-> "kl", KPlus |-> "kp", KMinus |-> "km", Neutron |-> "n",
  Proton |-> "prot", AntiProton |-> "antip", KShort |-> "ks", Eta |-> "eta", Lambda |-> "lamb",
  SigmaPlus |-> "sigp", Sigma0 |-> "sig0", SigmaMinus |-> "sigm", Xi0 |-> "xi0",
  XiMinus |-> "xim", OmegaMinus |-> "omegam", AntiNeutron |-> "antin",
  AntiLambda |-> "antilamb", AntiSigmaMinus |-> "antisigm", AntiSigma0 |-> "antisig0",
  AntiSigmaPlus |-> "antisigp", AntiXi0 |-> "antixi0", AntiXiPlus |-> "antixip",
  AntiOmegaPlus |-> "antiomegap", Deuteron |-> "d", Triton |-> "tri", Helium |-> "he",
  Geantino |-> "geant", He3 |-> "he3", Li6 |-> "li6", Li7 |-> "li7", Be7 |-> "be7",
  Be9 |-> "be9", B10 |-> "b10", B11 |-> "b11", C12 |-> "c12", N14 |-> "n14", O16 |-> "o16",
  F19 |-> "f19", Ne20 |-> "ne20", Na23 |-> "na23", Mg24 |-> "mg24", Al27 |-> "al27",
  Si28 |-> "si28", P31 |-> "p31", S32 |-> "s32", Cl35 |-> "cl35", Ar36 |-> "ar36",
  K39 |-> "k39", Ca40 |-> "ca40", Sc45 |-> "sc45", Ti48 |-> "ti48", V51 |-> "v51",
  Cr52 |-> "cr52", Mn55 |-> "mn55", Fe56 |-> "fe56", Co59 |-> "co59", Ni58 |-> "ni58",
  Cu63 |-> "cu63", Zn64 |-> "zn64", Ge74 |-> "ge74", Se80 |-> "se80", Kr84 |-> "kr84",
  Sr88 |-> "sr88", Zr90 |-> "zr90", Mo98 |-> "mo98", Pd106 |-> "pd106", Cd114 |-> "cd114",
  Sn120 |-> "sn120", Xe132 |-> "xe132", Ba138 |-> "ba138", Ce140 |-> "ce140", Sm152 |-> "sm152",
  Dy164 |-> "dy164", Yb174 |-> "yb174", W184 |-> "w184", Pt194 |-> "pt194", Au197 |-> "au197",
  Hg202 |-> "hg202", Pb208 |-> "pb208", U238 |-> "u238", Ta181 |-> "ta181", Rho0 |-> "Rho0",
  RhoPlus |-> "RhoPlus", RhoMinus |-> "RhoMinus", omega |-> "omega", phiMeson |-> "phi",
  EtaPrime |-> "etapr", a0_980 |-> "a0_980", f0_980 |-> "f0_980", KStar_892_0 |-> "KStar_892_0",
  KStar_892_Plus |-> "KStar_892_Plus", KStar_892_Minus |-> "KStar_892_Minus",
  AntiKStar_892_0 |-> "AntiKStar_892_0", K1_1400_Plus |-> "K1_1400_Plus",
  K1_1400_Minus |-> "K1_1400_Minus", b1_1235_Plus |-> "b1_1235_Plus",
  Sigma_1385_Minus |-> "Sigma_1385_Minus", Sigma_1385_0 |-> "Sigma_1385_0",
  Sigma_1385_Plus |-> "Sigma_1385_Plus", Jpsi |-> "jpsi", Eta_c |-> "etac", Chi_c0 |-> "chic0",
  Chi_c1 |-> "chic1", Chi_c2 |-> "chic2", Psi2s |-> "psi2s", D0 |-> "d0", DPlus |-> "dp",
  Dstar0 |-> "ds0", DstarPlus |-> "dsp", Lambda_c |-> "lambc", AntiD0 |-> "antid0",
  DeltaPlusPlus |-> "DeltaPlusPlus"]

Get_ShortName == [
  Gamma |-> "g", Positron |-> "ep", Electron |-> "em", Neutrino |-> "neut", MuonPlus |-> "mup",
  MuonMinus |-> "mum", Pi0 |-> "pi0", PiPlus |-> "pip", PiMinus |-> "pim", KLong |-> "kl",
  KPlus |-> "kp", KMinus |-> "km", Neutron |-> "n", Proton |-> "p", AntiProton |-> "pbar",
  KShort |-> "ks", Eta |-> "eta", Lambda |-> "lamb", SigmaPlus |-> "sigp", Sigma0 |-> "sig0",
  SigmaMinus |-> "sigm", Xi0 |-> "xi0", XiMinus |-> "xim", OmegaMinus |-> "omgm",
  AntiNeutron |-> "nbar", AntiLambda |-> "lbar", AntiSigmaMinus |-> "sigmbar",
  AntiSigma0 |-> "sig0bar", AntiSigmaPlus |-> "sigpbar", AntiXi0 |-> "xi0bar",
  AntiXiPlus |-> "xipbar", AntiOmegaPlus |-> "omgpbar", Deuteron |-> "d", Triton |-> "tri",
  Helium |-> "he", He3 |-> "he3", Li6 |-> "li6", Li7 |-> "li7", Be7 |-> "be7", Be9 |-> "be9",
  B10 |-> "b10", B11 |-> "b11", C12 |-> "c12", N14 |-> "n14", O16 |-> "o16", F19 |-> "f19",
  Ne20 |-> "ne20", Na23 |-> "na23", Mg24 |-> "mg24", Al27 |-> "al27", Si28 |-> "si28",
  P31 |-> "p31", S32 |-> "s32", Cl35 |-> "cl35", Ar36 |-> "ar36", K39 |-> "k39",
  Ca40 |-> "ca40", Sc45 |-> "sc45", Ti48 |-> "ti48", V51 |-> "v51", Cr52 |-> "cr52",
  Mn55 |-> "mn55", Fe56 |-> "fe56", Co59 |-> "co59", Ni58 |-> "ni58", Cu63 |-> "cu63",
  Zn64 |-> "zn64", Ge74 |-> "ge74", Se80 |-> "se80", Kr84 |-> "kr84", Sr88 |-> "sr88",
  Zr90 |-> "zr90", Mo98 |-> "mo98", Pd106 |-> "pd106", Cd114 |-> "cd114", Sn120 |-> "sn120",
  Xe132 |-> "xe132", Ba138 |-> "ba138", Ce140 |-> "ce140", Sm152 |-> "sm152", Dy164 |-> "dy164",
  Yb174 |-> "yb174", W184 |-> "w184", Pt194 |-> "pt194", Au197 |-> "au197", Hg202 |-> "hg202",
  Pb208 |-> "pb208", U238 |-> "u238", Ta181 |-> "ta181", omega |-> "omg", phiMeson |-> "phi",
  EtaPrime |-> "etap", Jpsi |-> "jpsi", Eta_c |-> "etac", Chi_c0 |-> "chic0",
  Chi_c1 |-> "chic1", Chi_c2 |-> "chic2", Psi2s |-> "psi2S", D0 |-> "d0", DPlus |-> "dp",
  Lambda_c |-> "lambc", AntiD0 |-> "d0bar"]

ParticleName_ROOT == [
  UnknownParticle |-> "X", Gamma |-> "#gamma", Positron |-> "e^{#plus}",
  Electron |-> "e^{#minus}", Neutrino |-> "#nu", MuonPlus |-> "#mu^{#plus}",
  MuonMinus |-> "#mu^{#minus}", Pi0 |-> "#pi^{0}", PiPlus |-> "#pi^{#plus}",
  PiMinus |-> "#pi^{#minus}", KLong |-> "K^{0}_{L}", KPlus |-> "K^{#plus}",
  KMinus |-> "K^{#minus}", Neutron |-> "n", Proton |-> "p", AntiProton |-> "#bar{p}",
  KShort |-> "K^{0}_{S}", Eta |-> "#eta", Lambda |-> "#Lambda", SigmaPlus |-> "#Sigma^{#plus}",
  Sigma0 |-> "#Sigma^{0}", SigmaMinus |-> "#Sigma^{#minus}", Xi0 |-> "#Xi^{0}",
  XiMinus |-> "#Xi^{#minus}", OmegaMinus |-> "#Omega^{#minus}", AntiNeutron |-> "#bar^{n}",
  AntiLambda |-> "#bar^{#Lambda}", AntiSigmaMinus |-> "#bar{#Sigma}^{#minus}",
  AntiSigma0 |-> "#bar{#Sigma}^{0}", AntiSigmaPlus |-> "#bar{#Sigma}^{#plus}",
  AntiXi0 |-> "#bar{#Xi}^{0}", AntiXiPlus |-> "#bar{#Xi}^{#plus}",
  AntiOmegaPlus |-> "#bar{#Omega}^{#plus}", Deuteron |-> "d", Triton |-> "t", Helium |-> "He",
  Geantino |-> "geantino", He3 |-> "^{3}He", Li6 |-> "^{6}Li", Li7 |-> "^{7}Li",
  Be7 |-> "^{7}Be", Be9 |-> "^{9}Be", B10 |-> "^{10}B", B11 |-> "^{11}B", C12 |-> "^{12}C",
  N14 |-> "^{14}N", O16 |-> "^{16}O", F19 |-> "^{19}F", Ne20 |-> "^{20}Ne", Na23 |-> "^{23}Na",
  Mg24 |-> "^{24}Mg", Al27 |-> "^{27}Al", Si28 |-> "^{28}Si", P31 |-> "^{31}P",
  S32 |-> "^{32}S", Cl35 |-> "^{35}Cl", Ar36 |-> "^{36}Ar", K39 |-> "^{39}K",
  Ca40 |-> "^{40}Ca", Sc45 |-> "^{45}Sc", Ti48 |-> "^{48}Ti", V51 |-> "^{51}V",
  Cr52 |-> "^{52}Cr", Mn55 |-> "^{55}Mn", Fe56 |-> "^{56}Fe", Co59 |-> "^{59}Co",
  Ni58 |-> "^{58}Ni", Cu63 |-> "^{63}Cu", Zn64 |-> "^{64}Zn", Ge74 |-> "^{74}Ge",
  Se80 |-> "^{80}Se", Kr84 |-> "^{84}Kr", Sr88 |-> "^{88}Sr", Zr90 |-> "^{90}Zr",
  Mo98 |-> "^{98}Mo", Pd106 |-> "^{106}Pd", Cd114 |-> "^{114}Cd", Sn120 |-> "^{120}Sn",
  Xe132 |-> "^{132}Xe", Ba138 |-> "^{138}Ba", Ce140 |-> "^{140}Ce", Sm152 |-> "^{152}Sm",
  Dy164 |-> "^{164}Dy", Yb174 |-> "^{174}Yb", W184 |-> "^{184}W", Pt194 |-> "^{194}Pt",
  Au197 |-> "^{197}Au", Hg202 |-> "^{202}Hg", Pb208 |-> "^{208}Pb", U238 |-> "^{238}U",
  Ta181 |-> "^{181}Ta", Rho0 |-> "#rho^{0}", RhoPlus |-> "#rho^{#plus}",
  RhoMinus |-> "#rho^{#minus}", omega |-> "#omega", phiMeson |-> "#phi", EtaPrime |-> "#eta'",
  a0_980 |-> "a_{0}(980)", f0_980 |-> "f_{0}(980)", KStar_892_0 |-> "K*(892)^{0}",
  KStar_892_Plus |-> "K*(892)^{#plus}", KStar_892_Minus |-> "K*(892)^{#minus}",
  AntiKStar_892_0 |-> "#bar{K*}(892)^{0}", K1_1400_Plus |-> "K_{1}(1400)^{#plus}",
  K1_1400_Minus |-> "K_{1}(1400)^{#minus}", b1_1235_Plus |-> "b_{1}(1235)^{#plus}",
  Sigma_1385_Minus |-> "#Sigma(1385)^{#minus}", Sigma_1385_0 |-> "#Sigma(1385)^{0}",
  Sigma_1385_Plus |-> "#Sigma(1385)^{#plus}", Jpsi |-> "J/#psi", Eta_c |-> "#eta_{c}",
  Chi_c0 |-> "#chi_{c0}", Chi_c1 |-> "#chi_{c1}", Chi_c2 |-> "#chi_{c2}", Psi2s |-> "#psi(2S)",
  D0 |-> "D^{0}", DPlus |-> "D{^+}", Dstar0 |-> "D^{*0}", DstarPlus |-> "D^{*+}",
  Lambda_c |-> "#Lambda_{c}", AntiD0 |-> "#bar{D^{0}}",
  DeltaPlusPlus |-> "#Delta(1232)^{#plus#plus}"]

\* Mass and charge, the PDG code, and the particle of a PDG code.
Huge == 1000000000

ParticleMass == [
  UnknownParticle |-> Huge, Gamma |-> 0, Positron |-> 511, Electron |-> 511, Neutrino |-> 0,
  MuonPlus |-> 105658, MuonMinus |-> 105658, Pi0 |-> 134977, PiPlus |-> 139570,
  PiMinus |-> 139570, KLong |-> 497614, KPlus |-> 493677, KMinus |-> 493677, Neutron |-> 939565,
  Proton |-> 938272, AntiProton |-> 938272, KShort |-> 497614, Eta |-> 547862,
  Lambda |-> 1115683, SigmaPlus |-> 1189370, Sigma0 |-> 1192642, SigmaMinus |-> 1197449,
  Xi0 |-> 1314860, XiMinus |-> 1321710, OmegaMinus |-> 1672450, AntiNeutron |-> 939565,
  AntiLambda |-> 1115683, AntiSigmaMinus |-> 1189370, AntiSigma0 |-> 1192642,
  AntiSigmaPlus |-> 1197449, AntiXi0 |-> 1314860, AntiXiPlus |-> 1321710,
  AntiOmegaPlus |-> 1672450, Deuteron |-> 1875613, Triton |-> 2808921, Helium |-> 3727379,
  Geantino |-> 0, He3 |-> 2809413, Li6 |-> 5603050, Li7 |-> 6535360, Be7 |-> 6536220,
  Be9 |-> 8394790, B10 |-> 9326990, B11 |-> 10255100, C12 |-> 11177930, N14 |-> 13043780,
  O16 |-> 14899170, F19 |-> 17696900, Ne20 |-> 18622840, Na23 |-> 21414830, Mg24 |-> 22341930,
  Al27 |-> 25133140, Si28 |-> 26060340, P31 |-> 28851880, S32 |-> 29781800, Cl35 |-> 32573280,
  Ar36 |-> 33503560, K39 |-> 36294470, Ca40 |-> 37224920, Sc45 |-> 41876170, Ti48 |-> 44663240,
  V51 |-> 47454010, Cr52 |-> 48382280, Mn55 |-> 51174470, Fe56 |-> 52103070, Co59 |-> 54895930,
  Ni58 |-> 53966440, Cu63 |-> 58618560, Zn64 |-> 59549630, Ge74 |-> 68857150, Se80 |-> 74441780,
  Kr84 |-> 78163090, Sr88 |-> 81883580, Zr90 |-> 83745710, Mo98 |-> 91198320,
  Pd106 |-> 98649970, Cd114 |-> 106109970, Sn120 |-> 111688210, Xe132 |-> 122867960,
  Ba138 |-> 128457930, Ce140 |-> 130321110, Sm152 |-> 141512360, Dy164 |-> 152699090,
  Yb174 |-> 162022450, W184 |-> 171349240, Pt194 |-> 180675130, Au197 |-> 183473240,
  Hg202 |-> 188134510, Pb208 |-> 193728990, U238 |-> 221742950, Ta181 |-> 180947880,
  Rho0 |-> 769000, RhoPlus |-> 766500, RhoMinus |-> 766500, omega |-> 782650,
  phiMeson |-> 1019455, EtaPrime |-> 957780, a0_980 |-> 980000, f0_980 |-> 990000,
  KStar_892_0 |-> 895810, KStar_892_Plus |-> 891660, KStar_892_Minus |-> 891660,
  AntiKStar_892_0 |-> 895810, K1_1400_Plus |-> 1403000, K1_1400_Minus |-> 1403000,
  b1_1235_Plus |-> 1229500, Sigma_1385_Minus |-> 1387200, Sigma_1385_0 |-> 1383700,
  Sigma_1385_Plus |-> 1382800, Jpsi |-> 3069916, Eta_c |-> 2983600, Chi_c0 |-> 3414750,
  Chi_c1 |-> 3510660, Chi_c2 |-> 3556200, Psi2s |-> 3686109, D0 |-> 1864840, DPlus |-> 1869610,
  Dstar0 |-> 2006850, DstarPlus |-> 2010260, Lambda_c |-> 2286460, AntiD0 |-> 1864840,
  DeltaPlusPlus |-> 1232000]

ParticleCharge == [
  UnknownParticle |-> 0, Gamma |-> 0, Positron |-> 1, Electron |-> -1, Neutrino |-> 0,
  MuonPlus |-> 1, MuonMinus |-> -1, Pi0 |-> 0, PiPlus |-> 1, PiMinus |-> -1, KLong |-> 0,
  KPlus |-> 1, KMinus |-> -1, Neutron |-> 0, Proton |-> 1, AntiProton |-> -1, KShort |-> 0,
  Eta |-> 0, Lambda |-> 0, SigmaPlus |-> 1, Sigma0 |-> 0, SigmaMinus |-> -1, Xi0 |-> 0,
  XiMinus |-> -1, OmegaMinus |-> -1, AntiNeutron |-> 0, AntiLambda |-> 0, AntiSigmaMinus |-> -1,
  AntiSigma0 |-> 0, AntiSigmaPlus |-> 1, AntiXi0 |-> 0, AntiXiPlus |-> 1, AntiOmegaPlus |-> 1,
  Deuteron |-> 1, Triton |-> 1, Helium |-> 2, Geantino |-> 0, He3 |-> 2, Li6 |-> 3, Li7 |-> 3,
  Be7 |-> 4, Be9 |-> 4, B10 |-> 5, B11 |-> 5, C12 |-> 6, N14 |-> 7, O16 |-> 8, F19 |-> 9,
  Ne20 |-> 10, Na23 |-> 11, Mg24 |-> 12, Al27 |-> 13, Si28 |-> 14, P31 |-> 15, S32 |-> 16,
  Cl35 |-> 17, Ar36 |-> 18, K39 |-> 19, Ca40 |-> 20, Sc45 |-> 21, Ti48 |-> 22, V51 |-> 23,
  Cr52 |-> 24, Mn55 |-> 25, Fe56 |-> 26, Co59 |-> 27, Ni58 |-> 28, Cu63 |-> 29, Zn64 |-> 30,
  Ge74 |-> 32, Se80 |-> 34, Kr84 |-> 36, Sr88 |-> 38, Zr90 |-> 40, Mo98 |-> 42, Pd106 |-> 46,
  Cd114 |-> 48, Sn120 |-> 50, Xe132 |-> 54, Ba138 |-> 56, Ce140 |-> 58, Sm152 |-> 62,
  Dy164 |-> 66, Yb174 |-> 70, W184 |-> 74, Pt194 |-> 78, Au197 |-> 79, Hg202 |-> 80,
  Pb208 |-> 82, U238 |-> 92, Ta181 |-> 73, Rho0 |-> 0, RhoPlus |-> 1, RhoMinus |-> -1,
  omega |-> 0, phiMeson |-> 0, EtaPrime |-> 0, a0_980 |-> 0, f0_980 |-> 0, KStar_892_0 |-> 0,
  KStar_892_Plus |-> 1, KStar_892_Minus |-> -1, AntiKStar_892_0 |-> 0, K1_1400_Plus |-> 1,
  K1_1400_Minus |-> -1, b1_1235_Plus |-> 1, Sigma_1385_Minus |-> -1, Sigma_1385_0 |-> 0,
  Sigma_1385_Plus |-> 1, Jpsi |-> 0, Eta_c |-> 0, Chi_c0 |-> 0, Chi_c1 |-> 0, Chi_c2 |-> 0,
  Psi2s |-> 0, D0 |-> 0, DPlus |-> 1, Dstar0 |-> 0, DstarPlus |-> 1, Lambda_c |-> 1,
  AntiD0 |-> 0, DeltaPlusPlus |-> 2]

PDGtype == [
  UnknownParticle |-> 0, Gamma |-> 22, Positron |-> -11, Electron |-> 11, Neutrino |-> 121416,
  MuonPlus |-> -13, MuonMinus |-> 13, Pi0 |-> 111, PiPlus |-> 211, PiMinus |-> -211,
  KLong |-> 130, KPlus |-> 321, KMinus |-> -321, Neutron |-> 2112, Proton |-> 2212,
  AntiProton |-> -2212, KShort |-> 310, Eta |-> 221, Lambda |-> 3122, SigmaPlus |-> 3222,
  Sigma0 |-> 3212, SigmaMinus |-> 3112, Xi0 |-> 3322, XiMinus |-> 3312, OmegaMinus |-> 3334,
  AntiNeutron |-> -2112, AntiLambda |-> -3122, AntiSigmaMinus |-> -3222, AntiSigma0 |-> -3212,
  AntiSigmaPlus |-> -3112, AntiXi0 |-> -3322, AntiXiPlus |-> -3312, AntiOmegaPlus |-> -3334,
  Deuteron |-> 45, Triton |-> 46, Helium |-> 47, Geantino |-> 0, He3 |-> 49, Li6 |-> 1000030060,
  Li7 |-> 1000030070, Be7 |-> 1000040070, Be9 |-> 1000040090, B10 |-> 1000050100,
  B11 |-> 1000050110, C12 |-> 1000060120, N14 |-> 1000070140, O16 |-> 1000080160,
  F19 |-> 1000090190, Ne20 |-> 1000100200, Na23 |-> 1000110230, Mg24 |-> 1000120240,
  Al27 |-> 1000130270, Si28 |-> 1000140280, P31 |-> 1000150310, S32 |-> 1000160320,
  Cl35 |-> 1000170350, Ar36 |-> 1000180360, K39 |-> 1000190390, Ca40 |-> 1000200400,
  Sc45 |-> 1000210450, Ti48 |-> 1000220480, V51 |-> 1000230510, Cr52 |-> 1000240520,
  Mn55 |-> 1000250550, Fe56 |-> 1000260560, Co59 |-> 1000270590, Ni58 |-> 1000280580,
  Cu63 |-> 1000290630, Zn64 |-> 1000300640, Ge74 |-> 1000320740, Se80 |-> 1000340800,
  Kr84 |-> 1000360840, Sr88 |-> 1000380880, Zr90 |-> 1000400900, Mo98 |-> 1000420980,
  Pd106 |-> 1000461060, Cd114 |-> 1000481140, Sn120 |-> 1000501200, Xe132 |-> 1000541320,
  Ba138 |-> 1000561380, Ce140 |-> 1000581400, Sm152 |-> 1000621520, Dy164 |-> 1000661640,
  Yb174 |-> 1000701740, W184 |-> 1000741840, Pt194 |-> 1000781940, Au197 |-> 1000791970,
  Hg202 |-> 1000802020, Pb208 |-> 1000822080, U238 |-> 1000922380, Ta181 |-> 1000731810,
  Rho0 |-> 113, RhoPlus |-> 213, RhoMinus |-> -213, omega |-> 223, phiMeson |-> 333,
  EtaPrime |-> 331, a0_980 |-> 9000110, f0_980 |-> 9010221, KStar_892_0 |-> 313,
  KStar_892_Plus |-> 323, KStar_892_Minus |-> -323, AntiKStar_892_0 |-> -313,
  K1_1400_Plus |-> 20323, K1_1400_Minus |-> -20323, b1_1235_Plus |-> 10213,
  Sigma_1385_Minus |-> 3114, Sigma_1385_0 |-> 3214, Sigma_1385_Plus |-> 3224, Jpsi |-> 443,
  Eta_c |-> 441, Chi_c0 |-> 10441, Chi_c1 |-> 20443, Chi_c2 |-> 445, Psi2s |-> 100443,
  D0 |-> 421, DPlus |-> 411, Dstar0 |-> 423, DstarPlus |-> 413, Lambda_c |-> 4122,
  AntiD0 |-> -421, DeltaPlusPlus |-> 2224]

TypeOfPDG == [
  UnknownParticle |-> 0, Gamma |-> 22, Positron |-> -11, Electron |-> 11, Neutrino |-> 121416,
  MuonPlus |-> -13, MuonMinus |-> 13, Pi0 |-> 111, PiPlus |-> 211, PiMinus |-> -211,
  KLong |-> 130, KPlus |-> 321, KMinus |-> -321, Neutron |-> 2112, Proton |-> 2212,
  AntiProton |-> -2212, KShort |-> 310, Eta |-> 221, Lambda |-> 3122, SigmaPlus |-> 3222,
  Sigma0 |-> 3212, SigmaMinus |-> 3112, Xi0 |-> 3322, XiMinus |-> 3312, OmegaMinus |-> 3334,
  AntiNeutron |-> -2112, AntiLambda |-> -3122, AntiSigmaMinus |-> -3222, AntiSigma0 |-> -3212,
  AntiSigmaPlus |-> -3112, AntiXi0 |-> -3322, AntiXiPlus |-> -3312, AntiOmegaPlus |-> -3334,
  Deuteron |-> 45, Triton |-> 46, Helium |-> 47, He3 |-> 49, Li6 |-> 1000030060,
  Li7 |-> 1000030070, Be7 |-> 1000040070, Be9 |-> 1000040090, B10 |-> 1000050100,
  B11 |-> 1000050110, C12 |-> 1000060120, N14 |-> 1000070140, O16 |-> 1000080160,
  F19 |-> 1000090190, Ne20 |-> 1000100200, Na23 |-> 1000110230, Mg24 |-> 1000120240,
  Al27 |-> 1000130270, Si28 |-> 1000140280, P31 |-> 1000150310, S32 |-> 1000160320,
  Cl35 |-> 1000170350, Ar36 |-> 1000180360, K39 |-> 1000190390, Ca40 |-> 1000200400,
  Sc45 |-> 1000210450, Ti48 |-> 1000220480, V51 |-> 1000230510, Cr52 |-> 1000240520,
  Mn55 |-> 1000250550, Fe56 |-> 1000260560, Co59 |-> 1000270590, Ni58 |-> 1000280580,
  Cu63 |-> 1000290630, Zn64 |-> 1000300640, Ge74 |-> 1000320740, Se80 |-> 1000340800,
  Kr84 |-> 1000360840, Sr88 |-> 1000380880, Zr90 |-> 1000400900, Mo98 |-> 1000420980,
  Pd106 |-> 1000461060, Cd114 |-> 1000481140, Sn120 |-> 1000501200, Xe132 |-> 1000541320,
  Ba138 |-> 1000561380, Ce140 |-> 1000581400, Sm152 |-> 1000621520, Dy164 |-> 1000661640,
  Yb174 |-> 1000701740, W184 |-> 1000741840, Pt194 |-> 1000781940, Au197 |-> 1000791970,
  Hg202 |-> 1000802020, Pb208 |-> 1000822080, U238 |-> 1000922380, Ta181 |-> 1000731810,
  Rho0 |-> 113, RhoPlus |-> 213, RhoMinus |-> -213, omega |-> 223, phiMeson |-> 333,
  EtaPrime |-> 331, a0_980 |-> 9000110, f0_980 |-> 9010221, KStar_892_0 |-> 313,
  KStar_892_Plus |-> 323, KStar_892_Minus |-> -323, AntiKStar_892_0 |-> -313,
  K1_1400_Plus |-> 20323, K1_1400_Minus |-> -20323, b1_1235_Plus |-> 10213,
  Sigma_1385_Minus |-> 3114, Sigma_1385_0 |-> 3214, Sigma_1385_Plus |-> 3224, Jpsi |-> 443,
  Eta_c |-> 441, Chi_c0 |-> 10441, Chi_c1 |-> 20443, Chi_c2 |-> 445, Psi2s |-> 100443,
  D0 |-> 421, DPlus |-> 411, Dstar0 |-> 423, DstarPlus |-> 413, Lambda_c |-> 4122,
  AntiD0 |-> -421, DeltaPlusPlus |-> 2224]

PDGtoPType(pdg) ==
  IF \E p \in DOMAIN TypeOfPDG : TypeOfPDG[p] = pdg
    THEN CHOOSE p \in DOMAIN TypeOfPDG : TypeOfPDG[p] = pdg ELSE "UnknownParticle"

\* What the generators and users ask of a particle.
VaryingMass == {
  "UnknownParticle", "Rho0", "RhoPlus", "RhoMinus", "omega", "phiMeson", "a0_980", "f0_980",
  "KStar_892_0", "KStar_892_Plus", "KStar_892_Minus", "AntiKStar_892_0", "K1_1400_Plus",
  "K1_1400_Minus", "b1_1235_Plus", "Sigma_1385_Minus", "Sigma_1385_0", "Sigma_1385_Plus",
  "Eta_c", "Chi_c0", "DeltaPlusPlus"}

IsFixedMass(p) == p \notin VaryingMass

IsResonance(p) ==
  ~ IsFixedMass(p) /\ p \notin {"UnknownParticle", "phiMeson", "omega"}

IsLepton == {"Electron", "Positron", "MuonPlus", "MuonMinus", "Neutrino"}

IsDetachedVertex == {
  "MuonPlus", "MuonMinus", "PiPlus", "PiMinus", "KShort", "KLong", "KPlus", "KMinus", "Neutron",
  "Lambda", "SigmaPlus", "SigmaMinus", "Xi0", "XiMinus", "OmegaMinus", "AntiNeutron",
  "AntiLambda", "AntiSigmaMinus", "AntiSigmaPlus", "AntiXi0", "AntiXiPlus", "AntiOmegaPlus",
  "Deuteron", "Triton", "Helium", "He3"}

Is_FinalStateParticle == {
  "Gamma", "Positron", "Electron", "Neutrino", "MuonPlus", "MuonMinus", "PiPlus", "PiMinus",
  "KLong", "KPlus", "KMinus", "Neutron", "Proton", "AntiProton", "AntiNeutron", "Deuteron",
  "Triton", "Helium", "He3", "Li6", "Li7", "Be7", "Be9", "B10", "B11", "C12", "N14", "O16",
  "F19", "Ne20", "Na23", "Mg24", "Al27", "Si28", "P31", "S32", "Cl35", "Ar36", "K39", "Ca40",
  "Sc45", "Ti48", "V51", "Cr52", "Mn55", "Fe56", "Co59", "Ni58", "Cu63", "Zn64", "Ge74", "Se80",
  "Kr84", "Sr88", "Zr90", "Mo98", "Pd106", "Cd114", "Sn120", "Xe132", "Ba138", "Ce140", "Sm152",
  "Dy164", "Yb174", "W184", "Pt194", "Au197", "Hg202", "Pb208", "U238", "Ta181"}

\* Powers in the two sums that a list of particles is multiplexed into.
ParticleMultiplexPower == [
  Gamma |-> 0, Positron |-> 1, Electron |-> 2, Neutrino |-> 3, MuonPlus |-> 4, MuonMinus |-> 5,
  Pi0 |-> 6, PiPlus |-> 7, PiMinus |-> 8, KLong |-> 9, KPlus |-> 10, KMinus |-> 11,
  Neutron |-> 12, Proton |-> 13, AntiProton |-> 14, KShort |-> 0, Eta |-> 1, Lambda |-> 2,
  SigmaPlus |-> 3, Sigma0 |-> 4, SigmaMinus |-> 5, Xi0 |-> 6, XiMinus |-> 7, OmegaMinus |-> 8,
  AntiNeutron |-> 15, AntiLambda |-> 9, AntiSigmaMinus |-> 10, AntiSigma0 |-> 11,
  AntiSigmaPlus |-> 12, AntiXi0 |-> 13, AntiXiPlus |-> 14, AntiOmegaPlus |-> 15,
  Deuteron |-> 16, Rho0 |-> 17, RhoPlus |-> 18, RhoMinus |-> 19, omega |-> 20, phiMeson |-> 22,
  EtaPrime |-> 21, a0_980 |-> 23, f0_980 |-> 24, KStar_892_0 |-> 25, KStar_892_Plus |-> 26,
  KStar_892_Minus |-> 27, AntiKStar_892_0 |-> 28, K1_1400_Plus |-> 29, K1_1400_Minus |-> 30,
  b1_1235_Plus |-> 31, Sigma_1385_Minus |-> 32, Sigma_1385_0 |-> 33, Sigma_1385_Plus |-> 34,
  Jpsi |-> 36, Eta_c |-> 37, Chi_c0 |-> 38, Chi_c1 |-> 39, Chi_c2 |-> 40, Psi2s |-> 41,
  D0 |-> 42, DPlus |-> 43, Dstar0 |-> 44, DstarPlus |-> 45, Lambda_c |-> 46, AntiD0 |-> 47,
  DeltaPlusPlus |-> 35]

FinalPower == <<
  "Gamma", "Positron", "Electron", "Neutrino", "MuonPlus", "MuonMinus", "Pi0", "PiPlus",
  "PiMinus", "KLong", "KPlus", "KMinus", "Neutron", "Proton", "AntiProton", "AntiNeutron">>

DecayingPower == <<
  "KShort", "Eta", "Lambda", "SigmaPlus", "Sigma0", "SigmaMinus", "Xi0", "XiMinus",
  "OmegaMinus", "AntiLambda", "AntiSigmaMinus", "AntiSigma0", "AntiSigmaPlus", "AntiXi0",
  "AntiXiPlus", "AntiOmegaPlus", "Deuteron", "Rho0", "RhoPlus", "RhoMinus", "omega", "EtaPrime",
  "phiMeson", "a0_980", "f0_980", "KStar_892_0", "KStar_892_Plus", "KStar_892_Minus",
  "AntiKStar_892_0", "K1_1400_Plus", "K1_1400_Minus", "b1_1235_Plus", "Sigma_1385_Minus",
  "Sigma_1385_0", "Sigma_1385_Plus", "DeltaPlusPlus", "Jpsi", "Eta_c", "Chi_c0", "Chi_c1",
  "Chi_c2", "Psi2s", "D0", "DPlus", "Dstar0", "DstarPlus", "Lambda_c", "AntiD0">>

\* A wrong variant: counts from one.
DemultiplexFromOne(bit, decaying) ==
  LET table == IF decaying THEN DecayingPower ELSE FinalPower
  IN IF bit \in DOMAIN table THEN table[bit] ELSE "UnknownParticle"

DemultiplexPID(bit, decaying) ==
  LET table == IF decaying THEN DecayingPower ELSE FinalPower
  IN IF bit + 1 \in DOMAIN table THEN table[bit + 1] ELSE "UnknownParticle"

\* The first of the particles tried for the charge whose mass is within 10 MeV.
Tried(charge) ==
  IF charge > 0 THEN <<"Triton", "Deuteron", "Proton", "PiPlus", "KPlus", "Positron", "MuonPlus">>
  ELSE IF charge < 0 THEN <<"PiMinus", "KMinus", "MuonMinus", "Electron", "AntiProton">>
  ELSE <<"Gamma", "Neutron">>

IDTrack(charge, mass) ==
  LET near == SelectSeq(Tried(charge), LAMBDA p : /\ mass - ParticleMass[p] < 10000
                                                  /\ ParticleMass[p] - mass < 10000)
  IN IF near = << >> THEN "UnknownParticle" ELSE Head(near)

\* lookupParticle of hddm-cpp and hddm-py: codes below 100; xml-hddm tries those below 99.
Lookup(name, codes) ==
  IF \E p \in Particles : Particle_t[p] \in codes /\ ParticleType[p] = name
    THEN CHOOSE p \in Particles : Particle_t[p] \in codes /\ ParticleType[p] = name
    ELSE "UnknownParticle"

-----------------------------------------------------------------------------
ParticleInit == particle = "UnknownParticle"

ParticleNext == particle = "UnknownParticle" /\ particle' \in Particles \ {particle}

-----------------------------------------------------------------------------
ParticleTypeOK == particle \in Particles /\ Particle_t[particle] \in 0 .. 194

\* The tables of particleType.h agree with each other: a particle's name, PDG code
\* and multiplex power lead back to it, no two particles share a name or a code,
\* antiparticles have the same mass and opposite charge, IDTrack finds each particle
\* it knows, and a schema constant names a particle exactly if its code is below 100.
\* No resonance has a detached vertex, and the leptons are those by their PDG code,
\* where 121416 is a neutrino of any kind.
\* Geantino has no PDG code, twenty particles have no Get_ShortName, and Deuteron is
\* a final state that is multiplexed with the decaying particles.
ParticleTablesAgree ==
  LET p     == particle
      known == p \in DOMAIN Get_ShortName
      final == p \in Is_FinalStateParticle \cup {"Pi0"} /\ p # "Deuteron"
  IN /\ ParticleEnum(ParticleType[p]) = p
     /\ p # "Geantino" => PDGtoPType(PDGtype[p]) = p
     /\ p \in DOMAIN ParticleMultiplexPower =>
          DemultiplexPID(ParticleMultiplexPower[p], ~ final) = p
     /\ (\E i \in DOMAIN Tried(ParticleCharge[p]) : Tried(ParticleCharge[p])[i] = p) =>
          IDTrack(ParticleCharge[p], ParticleMass[p]) = p
     /\ Lookup(ParticleType[p], 0 .. 99) = IF Particle_t[p] < 100 THEN p ELSE "UnknownParticle"
     /\ IsResonance(p) => p \notin IsDetachedVertex
     /\ p \in IsLepton <=> PDGtype[p] \in (11 .. 16) \cup (-16 .. -11) \cup {121416}
     /\ \A q \in Particles \ {p} :
          /\ Particle_t[q] # Particle_t[p]
          /\ EnumString[q] # EnumString[p]
          /\ EvtGenString[q] # EvtGenString[p] /\ ShortName[q] # ShortName[p]
          /\ ParticleName_ROOT[q] # ParticleName_ROOT[p]
          /\ known /\ q \in DOMAIN Get_ShortName => Get_ShortName[q] # Get_ShortName[p]
          /\ PDGtype[p] # 0 /\ PDGtype[q] = - PDGtype[p] =>
               ParticleMass[q] = ParticleMass[p] /\ ParticleCharge[q] = - ParticleCharge[p]
=============================================================================
